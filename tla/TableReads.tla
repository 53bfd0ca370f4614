------------------------------ MODULE TableReads ------------------------------
(***************************************************************************)
(* What the read functions of the C interface promise about a relation, in *)
(* terms of the set of its tuples only.  A relation is a finite set of     *)
(* tuples of numbers; its order is the numeric lexicographic one.  These   *)
(* are the reference definitions the walks over encoded keys (Keys,        *)
(* Cursor), the full-text search (Search) and the list store (Lists) are   *)
(* compared with; they are taken from the declarations of src/src/*.h.     *)
(* Those of the patterns stand in Patterns.                                *)
(***************************************************************************)
EXTENDS Integers, Sequences, SequencesExt, FiniteSetsExt

\* The result of a function that refuses its arguments (-1, UINT64_MAX, NULL),
\* no tuple, number or sequence.
CONSTANT Refused

ASSUME RefusedAssumption == Refused \notin Seq(Nat)

\* Numeric lexicographic order on tuples of one length.
Smaller(t, u) ==
  \E i \in DOMAIN t : t[i] < u[i] /\ \A j \in 1 .. (i - 1) : t[j] = u[j]

\* dl_rank: the distinct tuples strictly below `t`.
Rank(R, t) == Cardinality({u \in R : Smaller(u, t)})

\* dl_select: the tuple of rank k, refused when there are not that many.
Select(R, k) == IF k < Cardinality(R) THEN CHOOSE t \in R : Rank(R, t) = k ELSE Refused

\* The tuples of R in ascending order, each at its rank.
Ascending(R) == [k \in 1 .. Cardinality(R) |-> Select(R, k - 1)]

\* The tuples of R whose first columns are `leading`.
Bound(R, leading) == {t \in R : IsPrefix(leading, t)}

\* dl_lookup: is the fact there.
Lookup(R, t) == t \in R

\* dl_prefix: every tuple under `leading`.
Prefix(R, leading) == Ascending(Bound(R, leading))

\* vrel_prefix: the same of a variadic relation, whose tuples differ in length;
\* the shorter ones first.
VariadicPrefix(R, leading) ==
  FlattenSeq([a \in 1 .. Max({0} \cup {Len(t) : t \in R}) |->
                Ascending({t \in Bound(R, leading) : Len(t) = a})])

\* dl_range_count: the distinct tuples in the half-open range.
RangeCount(R, lo, hi) == Cardinality({u \in R : u = lo \/ Smaller(lo, u)} \cap {u \in R : Smaller(u, hi)})

\* dl_count: the number of distinct tuples.
Count(R) == Cardinality(R)

\* dl_rank_bound, dl_select_bound, dl_range_count_bound: the same among the
\* tuples under `leading`; an absent bound counts 0 and selects nothing.
RankBound(R, leading, t) == Rank(Bound(R, leading), t)
SelectBound(R, leading, k) == Select(Bound(R, leading), k)
RangeCountBound(R, leading, lo, hi) == RangeCount(Bound(R, leading), lo, hi)

\* The column order a permutation index sorts by: perm[j] is the original
\* column at permuted position j.
Permuted(t, perm) == [j \in DOMAIN t |-> t[perm[j]]]
SmallerBy(perm, t, u) == Smaller(Permuted(t, perm), Permuted(u, perm))

\* dl_rank_perm, dl_select_perm, dl_range_count_perm: order statistics in
\* permuted order, with arguments and results in the original column order.
RankPerm(R, perm, t) == Cardinality({u \in R : SmallerBy(perm, u, t)})
SelectPerm(R, perm, k) ==
  IF k < Cardinality(R) THEN CHOOSE t \in R : RankPerm(R, perm, t) = k ELSE Refused
RangeCountPerm(R, perm, lo, hi) ==
  Cardinality({u \in R : ~ SmallerBy(perm, u, lo) /\ SmallerBy(perm, u, hi)})

\* rel_has_col0: some tuple has x in its first column.
HasCol0(R, x) == \E t \in R : t[1] = x

\* rel_range_each: the tuples whose first column lies in [lo, hi), ascending.
RangeEach(R, lo, hi) == Ascending({t \in R : lo <= t[1] /\ t[1] < hi})

\* dl_iter_open, dl_iter_next: the tuples under `leading` one by one, ascending.
Enumeration(R, leading) == Ascending(Bound(R, leading))

\* dl_merge_join: the pairs that agree on their first j columns, in the order
\* of the left tuple and then of the right one.
MergedPairs(L, R, j) ==
  SetToSortSeq({p \in L \X R : \A i \in 1 .. j : p[1][i] = p[2][i]},
               LAMBDA p, q : Smaller(p[1] \o p[2], q[1] \o q[2]))

\* dl_search_ranked: the observations of a set of postings (term, observation)
\* that match at least `min` distinct terms, each with its number of matched
\* terms, the higher number first and then the smaller observation.
Matched(postings, terms, obs) == Cardinality({s \in terms : <<s, obs>> \in postings})
Ranked(postings, terms, min) ==
  LET hits == {obs \in {p[2] : p \in postings} : Matched(postings, terms, obs) >= min}
  IN SetToSortSeq({<<obs, Matched(postings, terms, obs)>> : obs \in hits},
                  LAMBDA a, b : b[2] < a[2] \/ (a[2] = b[2] /\ a[1] < b[1]))

\* dl_search: the observations that match every term.
AllTerms(postings, terms) ==
  {obs \in {p[2] : p \in postings} : Matched(postings, terms, obs) = Cardinality(terms)}

\* dl_search_top: all-term matches, every one of the same score, cut at `limit`.
IsSearchTop(out, postings, terms, limit) ==
  /\ IsInjective(out) /\ Range(out) \subseteq AllTerms(postings, terms)
  /\ Len(out) = Min({limit, Cardinality(AllTerms(postings, terms))})

\* dl_search_ranked_top: the first `limit` of the ranked results.
RankedTop(postings, terms, min, limit) ==
  LET all == Ranked(postings, terms, min) IN SubSeq(all, 1, Min({limit, Len(all)}))

\* dl_index_observations: what the postings of a set of observations
\* (entity, content) are, with the terms of each content.
Postings(observations, tokens) ==
  UNION {{<<term, o[2]>> : term \in tokens[o[2]]} : o \in observations}

\* dl_traverse: the nodes within `depth` edges of `start`, edges taken both
\* ways, each with its distance; nearest first, at most `max` of them.
Near(edges, start, n) ==
  LET grow(S) == S \cup {e[1] : e \in {x \in edges : x[2] \in S}}
                   \cup {e[2] : e \in {x \in edges : x[1] \in S}}
      it[k \in 0 .. n] == IF k = 0 THEN {start} ELSE grow(it[k - 1])
  IN it[n]

IsTraversal(out, edges, start, depth, max) ==
  /\ IsInjective([k \in DOMAIN out |-> out[k][1]])
  /\ Len(out) = Min({max, Cardinality(Near(edges, start, depth))})
  /\ \A k \in DOMAIN out :
       /\ out[k][1] \in Near(edges, start, out[k][2])
       /\ out[k][2] = 0 \/ out[k][1] \notin Near(edges, start, out[k][2] - 1)
       /\ k > 1 => out[k - 1][2] <= out[k][2]

\* dl_node_observations: the contents of a node's observations (node, content)
\* that have a name, at most `max` of them; no limit if `max` is not positive.
IsObservations(out, observations, node, max, named) ==
  LET all == {o[2] : o \in {x \in observations : x[1] = node /\ x[2] \in named}}
  IN /\ IsInjective(out) /\ Range(out) \subseteq all
     /\ Len(out) = IF max > 0 THEN Min({max, Cardinality(all)}) ELSE Cardinality(all)

\* The list operations on the lists themselves; 0 stands for no value.
ListCons(x, l) == <<x>> \o l
ListAppend(a, b) == a \o b
ListLength(l) == Len(l)
ListCar(l) == IF l = <<>> THEN 0 ELSE Head(l)
===============================================================================
