-------------------------------- MODULE Search --------------------------------
(***************************************************************************)
(* Full-text search over the postings relation (term, observation) of      *)
(* index.zig.  One list of observations is collected per query term by a   *)
(* prefix walk; the AND search intersects them smallest first, the ranked  *)
(* search counts distinct terms by sorting packed (observation, term rank) *)
(* pairs and walking the groups.  The postings come from the observations  *)
(* (entity, content).  dl_traverse, the other reader of these graph        *)
(* relations, walks edge(from, to, type) breadth first in both directions. *)
(***************************************************************************)
EXTENDS Cursor

CONSTANT Tokens     \* the terms of a content, as a function

\* The observations of one term, in the order of the walk.
collectTermObsIds(postings, term) ==
  LET walk == rel_prefix(dafsa_build_sorted(postings), 2, <<term>>)
  IN [i \in DOMAIN walk |-> walk[i][2]]

\* Iterate the smallest list, the first of them on a tie, and keep what is in
\* all the others; the order of the smallest list is kept.
intSetIntersect(sets) ==
  LET i == CHOOSE x \in DOMAIN sets : \A y \in DOMAIN sets :
             Len(sets[x]) < Len(sets[y]) \/ (Len(sets[x]) = Len(sets[y]) /\ x <= y)
  IN SelectSeq(sets[i], LAMBDA obs : \A y \in DOMAIN sets : Contains(sets[y], obs))

\* Higher score first, then the smaller observation.
scoredResultLt(a, b) == a[2] > b[2] \/ (a[2] = b[2] /\ a[1] < b[1])

\* searchImpl: AND over the terms as given, every result scored n_terms.
dl_search(postings, terms) ==
  IF terms = <<>> THEN Refused
  ELSE LET sets == [i \in DOMAIN terms |-> collectTermObsIds(postings, terms[i])]
       IN IF \A i \in DOMAIN sets : sets[i] = <<>> THEN <<>>
          ELSE LET hits == intSetIntersect(sets)
               IN SortSeq([k \in DOMAIN hits |-> <<hits[k], Len(terms)>>], scoredResultLt)

\* The first `limit` results.
dl_search_top(postings, terms, limit) ==
  IF limit <= 0 \/ terms = <<>> THEN Refused
  ELSE LET all == dl_search(postings, terms) IN SubSeq(all, 1, Min({limit, Len(all)}))

\* One group of equal observations at the front of the sorted pairs: the
\* number of its different ranks.
RECURSIVE CountGroups(_, _)
CountGroups(pk, min) ==
  IF pk = <<>> THEN <<>>
  ELSE LET obs     == pk[1][1]
           group   == SelectSeq(pk, LAMBDA p : p[1] = obs)
           matched == Cardinality({k \in DOMAIN group : k = 1 \/ group[k][2] # group[k - 1][2]})
       IN (IF matched >= min THEN <<<<obs, matched>>>> ELSE <<>>)
          \o CountGroups(SubSeq(pk, Len(group) + 1, Len(pk)), min)

searchRankedImpl(postings, uniq, min) ==
  LET sets == [i \in DOMAIN uniq |-> collectTermObsIds(postings, uniq[i])]
      pk   == FlattenSeq([i \in DOMAIN uniq |-> [e \in DOMAIN sets[i] |-> <<sets[i][e], i>>]])
  IN SortSeq(CountGroups(SortSeq(pk, Smaller), min), scoredResultLt)

\* Repeated terms are kept and counted again.
FaultyDedup(terms) == terms

\* The query without its repeats, in order of first occurrence.
Dedup(terms) ==
  FoldLeft(LAMBDA uniq, t : IF Contains(uniq, t) THEN uniq ELSE Append(uniq, t), <<>>, terms)

dl_search_ranked(postings, terms, min) ==
  IF terms = <<>> \/ min <= 0 \/ min > Len(Dedup(terms)) THEN Refused
  ELSE IF min = Len(Dedup(terms)) THEN dl_search(postings, Dedup(terms))
  ELSE searchRankedImpl(postings, Dedup(terms), min)

\* The first `limit` results.
dl_search_ranked_top(postings, terms, min, limit) ==
  IF limit <= 0 THEN Refused
  ELSE LET all == dl_search_ranked(postings, terms, min)
       IN IF all = Refused THEN Refused ELSE SubSeq(all, 1, Min({limit, Len(all)}))

\* dl_index_observations: nothing to do when as many contents are indexed as
\* there are contents with a token; else the contents that are not indexed.
dl_index_observations(postings, observations) ==
  LET contents == {o[2] : o \in observations}
      indexed  == {p[2] : p \in postings}
  IN IF Cardinality(indexed) >= Cardinality({c \in contents : Tokens[c] # {}}) THEN postings
     ELSE postings \cup UNION {{<<term, c>> : term \in Tokens[c]} : c \in contents \ indexed}

-----------------------------------------------------------------------------
(* Graph traversal *)

\* neighborPush over a prefix walk: the second columns without repeats, as
\* many as there is room for.
Neighbors(d, node, max) ==
  LET walk == rel_prefix(d, 3, <<node>>)
      push(seen, t) == IF Contains(seen, t[2]) \/ Len(seen) = max THEN seen ELSE Append(seen, t[2])
  IN FoldLeft(push, <<>>, walk)

\* collectForward reads the relation, collectReverse its permutation index.
collectForward(edges3, node, max) == Neighbors(dafsa_build_sorted(edges3), node, max)
collectReverse(edges3, node, max) ==
  Neighbors(dafsa_build_sorted(permindex_build(edges3, <<2, 1, 3>>)), node, max)

\* A neighbour enters the queue, which is what is reported, if there is room;
\* the visited array has as many places as the queue.
Visit(queue, nb, depth, max) ==
  IF (\E k \in DOMAIN queue : queue[k][1] = nb) \/ Len(queue) = max THEN queue
  ELSE Append(queue, <<nb, depth>>)

RECURSIVE TraverseFrom(_, _, _, _, _)
TraverseFrom(edges3, queue, head, depth, max) ==
  IF head > Len(queue) \/ Len(queue) >= max THEN queue
  ELSE LET node == queue[head][1]
           next == queue[head][2] + 1
           visit(q, nb) == Visit(q, nb, next, max)
           fwd  == FoldLeft(visit, queue, collectForward(edges3, node, max))
       IN TraverseFrom(edges3,
                       IF next > depth THEN queue
                       ELSE FoldLeft(visit, fwd, collectReverse(edges3, node, max)),
                       head + 1, depth, max)

dl_traverse(edges3, start, depth, max) ==
  IF depth < 1 \/ max < 1 THEN Refused
  ELSE TraverseFrom(edges3, <<<<start, 0>>>>, 1, Min({depth, 3}), max)

\* collectObsCb over a prefix walk: a content without a name is not counted,
\* and the walk stops once `max` are.
dl_node_observations(observations, node, max, named) ==
  LET walk == rel_prefix(dafsa_build_sorted(observations), 2, <<node>>)
      collect(out, t) == IF t[2] \notin named \/ (max > 0 /\ Len(out) >= max) THEN out
                         ELSE Append(out, t[2])
  IN FoldLeft(collect, <<>>, walk)
===============================================================================
