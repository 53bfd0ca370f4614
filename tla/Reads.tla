--------------------------------- MODULE Reads ---------------------------------
(***************************************************************************)
(* What the read functions and the rules give in every state of a table    *)
(* (module Tables), against what its rows say: the walks over the encoded  *)
(* keys, cursors and joins of cursors, the search and the traversals,      *)
(* lists, patterns over the names, tuple sets, and rules compiled and      *)
(* interpreted.  Reads by number are in Tables.                            *)
(***************************************************************************)
EXTENDS Tables, Cursor, Search, Lists, Patterns, Bytecode

CONSTANTS
  Words,      \* the names interned after those of the files, a sequence
  Exprs,      \* the regular expressions tried
  RuleTexts   \* the rules evaluated over the rows

ASSUME ReadsAssumption == \A r \in RuleTexts : IsRuleText(r)

-----------------------------------------------------------------------------
(* What a caller reads, in the states where all else is quiet; what        *)
(* depends on the rows alone, once for each set of them.                   *)

\* The depth-first walk under a prefix, and a cursor resumed call by call,
\* give every tuple there once, in order, and the cursor nothing after the end;
\* a seek starts over wherever it stood.  The walk of a variadic relation
\* gives the tuples of every length.  The merge join of two cursors pairs every
\* left with every right tuple of a run of equal keys.
CursorsExact ==
  Plain =>
    LET d       == dafsa_build_sorted(rows)
        one     == {<<t[1]>> : t \in rows}
        three   == {t \o <<t[1]>> : t \in rows}
        swapped == permindex_build(rows, Perm)
    IN /\ \A l \in Leads : LET it == dl_iter_open(d, Arity, l) IN
            /\ rel_prefix(d, Arity, l) = Prefix(rows, l)
            /\ vrel_prefix(<<dafsa_build_sorted(one), d, dafsa_build_sorted(three)>>, l)
                 = VariadicPrefix(one \cup rows \cup three, l)
            /\ Drain(it) = Enumeration(rows, l)
            /\ \A n \in 1 .. (MaxRows + 1), m \in {<<v>> : v \in Values} :
                 Drain(dl_iter_seek(After(it, n), m)) = Enumeration(rows, m)
       /\ \A j \in 1 .. Arity, l \in {<<>>} \cup {<<v>> : v \in Values} :
            dl_merge_join(dl_iter_open(d, Arity, l),
                          dl_iter_open(dafsa_build_sorted(swapped), Arity, <<>>), j)
              = MergedPairs(Bound(rows, l), swapped, j)

SearchParts ==
  /\ \A terms \in BoundedSeq(Values, 3) \ {<<>>} :
       /\ {h[1] : h \in Range(dl_search(rows, terms))} = AllTerms(rows, Range(terms))
       /\ \A n \in 1 .. 3 : LET top == dl_search_top(rows, terms, n)
                           IN IsSearchTop([k \in DOMAIN top |-> top[k][1]], rows, Range(terms), n)
       /\ \A min \in 1 .. Cardinality(Range(terms)) :
            /\ dl_search_ranked(rows, terms, min) = Ranked(rows, Range(terms), min)
            /\ \A n \in 1 .. 3 : dl_search_ranked_top(rows, terms, min, n)
                                   = RankedTop(rows, Range(terms), min, n)
  /\ \A A \in SUBSET rows :
       dl_index_observations(dl_index_observations({}, A), rows) = Postings(rows, Tokens)

TraversalParts ==
  LET nodes == {t[1] : t \in rows} \cup {t[2] + 2 : t \in rows}
      graph == {<<t[1], t[2] + 2>> : t \in rows}
      edge  == graph \X {1, 2}
  IN /\ \A start \in nodes \cup {1}, depth \in 1 .. 4, max \in 1 .. 4 :
          IsTraversal(dl_traverse({e[1] \o <<e[2]>> : e \in edge}, start, depth, max),
                      graph, start, Min({depth, 3}), max)
     /\ \A v \in Values, max \in 0 .. 2, named \in SUBSET Values :
          IsObservations(dl_node_observations(rows, v, max, named), rows, v, max, named)

\* The graph memory read from the rows.  As postings: the intersection, the
\* counting and the early exits of the two searches agree with counting terms
\* per observation, whatever terms are repeated, and the index, built up in
\* any two steps, holds what the observations say.  As edges between two
\* kinds of nodes: the breadth-first walk reports the nodes nearest to the
\* start, both directions counted, each once with its distance, and like the
\* list of a node's observations is only cut short by the caller's limit.
MemoryExact == Plain => SearchParts /\ TraversalParts

\* The rows as lists, interned one after the other: a handle stands for its
\* list and for no other, equal lists share it, and the operations on
\* handles are the operations on lists.
ListsExact ==
  Plain =>
    LET seq   == Ascending(rows)
        build == FoldLeft(LAMBDA acc, t : LET r == Interned(acc.store, t)
                                          IN [store |-> r.store, hs |-> Append(acc.hs, r.h)],
                          [store |-> term_create, hs |-> <<>>], seq)
        st    == build.store
        list  == [i \in 0 .. Len(seq) |-> IF i = 0 THEN <<>> ELSE seq[i]]
        h     == [i \in 0 .. Len(seq) |-> IF i = 0 THEN TERM_NIL ELSE build.hs[i]]
    IN \A i \in 0 .. Len(seq) :
         /\ term_is_list(st, h[i]) /\ \A v \in Values : ~ term_is_list(st, v)
         /\ Elements(st, h[i]) = list[i] /\ term_length(st, h[i]) = ListLength(list[i])
         /\ term_car(st, h[i]) = ListCar(list[i])
         /\ \A j \in 0 .. Len(seq) :
              LET r == term_append(st, h[i], h[j])
              IN Elements(r.store, r.h) = ListAppend(list[i], list[j])
         /\ \A v \in Values :
              LET r == term_cons(st, v, h[i])
              IN /\ term_cdr(r.store, r.h) = h[i] /\ term_cons(r.store, v, h[i]) = r
                 /\ \A j \in 0 .. Len(seq) :
                      /\ Elements(r.store, h[j]) = list[j]
                      /\ (r.h = h[j]) = (ListCons(v, list[i]) = list[j])

Compiled == [re \in Exprs |-> regex_compile(re)]

\* The names: the scan of the interner with the compiled table, the walk of
\* table and name DAFSA together, and the filter over the rows agree with
\* what the expression says of a whole name, the walk reporting each name
\* once; and fuzzy lookup, by distance and by automaton, with the edit
\* distance.
PatternsExact ==
  Quiet =>
    LET names == dict \o SelectSeq(Words, LAMBDA w : ~ Contains(dict, w))
        d     == dafsa_build_sorted(rows)
    IN /\ \A re \in Exprs :
            LET ids == MatchingIds(names, re)
            IN /\ Range(symbolsScanTable(names, Compiled[re])) = ids
               /\ Range(symbols_dfa_walk(names, Compiled[re])) = ids
               /\ IsInjective(symbols_dfa_walk(names, Compiled[re]))
               /\ \A c \in Cols : Range(dl_pattern(d, Arity, c, names, Compiled[re]))
                                    = PatternRows(rows, c, names, re)
       /\ \A needle \in Range(Words), k \in 0 .. LEV_MAX_K :
            /\ dl_fuzzy_lookup(names, needle, k) = Fuzzy(names, needle, k)
            /\ symbolsScanTable(names, lev_compile(needle, k))
                 = [i \in DOMAIN Fuzzy(names, needle, k) |-> Fuzzy(names, needle, k)[i][1]]

-----------------------------------------------------------------------------
(* Rules over the rows: an evaluation depends on the rows only, too. *)

\* The rows added one by one, in the order given.
Collected(seq) == FoldLeft(LAMBDA ts, t : ts_add(ts, t).ts, ts_init, seq)

\* A tuple set fed with rows in any order, repeats included, sorted half way
\* and at the end, keeps each row once, says so to whoever adds or asks, and
\* finds the rows under a prefix; through collisions, growth and the sort
\* that moves the rows its table points at.
TupleSetsExact ==
  Plain =>
    \A first \in SetToSeqs(rows), more \in SetToSeqs(Rows \ rows) :
      LET mixed == first \o more
          half  == ts_sort(Collected(first \o first))
          whole == FoldLeft(LAMBDA ts, t : ts_add(ts, t).ts, half, mixed)
          done  == ts_sort(whole)
      IN /\ Collected(first \o first).data = WithoutRepeats(first \o first)
         /\ \A t \in Probe : /\ ts_contains(half, t) = (t \in rows)
                              /\ ts_add(half, t).new = (t \notin rows)
                              /\ ts_contains(done, t) = (t \in Rows)
         /\ done.data = Ascending(Rows)
         /\ \A l \in Leads : ts_prefix(done, l) = Stretch(Rows, l)

\* An override as the instruction that reads it expects it: sorted, and in
\* the instruction's column order if that is an index's.
Override(code, i, S) ==
  LET reads == SelectSeq(code, LAMBDA in : in.op = "LOOKUP_PERM" /\ in.bi = i)
  IN ts_sort(Collected(SetToSeq(IF reads = <<>> THEN S
                                ELSE {Permuted(t, reads[1].perm) : t \in S})))

\* What a load may find: all relations small, or p large and q recursive, or
\* the indices there from an earlier load.
Loads ==
  {[card |-> [p |-> 1, q |-> 1, u |-> 2], recursive |-> {}, perms |-> {}],
   [card |-> [p |-> 3, q |-> 1, u |-> 1], recursive |-> {"q"}, perms |-> {}],
   [card |-> [p |-> 1, q |-> 3, u |-> 2], recursive |-> {}, perms |-> {<<"p", Perm>>}]}

\* An evaluation gave what the rule's text says, or stopped for want of frames
\* where the body has more enumerating atoms than frames; and the halves of a
\* bushy plan hold what their atoms say of the variables they hand on, and
\* join to the whole.
Joined(L, R, k, join) ==
  /\ Range(matJoinBuild(L, R, k)) = join
  /\ Len(matJoinBuild(L, R, k)) = Cardinality(join)

Sound(r, code, db, ov, res) ==
  /\ \/ res.rc = "ok" /\ res.out = RuleAnswers(r, db, ov)
     \/ res.rc = "frames" /\ MayOverflow(r)
  /\ \A x \in DOMAIN code :
       /\ code[x].op = "MAT_BEGIN" /\ code[x].buf \in DOMAIN res.pool =>
            Range(res.pool[code[x].buf].data)
              = HalfOf(r, code[x].buf, code[x + code[x].size].slots, db, ov)
       /\ code[x].op = "MAT_JOIN" /\ res.rc = "ok" =>
            LET L == res.pool[code[x].l]
                R == res.pool[code[x].r]
            IN Joined(L, R, code[x].k, JoinOf(Range(L.data), Range(R.data), code[x].k))

\* Once over the stored relations, and once for each relational atom and each
\* delta that may stand in for its relation.
Evaluates(r, code, db, overridden) ==
  /\ Sound(r, code, db, <<>>, execRule(code, db, <<>>))
  /\ overridden =>
       \A i \in {k \in DOMAIN r.body : IsRelational(r.body[k])} :
         \A S \in SUBSET db[r.body[i].pred] \ {{}} :
           Sound(r, code, db, i :> S, execRule(code, db, i :> Override(code, i, S)))

\* Compiled and interpreted, a rule derives what its text says, whatever the
\* compiler's switches, whatever order the cardinalities of the load had
\* suggested, and whichever atom reads a delta in place of its relation: no
\* binding of an abandoned row is left behind and no row is skipped, by the
\* left-deep and the bushy plans alike, and by the two halves of the latter.
RulesExact ==
  Plain =>
    \A r \in RuleTexts, o \in Toggles({2}), load \in Loads :
      Evaluates(r, compile_one(r, o @@ load),
                [p |-> rows, q |-> permindex_build(rows, Perm), u |-> {<<t[1]>> : t \in rows}],
                o.reorder /\ o.bushy)
===============================================================================
