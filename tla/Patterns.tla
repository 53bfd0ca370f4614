------------------------------- MODULE Patterns -------------------------------
(***************************************************************************)
(* Patterns over symbol names (regexwalk.zig): an expression becomes a     *)
(* nondeterministic automaton fragment by fragment, then a table by the    *)
(* subset construction; a term and a distance become a table whose states  *)
(* are rows of the edit-distance matrix.  A table is run over every name   *)
(* of the interner, or walked together with the DAFSA of the names.        *)
(*                                                                         *)
(* A name is a sequence of letters, numbers from 1; an expression is its   *)
(* syntax tree (a literal, a dot and a bracket are all a class).           *)
(***************************************************************************)
EXTENDS Cursor

CONSTANT Alphabet       \* the letters, 1 .. 255 in the code

LEV_MAX_K == 2

-----------------------------------------------------------------------------
(* From an expression to a fragment of the automaton whose first n states  *)
(* exist already: epsilon edges, edges on a class, the start, the accept   *)
(* state, and the states flagged accepting.                                *)

rxAtom(n, eps, set) ==
  [n |-> n + 2, start |-> n + 1, accept |-> n + 2, flags |-> {n + 2},
   eps |-> IF eps THEN {<<n + 1, n + 2>>} ELSE {},
   on |-> IF eps THEN {} ELSE {[from |-> n + 1, to |-> n + 2, set |-> set]}]

\* A sequence whose first part still accepts on its own.
FaultyRxSeq(l, r) ==
  [n |-> r.n, start |-> l.start, accept |-> r.accept, flags |-> l.flags \cup r.flags,
   eps |-> l.eps \cup r.eps \cup {<<l.accept, r.start>>}, on |-> l.on \cup r.on]

rxSeq(l, r) ==
  [n |-> r.n, start |-> l.start, accept |-> r.accept,
   flags |-> (l.flags \ {l.accept}) \cup r.flags,
   eps |-> l.eps \cup r.eps \cup {<<l.accept, r.start>>}, on |-> l.on \cup r.on]

rxAlt(l, r) ==
  LET s == r.n + 1
      a == r.n + 2
  IN [n |-> a, start |-> s, accept |-> a,
      flags |-> ((l.flags \cup r.flags) \ {l.accept, r.accept}) \cup {a},
      eps |-> l.eps \cup r.eps \cup {<<s, l.start>>, <<s, r.start>>, <<l.accept, a>>, <<r.accept, a>>},
      on |-> l.on \cup r.on]

\* e* and e? may be passed over, e* and e+ may be repeated.
rxPostfix(e, op) ==
  LET s == e.n + 1
      a == e.n + 2
  IN [n |-> a, start |-> s, accept |-> a, flags |-> (e.flags \ {e.accept}) \cup {a},
      eps |-> e.eps \cup {<<s, e.start>>, <<e.accept, a>>}
                \cup (IF op \in {"star", "opt"} THEN {<<s, a>>} ELSE {})
                \cup (IF op \in {"star", "plus"} THEN {<<e.accept, e.start>>} ELSE {}),
      on |-> e.on]

RECURSIVE Fragment(_, _)
Fragment(re, n) ==
  CASE re.op = "empty" -> rxAtom(n, TRUE, {})
    [] re.op = "class" -> rxAtom(n, FALSE, re.set)
    [] re.op \in {"cat", "alt"} ->
         LET l == Fragment(re.l, n)
             r == Fragment(re.r, l.n)
         IN IF re.op = "cat" THEN rxSeq(l, r) ELSE rxAlt(l, r)
    [] OTHER -> rxPostfix(Fragment(re.e, n), re.op)

RECURSIVE epsClosure(_, _)
epsClosure(nfa, S) ==
  LET T == S \cup {e[2] : e \in {x \in nfa.eps : x[1] \in S}}
  IN IF T = S THEN S ELSE epsClosure(nfa, T)

move(nfa, S, ch) ==
  epsClosure(nfa, {e.to : e \in {x \in nfa.on : x.from \in S /\ ch \in x.set}})

-----------------------------------------------------------------------------
(* Tables: the states found breadth first from the start, step by letter.  *)
(* A step gives the set of the next state, DFA_DEAD where there is none.   *)

DFA_DEAD == {}

Table(start, Step(_, _), Accepts(_)) ==
  LET RECURSIVE Discover(_, _)
      Discover(todo, seen) ==
        IF todo = {} THEN seen
        ELSE LET new == UNION {Step(s, ch) : s \in todo, ch \in Alphabet} \ seen
             IN Discover(new, seen \cup new)
      states == Discover({start}, {start})
  IN [start |-> start, trans |-> [s \in states |-> [ch \in Alphabet |-> Step(s, ch)]],
      accept |-> {s \in states : Accepts(s)}]

\* The expression's fragment behind the first state, then the subsets.
regex_compile(re) ==
  LET frag == Fragment(re, 1)
      nfa  == [frag EXCEPT !.eps = @ \cup {<<1, frag.start>>}, !.flags = @ \cup {frag.accept}]
      step(S, ch) == LET T == move(nfa, S, ch) IN IF T = {} THEN DFA_DEAD ELSE {T}
  IN Table(epsClosure(nfa, {1}), step, LAMBDA S : S \cap nfa.flags # {})

\* One letter further: the next row of the matrix, every entry clamped; a row
\* with no entry up to k is dead.
levStep(row, term, k, ch) ==
  LET next[j \in 0 .. Len(term)] ==
        IF j = 0 THEN Min({row[0] + 1, k + 1})
        ELSE Min({row[j] + 1, next[j - 1] + 1,
                  row[j - 1] + (IF term[j] = ch THEN 0 ELSE 1), k + 1})
  IN IF \A j \in 0 .. Len(term) : next[j] > k THEN DFA_DEAD ELSE {next}

lev_compile(term, k) ==
  IF term = <<>> \/ k > LEV_MAX_K THEN Refused
  ELSE Table([j \in 0 .. Len(term) |-> Min({j, k + 1})],
             LAMBDA row, ch : levStep(row, term, k, ch), LAMBDA row : row[Len(term)] <= k)

\* Rows over the shorter word; a row above the cap ends it.
RECURSIVE LevRows(_, _, _, _, _)
LevRows(a, b, cap, row, i) ==
  IF i > Len(b) THEN IF row[Len(a)] > cap THEN cap + 1 ELSE row[Len(a)]
  ELSE LET next[j \in 0 .. Len(a)] ==
             IF j = 0 THEN i
             ELSE Min({row[j] + 1, next[j - 1] + 1,
                       row[j - 1] + (IF a[j] = b[i] THEN 0 ELSE 1)})
       IN IF \A j \in 0 .. Len(a) : next[j] > cap THEN cap + 1
          ELSE LevRows(a, b, cap, next, i + 1)

lev_distance_cap(x, y, cap) ==
  LET a == IF Len(x) > Len(y) THEN y ELSE x
      b == IF Len(x) > Len(y) THEN x ELSE y
  IN IF Len(b) - Len(a) > cap THEN cap + 1
     ELSE LevRows(a, b, cap, [j \in 0 .. Len(a) |-> j], 1)

-----------------------------------------------------------------------------
(* Running a table *)

\* Letter by letter; accepted or not at the end of the name and nowhere else.
Accepted(dfa, name) ==
  FoldLeft(LAMBDA S, ch : UNION {dfa.trans[s][ch] : s \in S}, {dfa.start}, name) \cap dfa.accept # {}

\* The ids of the matching names, in order.
symbolsScanTable(names, dfa) ==
  SelectSeq([id \in DOMAIN names |-> id], LAMBDA id : Accepted(dfa, names[id]))

\* The forward DAFSA: a name, a 0 and the digits of its id.
SymbolKeys(names) == {names[id] \o <<0>> \o encodeCol(id) : id \in DOMAIN names}

\* The id behind the 0; no id where the digits branch.
readSymId(s) == IF Cardinality(s) = 1 THEN <<readColsBe(CHOOSE w \in s : TRUE, 1)[1]>> ELSE <<>>

\* Both automata together, depth first.  A pair that is on the path already
\* reports its name but is not entered again; the hash set is a set here.
RECURSIVE symProdDfs(_, _, _, _)
symProdDfs(s, dfa, r, path) ==
  FoldLeft(LAMBDA found, ch :
             IF dfa.trans[r][ch] = DFA_DEAD THEN found
             ELSE found \o symProdDfs(trans_find(s, ch), dfa, CHOOSE next \in dfa.trans[r][ch] : TRUE,
                                      path \cup {<<s, r>>}),
           IF r \in dfa.accept THEN readSymId(trans_find(s, 0)) ELSE <<>>,
           IF <<s, r>> \in path THEN <<>> ELSE SelectSeq(edges(s), LAMBDA ch : ch # 0))

symbols_dfa_walk(names, dfa) == symProdDfs(SymbolKeys(names), dfa, dfa.start, {})

\* dl_fuzzy_lookup: names of a length within k, by id, with their distance.
dl_fuzzy_lookup(names, needle, k) ==
  IF k > LEV_MAX_K \/ needle = <<>> THEN Refused
  ELSE LET near(id) == Len(names[id]) + k >= Len(needle) /\ Len(names[id]) <= Len(needle) + k
           ids == SelectSeq([id \in DOMAIN names |-> id],
                            LAMBDA id : near(id) /\ lev_distance_cap(needle, names[id], k) <= k)
       IN [i \in DOMAIN ids |-> <<ids[i], lev_distance_cap(needle, names[ids[i]], k)>>]

\* dl_pattern: the set of matching ids, then a filter over all tuples.
dl_pattern(d, arity, col, names, dfa) ==
  LET set == Range(symbolsScanTable(names, dfa))
  IN SelectSeq(rel_prefix(d, arity, <<>>), LAMBDA t : t[col] \in set)

-----------------------------------------------------------------------------
(* What the declarations promise: the words an expression stands for, the  *)
(* distance of two words, and the rows whose column has a matching name.   *)

\* regex_compile: the whole word matches the expression.
RECURSIVE Matches(_, _)
Matches(re, w) ==
  CASE re.op = "empty" -> w = <<>>
    [] re.op = "class" -> Len(w) = 1 /\ w[1] \in re.set
    [] re.op = "cat"   -> \E i \in 0 .. Len(w) : /\ Matches(re.l, SubSeq(w, 1, i))
                                               /\ Matches(re.r, SubSeq(w, i + 1, Len(w)))
    [] re.op = "alt"   -> Matches(re.l, w) \/ Matches(re.r, w)
    [] re.op = "opt"   -> w = <<>> \/ Matches(re.e, w)
    [] re.op = "plus"  -> \/ Matches(re.e, w)
                          \/ \E i \in 1 .. (Len(w) - 1) : /\ Matches(re.e, SubSeq(w, 1, i))
                                                         /\ Matches(re, SubSeq(w, i + 1, Len(w)))
    [] re.op = "star"  -> \/ w = <<>>
                          \/ \E i \in 1 .. Len(w) : /\ Matches(re.e, SubSeq(w, 1, i))
                                                   /\ Matches(re, SubSeq(w, i + 1, Len(w)))

\* symbols_dfa_walk: the ids of the names that match.
MatchingIds(names, re) == {id \in DOMAIN names : Matches(re, names[id])}

\* lev_distance_cap: the edit distance, capped.
RECURSIVE EditDistance(_, _)
EditDistance(a, b) ==
  IF a = <<>> \/ b = <<>> THEN Len(a) + Len(b)
  ELSE Min({EditDistance(Tail(a), b) + 1, EditDistance(a, Tail(b)) + 1,
            EditDistance(Tail(a), Tail(b)) + (IF a[1] = b[1] THEN 0 ELSE 1)})

\* dl_fuzzy_lookup: the symbols within k edits, by id, with their distance.
Fuzzy(names, needle, k) ==
  SelectSeq([id \in DOMAIN names |-> <<id, EditDistance(needle, names[id])>>],
            LAMBDA hit : hit[2] <= k)

\* dl_pattern: the tuples whose column names a matching symbol.
PatternRows(R, col, names, re) ==
  {t \in R : t[col] \in MatchingIds(names, re)}
===============================================================================
