------------------------------ MODULE MCViews ------------------------------
(***************************************************************************)
(* The model-checking instances of Queries.Relations: 1 m, 2 r (asserted), *)
(* 3 u, 4 v (with the facts v and v2), 5 w (heads).                        *)
(***************************************************************************)
EXTENDS Queries

CONSTANTS m, r, u, v, w, v2

MCFacts == {m, r, u, v, w, v2}

MCRelOf == (m :> 1) @@ (r :> 2) @@ (u :> 3) @@ (v :> 4) @@ (v2 :> 4) @@ (w :> 5)

Inst(h, b, n) == [head |-> h, body |-> b, neg |-> n]

Rule(I) == [head |-> RelOf[(CHOOSE i \in I : TRUE).head], opaque |-> FALSE, via |-> 0, inst |-> I]

(***************************************************************************)
(* A join, a second derivation, a chain, each rule before the ones it      *)
(* needs: propagation and DRed.                                            *)
(***************************************************************************)
Chain == <<Rule({Inst(w, <<v, m>>, {})}), Rule({Inst(v, <<r>>, {})}),
           Rule({Inst(v, <<u>>, {})}), Rule({Inst(u, <<m, r>>, {})})>>

(***************************************************************************)
(* Negation, over a chain: resets and what reads them.  The second batch   *)
(* raises the strata of the first; the third closes a cycle with each.     *)
(***************************************************************************)
Negating == <<Rule({Inst(v, <<m>>, {u})}), Rule({Inst(w, <<v>>, {})})>>

Negated == <<Rule({Inst(u, <<r>>, {})}), Rule({Inst(v2, <<u, m>>, {})})>>

Cyclic == <<Rule({Inst(u, <<w>>, {})})>>

(***************************************************************************)
(* Recursion: the second batch makes rules of the first recursive, and     *)
(* moves the reader of the recursive relation up.                          *)
(***************************************************************************)
Reader == <<Rule({Inst(w, <<v, r>>, {})}), Rule({Inst(v, <<m>>, {})})>>

Recursion == <<Rule({Inst(v2, <<v, r>>, {}), Inst(v, <<v2>>, {})})>>

(***************************************************************************)
(* Recursion below negation: every change is a full evaluation.            *)
(***************************************************************************)
Mixed == <<Rule({Inst(w, <<m>>, {v2})}),
           Rule({Inst(v2, <<v, r>>, {}), Inst(v, <<v2>>, {})}),
           Rule({Inst(v, <<m>>, {})})>>

(***************************************************************************)
(* Plans the increments cannot follow: full evaluations as well.           *)
(***************************************************************************)
HashJoin == <<[Rule({Inst(w, <<v, r>>, {})}) EXCEPT !.via = 2]>>

Bushy == <<[Rule({Inst(w, <<v, r>>, {})}) EXCEPT !.opaque = TRUE]>>

(***************************************************************************)
(* One recursive component feeding another.                                *)
(***************************************************************************)
Chained == <<Rule({Inst(v2, <<v, r>>, {}), Inst(v, <<v2>>, {})}),
             Rule({Inst(w, <<v2>>, {}), Inst(w, <<w, m>>, {})})>>

(***************************************************************************)
(* A hash join in either batch that becomes a permutation lookup when the  *)
(* other batch closes the recursion.                                       *)
(***************************************************************************)
Promoted == <<[Rule({Inst(u, <<m, v>>, {})}) EXCEPT !.via = 4]>>

Closing == <<Rule({Inst(v, <<r>>, {})}), Rule({Inst(v2, <<u>>, {})})>>

MCPrograms ==
    {{Chain}, {Negating, Negated, Cyclic}, {Reader, Recursion}, {Mixed}, {HashJoin}, {Bushy}, {Chained},
     {Promoted, Closing}}

(***************************************************************************)
(* Two strata without recursion, and in the lower one a rule before the    *)
(* one it needs.                                                           *)
(***************************************************************************)
Unlucky == {{<<Rule({Inst(w, <<m>>, {v})}), Rule({Inst(v, <<u>>, {})}),
               Rule({Inst(u, <<m>>, {})})>>}}

Joins == {{Chain}}

(***************************************************************************)
(* Queries: every program out of nine rules, with even and odd cycles      *)
(* through negation, chains of negation, recursion, constants.  A rule     *)
(* stands after those it reads positively (see Unlucky).                   *)
(***************************************************************************)
Pool == <<Rule({Inst(v, <<m>>, {v2})}), Rule({Inst(v, <<v2>>, {})}),
          Rule({Inst(v2, <<r>>, {v})}), Rule({Inst(v2, <<v>>, {})}),
          Rule({Inst(w, <<v2>>, {})}), Rule({Inst(w, <<r>>, {u})}), Rule({Inst(w, <<m>>, {v})}),
          Rule({Inst(u, <<m>>, {w})}), Rule({Inst(u, <<r>>, {u})})>>

MCAdHoc == {SelectSeq(Pool, LAMBDA x : x \in S) : S \in SUBSET Range(Pool)} \ {<<>>}

MCValuesOf == (m :> {1}) @@ (r :> {2}) @@ (u :> {1}) @@ (v :> {1}) @@ (v2 :> {2}) @@ (w :> {2})

=============================================================================
