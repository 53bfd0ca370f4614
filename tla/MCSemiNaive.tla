---------------------------- MODULE MCSemiNaive ----------------------------
(***************************************************************************)
(* The model-checking instance of SemiNaive: the programs are all sets of  *)
(* the instances below - base rules, linear and non-linear recursion, a    *)
(* cycle, a repeated atom, negation of an outer fact.                      *)
(***************************************************************************)
EXTENDS SemiNaive

CONSTANTS e, g, u, v, w

Inst(h, b, n) == [head |-> h, body |-> b, neg |-> n]

Pool == {Inst(u, <<e>>, {}), Inst(v, <<g, u>>, {}), Inst(w, <<u, v>>, {}),
         Inst(u, <<w>>, {}), Inst(w, <<v, e, v>>, {}), Inst(v, <<u>>, {g}),
         Inst(v, <<w, u>>, {})}

MCRuleSets == SUBSET Pool

=============================================================================
