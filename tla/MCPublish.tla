----------------------------- MODULE MCPublish ------------------------------
(***************************************************************************)
(* Model-checking instances of Publish: relations and contents are         *)
(* interchangeable.                                                        *)
(***************************************************************************)
EXTENDS Publish, TLC

Symmetry == Permutations(Rels) \cup Permutations(Contents)

=============================================================================
