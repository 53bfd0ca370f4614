---------------------------- MODULE MCVocabulary ----------------------------
(***************************************************************************)
(* The model-checking instance of Vocabulary: names are interchangeable,   *)
(* and a behaviour is followed until a table has lost ids (spill), after   *)
(* which the properties say nothing about it.                              *)
(***************************************************************************)
EXTENDS Vocabulary, TLC

Symmetry == Permutations(Names)

NothingLost == \A t \in Tables : spill[t] # "lost"

=============================================================================
