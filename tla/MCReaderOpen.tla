--------------------------- MODULE MCReaderOpen ---------------------------
(***************************************************************************)
(* The model-checking instance of ReaderOpen: two facts of one relation,   *)
(* which a direct write and a transaction can reach in one open, and one   *)
(* of another.                                                             *)
(***************************************************************************)
EXTENDS ReaderOpen, FiniteSets, TLC

CONSTANTS a, b, c, r1, r2,
          MaxMoments  \* bound: contents seen during the life of a reader

TwoRelations == [f \in {a, b, c} |-> IF f = c THEN r2 ELSE r1]

(***************************************************************************)
(* A transaction replaces a fact by one of r1.                             *)
(***************************************************************************)
Exchanges ==
    {<<AddRec(new), DelRec(old)>> : <<new, old>> \in
        {fs \in {a, b} \X {a, b, c} : fs[1] # fs[2]}}

Symmetry == Permutations({a, b})

FewMoments == \A p \in Readers : Cardinality(since[p]) <= MaxMoments

=============================================================================
