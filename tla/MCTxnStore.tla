------------------------------ MODULE MCTxnStore ----------------------------
(***************************************************************************)
(* Model-checking instances of TxnStore: a relation with one fact, and the *)
(* internal relation "rev" with an entity that has two revisions.          *)
(***************************************************************************)
EXTENDS TxnStore

CONSTANTS a, v1, v2, r1, rev

MCRelOf == [f \in {a, v1, v2} |-> IF f = a THEN r1 ELSE rev]

MCRevRows == <<v1, v2>>

MCSwaps == {<<0, 1>>, <<1, 2>>}

(***************************************************************************)
(* Transactions are followed that have an add or a delete, a swap, or one  *)
(* and then the other.                                                     *)
(***************************************************************************)
SwapLast == Len(txn) = 2 => txn[1].op # "cas" /\ txn[2].op = "cas"

=============================================================================
