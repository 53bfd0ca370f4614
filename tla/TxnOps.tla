------------------------------- MODULE TxnOps -------------------------------
(***************************************************************************)
(* The operations a transaction buffers, and what they are to the log:     *)
(* adds and deletes are one record each, a compare-and-swap of an entity's *)
(* revision is the delete of its old row and the add of its new one.       *)
(*                                                                         *)
(* One entity is modelled.  Its rows in the internal relation "rev" are    *)
(* the facts RevRows[1], RevRows[2], ...; without a row it is at 0.        *)
(***************************************************************************)
EXTENDS Wal

CONSTANTS RevRows,  \* the fact that says the entity is at revision n, n = 1, 2, ...
          Swaps     \* the pairs (expected, new) callers pass to a compare-and-swap

ASSUME RevRowsAssumption ==
    /\ RevRows \in Seq(Facts)
    /\ \A m, n \in DOMAIN RevRows : RevRows[m] = RevRows[n] => m = n

Revisions == 0..Len(RevRows)

\* The code also takes a swap to 0, which would add a row for revision 0; none
\* is modelled.
ASSUME SwapsAssumption == Swaps \subseteq {c \in Revisions \X DOMAIN RevRows : c[1] # c[2]}

(***************************************************************************)
(* Facts of the caller's own relations: dl_txn_add_fact and                *)
(* dl_txn_delete_fact refuse "rev".                                        *)
(***************************************************************************)
Plain == {f \in Facts : \A n \in DOMAIN RevRows : RevRows[n] # f}

(***************************************************************************)
(* revGet: the first row of a prefix walk under the entity.                *)
(***************************************************************************)
RevGet(contents) ==
    IF \E n \in DOMAIN RevRows : RevRows[n] \in contents
    THEN CHOOSE n \in DOMAIN RevRows :
            /\ RevRows[n] \in contents
            /\ \A m \in 1..(n - 1) : RevRows[m] \notin contents
    ELSE 0

CasOp(expected, next) == [op |-> "cas", expected |-> expected, next |-> next]

CasOps == {CasOp(c[1], c[2]) : c \in Swaps}

TxnOp == [op : {"add", "del"}, f : Plain] \cup CasOps

(***************************************************************************)
(* The records of a compare-and-swap.  A delete of the row of revision 0,  *)
(* which no entity ever gets, says nothing and is left out.                *)
(***************************************************************************)
SwapRecords(o) ==
    (IF o.expected = 0 THEN <<>> ELSE <<DelRec(RevRows[o.expected])>>)
        \o <<AddRec(RevRows[o.next])>>

(***************************************************************************)
(* The records of a buffer, which has at most one compare-and-swap.        *)
(***************************************************************************)
Records(ops) ==
    IF \E i \in DOMAIN ops : ops[i].op = "cas"
    THEN LET k == CHOOSE i \in DOMAIN ops : ops[i].op = "cas"
         IN  SubSeq(ops, 1, k - 1) \o SwapRecords(ops[k]) \o SubSeq(ops, k + 1, Len(ops))
    ELSE ops

(***************************************************************************)
(* A validation that lets a swap through that expects no revision yet.     *)
(***************************************************************************)
FaultyNoConflict(ops, contents) ==
    \A i \in DOMAIN ops :
        ops[i].op = "cas" => ops[i].expected \in {0, RevGet(contents)}

(***************************************************************************)
(* Every buffered compare-and-swap finds the revision it expects.          *)
(***************************************************************************)
NoConflict(ops, contents) ==
    \A i \in DOMAIN ops : ops[i].op = "cas" => ops[i].expected = RevGet(contents)

Touched(log) == {f \in Facts : Touches(log, f)}

=============================================================================
