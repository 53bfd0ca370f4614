----------------------------- MODULE TxnContract -----------------------------
(***************************************************************************)
(* What dl.h promises of transactions and compare-and-swap, with no log    *)
(* and no files: a buffered transaction takes effect as a whole when its   *)
(* commit returns, or not at all, and is durable then; writes outside of   *)
(* transactions are durable with the next cycle boundary only.             *)
(***************************************************************************)
EXTENDS TxnOps

VARIABLES
    up,       \* the database is open
    facts,    \* the contents of all relations
    buf,      \* the transaction: "none", "open" or "committing", and its operations
    swap,     \* the revision a dl_cas_revision under way has still to write, or 0
    durable,  \* facts whose presence or absence a commit made durable
    free      \* facts the promise leaves open, see Direct and TxnFail

vars == <<up, facts, buf, swap, durable, free>>

NoTxn == [state |-> "none", ops |-> <<>>]

Init == up = FALSE /\ facts = {} /\ buf = NoTxn /\ swap = 0 /\ durable = {} /\ free = {}

\* A write outside of transactions.  What the transaction log says of the fact
\* may come back at the next open (the log is replayed last).
Direct(f, contents) ==
    /\ buf = NoTxn /\ UNCHANGED buf
    /\ durable' = durable \ {f}
    /\ free' \in {free, free \cup {f}}
    /\ facts' = contents

AddFact(f) == swap = 0 /\ UNCHANGED swap /\ f \notin facts /\ Direct(f, facts \cup {f})

DeleteFact(f) == swap = 0 /\ UNCHANGED swap /\ f \in facts /\ Direct(f, facts \ {f})

\* dl_cas_revision: with any other revision than the expected one nothing
\* happens; else the old row goes and the new one comes, two writes of which
\* an unclean stop may leave the first.
CasRevision(expected, next) ==
    /\ swap = 0 /\ swap' = next
    /\ expected # next /\ RevGet(facts) = expected
    /\ IF expected = 0 THEN UNCHANGED <<facts, buf, durable, free>>
       ELSE Direct(RevRows[expected], facts \ {RevRows[expected]})

CasWrite == swap # 0 /\ swap' = 0 /\ Direct(RevRows[swap], facts \cup {RevRows[swap]})

-----------------------------------------------------------------------------
\* dl_txn_begin: no nesting.
TxnBegin ==
    /\ buf = NoTxn /\ swap = 0
    /\ buf' = [state |-> "open", ops |-> <<>>]
    /\ UNCHANGED <<facts, swap, durable, free>>

Buffer(o) ==
    /\ buf.state = "open"
    /\ buf' = [buf EXCEPT !.ops = Append(@, o)]
    /\ UNCHANGED <<facts, swap, durable, free>>

\* dl_txn_add_fact and dl_txn_delete_fact: not for "rev".
TxnWrite(o) == o.op # "cas" /\ Buffer(o)

\* dl_txn_cas: one per entity, judged at commit.
TxnCas(o) ==
    /\ o.op = "cas"
    /\ \A i \in DOMAIN buf.ops : buf.ops[i].op # "cas"
    /\ Buffer(o)

\* dl_txn_rollback, and a commit that is refused: nothing of it happens.
TxnRollback ==
    /\ buf.state # "none"
    /\ buf' = NoTxn
    /\ UNCHANGED <<facts, swap, durable, free>>

\* dl_txn_commit is called and finds no conflict.
TxnCommit ==
    /\ buf.state = "open"
    /\ NoConflict(buf.ops, facts)
    /\ buf' = [buf EXCEPT !.state = "committing"]
    /\ UNCHANGED <<facts, swap, durable, free>>

Outcome == Replay(facts, Records(buf.ops))

\* It returns 0: all of it, durable.
TxnDone ==
    /\ buf.state = "committing"
    /\ facts' = Outcome
    /\ durable' = durable \cup Touched(Records(buf.ops))
    /\ free' = free \ Touched(Records(buf.ops))
    /\ buf' = NoTxn
    /\ UNCHANGED swap

\* It returns -1: nothing of it, but the log may hold the whole transaction.
TxnFail ==
    /\ buf.state = "committing"
    /\ free' = free \cup Touched(Records(buf.ops))
    /\ durable' = durable \ Touched(Records(buf.ops))
    /\ buf' = NoTxn
    /\ UNCHANGED <<facts, swap>>

Call ==
    \/ \E f \in Plain : AddFact(f) \/ DeleteFact(f)
    \/ \E c \in CasOps : CasRevision(c.expected, c.next)
    \/ CasWrite
    \/ TxnBegin \/ TxnRollback \/ TxnCommit \/ TxnDone \/ TxnFail
    \/ \E o \in TxnOp : TxnWrite(o) \/ TxnCas(o)

-----------------------------------------------------------------------------
\* The handle is gone, and an open transaction with it.
Gone ==
    /\ up' = FALSE /\ buf' = NoTxn /\ swap' = 0
    /\ free' \subseteq free

\* The process ends, by dl_close or by a kill: nothing is lost; of a commit
\* under way all or nothing remains.
Stop ==
    /\ Gone
    /\ \/ facts' \ free = facts \ free /\ durable' \subseteq durable
       \/ /\ buf.state = "committing"
          /\ facts' \ free = Outcome \ free
          /\ durable' \subseteq (durable \cup Touched(Records(buf.ops)))

\* The machine stops: what commits made durable stays, and of a commit under
\* way all or nothing.
LosePower ==
    /\ Gone
    /\ durable' \subseteq durable
    /\ facts' \subseteq Facts
    /\ \/ \A f \in durable \ free : f \in facts' <=> f \in facts
       \/ /\ buf.state = "committing"
          /\ \A f \in (durable \cup Touched(Records(buf.ops))) \ free :
                f \in facts' <=> f \in Outcome

\* dl_open: both logs are replayed, so nothing is left open any more.
Reopen ==
    /\ ~up /\ up' = TRUE
    /\ free' \subseteq free
    /\ UNCHANGED <<facts, buf, swap, durable>>

Next == (up /\ up' = TRUE /\ Call) \/ Reopen \/ Stop \/ LosePower

Spec == Init /\ [][Next]_vars

==============================================================================
