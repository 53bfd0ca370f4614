-------------------------------- MODULE Wal --------------------------------
(***************************************************************************)
(* Write-ahead-log records and what replaying them computes.               *)
(*                                                                         *)
(* Both logs of the engine hold ADD and DEL records of encoded facts: the  *)
(* per-relation WAL (relation.zig, dafsa_wal) and the transaction WAL      *)
(* (txnwal.zig), which also holds COMMIT markers.  A fact is opaque here:  *)
(* its column encoding is injective and plays no part in replay.           *)
(*                                                                         *)
(* Replay is stated without recursion, by what the LAST record about a     *)
(* fact says; it is the same set as applying the records one by one.       *)
(***************************************************************************)
EXTENDS Integers, Sequences

CONSTANTS Facts,    \* the facts of the modelled relations
          NoFact    \* what the COMMIT marker carries instead of a fact

ASSUME NoFactAssumption == NoFact \notin Facts

AddRec(f) == [op |-> "add", f |-> f]

DelRec(f) == [op |-> "del", f |-> f]

CommitRec == [op |-> "commit", f |-> NoFact]

FactRec == [op : {"add", "del"}, f : Facts]

TxnRec == FactRec \cup {CommitRec}

(***************************************************************************)
(* Some record of log is about f.                                          *)
(***************************************************************************)
Touches(log, f) == \E i \in 1..Len(log) : log[i].f = f

(***************************************************************************)
(* The last record of log about f is an ADD.                               *)
(***************************************************************************)
LastIsAdd(log, f) ==
    \E i \in 1..Len(log) :
        /\ log[i].f = f
        /\ log[i].op = "add"
        /\ \A j \in (i+1)..Len(log) : log[j].f # f

(***************************************************************************)
(* The contents after replaying log over contents: dafsa_add_n for every   *)
(* ADD, dafsa_delete_n for every DEL, in log order.                        *)
(***************************************************************************)
Replay(contents, log) ==
    {f \in Facts : LastIsAdd(log, f) \/ (f \in contents /\ ~Touches(log, f))}

(***************************************************************************)
(* The first n records of log: what a log cut after record n still holds.  *)
(***************************************************************************)
Prefix(log, n) == SubSeq(log, 1, n)

=============================================================================
