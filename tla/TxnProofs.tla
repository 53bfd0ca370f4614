------------------------------ MODULE TxnProofs ------------------------------
(***************************************************************************)
(* Transactions over several relations, with direct writes, compactions,   *)
(* failures, kills and power losses: a commit is atomic and durable, for   *)
(* any relations, facts, revisions, bounds and features.                   *)
(*                                                                         *)
(* The invariant speaks of the settled part of txn.wal: everything up to   *)
(* its last marker, without the commit that waits for its fsync.  Settled  *)
(* log and files give the contents the handle stands for (Logs), memory    *)
(* follows the commit being applied (Memory), and of the facts a commit    *)
(* made durable no cut of a log can take anything away (Durable).          *)
(***************************************************************************)
EXTENDS TxnStore, WalProofs, WellFoundedInduction

(***************************************************************************)
(* The phases of the handle.                                               *)
(***************************************************************************)
Applying == pc = "apply" \/ (pc \in {"compact", "saved"} /\ back = "apply")

Replaying == pc = "replay" \/ (pc \in {"compact", "saved"} /\ back = "replay")

(***************************************************************************)
(* A buffer has at most one swap, only a transaction has a buffer, only a  *)
(* commit a position in it, and only a compaction a relation.              *)
(***************************************************************************)
OneSwap(ops) ==
    \A i, j \in DOMAIN ops : ops[i].op = "cas" /\ ops[j].op = "cas" => i = j

Control ==
    /\ OneSwap(txn)
    /\ pc \in {"txn", "append", "marker"} \/ Applying \/ txn = <<>>
    /\ pc \in {"append", "marker"} \/ Applying \/ pos = 1
    /\ pc \in {"compact", "saved"} => cur \in Rels

(***************************************************************************)
(* The settled part of txn.wal.                                            *)
(***************************************************************************)
SettledEnd ==
    IF pc = "marker" THEN Len(twal) - (Len(Records(txn)) + 1) ELSE CommittedEnd(twal)

Settled == Prefix(twal, SettledEnd)

(***************************************************************************)
(* What txn.wal holds behind it while a commit is being logged, none of    *)
(* that being synced, and that a commit being applied is synced.           *)
(***************************************************************************)
LogTail ==
    /\ pc \in {"append", "marker"} => tsynced <= SettledEnd
    /\ pc = "append" => twal = Settled \o Prefix(Records(txn), pos - 1)
    /\ pc = "marker" =>
          /\ SettledEnd >= 0
          /\ SettledEnd = 0 \/ twal[SettledEnd].op = "commit"
          /\ twal = (Settled \o Records(txn)) \o <<CommitRec>>
    /\ Applying => tsynced = Len(twal) /\ SettledEnd = Len(twal)

(***************************************************************************)
(* The contents the settled log stands for, fact by fact.                  *)
(***************************************************************************)
Goal == IF Applying THEN Replay(facts, Records(txn)) ELSE facts

InWal(f) == f \in Replay(file, wal[RelOf[f]])

Logs ==
    /\ \A f \in Facts \ stale :
          f \in Goal <=> IF Touches(Settled, f) THEN LastIsAdd(Settled, f) ELSE InWal(f)
    /\ Applying =>
          \A f \in Touched(Records(txn)) :
              /\ Touches(Settled, f)
              /\ LastIsAdd(Settled, f) <=> LastIsAdd(Records(txn), f)

Memory ==
    pc # "down" =>
        mem = IF Applying THEN Replay(facts, Prefix(Records(txn), pos - 1)) ELSE facts

(***************************************************************************)
(* A file saved whose WAL awaits truncation is what memory holds.          *)
(***************************************************************************)
SavedFile == pc = "saved" => \A f \in FactsOf(cur) : f \in file <=> f \in mem

(***************************************************************************)
(* While txn.wal is recovered nothing is in doubt, the log has no loose    *)
(* end, and the relations it touches are compacted, in progress or to do,  *)
(* unless a compaction failed.                                             *)
(***************************************************************************)
Recovery ==
    Replaying =>
        /\ stale = {}
        /\ SettledEnd = Len(twal)
        /\ ~failed =>
              \A f \in Facts : Touches(twal, f) =>
                  \/ RelOf[f] \in todo
                  \/ pc \in {"compact", "saved"} /\ RelOf[f] = cur
                  \/ wal[RelOf[f]] = <<>> /\ (f \in file <=> f \in mem)

(***************************************************************************)
(* The synced part of txn.wal reaches the settled end or ends at a marker; *)
(* the records beyond it are about no durable fact; and a durable fact     *)
(* that the settled log does not decide is in its file, and no direct      *)
(* write of it awaits a replay.                                            *)
(***************************************************************************)
Durable ==
    /\ byTxn \cap stale = {}
    /\ tsynced >= SettledEnd \/ tsynced = 0 \/ twal[tsynced].op = "commit"
    /\ \A i \in (tsynced + 1)..SettledEnd : twal[i].f \notin byTxn
    /\ \A f \in byTxn : ~Touches(Settled, f) =>
          ~Touches(wal[RelOf[f]], f) /\ (f \in file <=> f \in facts)

Contents == LogTail /\ Logs /\ Memory /\ SavedFile /\ Recovery /\ Durable

TInv == TypeOK /\ Control /\ Contents

-----------------------------------------------------------------------------
(***************************************************************************)
(* The end of the last marker of a log exists, is unique, and is what      *)
(* appends and cuts make of it.                                            *)
(***************************************************************************)
LastMarker(log, n) ==
    /\ n \in 0..Len(log)
    /\ n = 0 \/ log[n].op = "commit"
    /\ \A k \in (n+1)..Len(log) : log[k].op # "commit"

\* There is one last marker, or none.
LEMMA MarkerUnique ==
    ASSUME NEW S, NEW log \in Seq(S), NEW m, NEW n, LastMarker(log, m), LastMarker(log, n)
    PROVE  m = n
<1>1. m \in Nat /\ n \in Nat /\ Len(log) \in Nat /\ m <= Len(log) /\ n <= Len(log)
  BY DEF LastMarker
<1>2. ~(m < n)
  <2> SUFFICES ASSUME m < n PROVE FALSE
    OBVIOUS
  <2>1. n \in (m+1)..Len(log) /\ n # 0
    BY <1>1
  <2> QED BY <2>1 DEF LastMarker
<1>3. ~(n < m)
  <2> SUFFICES ASSUME n < m PROVE FALSE
    OBVIOUS
  <2>1. m \in (n+1)..Len(log) /\ m # 0
    BY <1>1
  <2> QED BY <2>1 DEF LastMarker
<1> QED BY <1>1, <1>2, <1>3

\* Every log has an end of its last marker, by least-element induction on its length.
LEMMA MarkerExists ==
    ASSUME NEW S, NEW log \in Seq(S)
    PROVE  \E n : LastMarker(log, n)
<1> DEFINE Ends == {n \in Nat : n <= Len(log) /\ \A k \in (n+1)..Len(log) : log[k].op # "commit"}
<1>1. Len(log) \in Nat
  OBVIOUS
<1>2. Len(log) \in Ends
  BY <1>1
<1>3. IsWellFoundedOn(OpToRel(<, Nat), Nat)
  BY NatLessThanWellFounded
<1>4. PICK n \in Ends : \A m \in Ends : ~(<<m, n>> \in OpToRel(<, Nat))
  <2>1. Ends \subseteq Nat /\ Ends # {}
    BY <1>2
  <2> HIDE DEF Ends
  <2> QED BY <1>3, <2>1, WFMin
<1>5. n = 0 \/ log[n].op = "commit"
  <2> SUFFICES ASSUME n # 0, log[n].op # "commit" PROVE FALSE
    OBVIOUS
  <2>1. n - 1 \in Nat /\ n - 1 <= Len(log) /\ n - 1 < n
    BY <1>1
  <2>2. \A k \in n..Len(log) : k = n \/ k \in (n+1)..Len(log)
    BY <1>1
  <2>3. \A k \in ((n-1)+1)..Len(log) : log[k].op # "commit"
    BY <2>1, <2>2
  <2>4. n - 1 \in Ends /\ <<n - 1, n>> \in OpToRel(<, Nat)
    BY <2>1, <2>3 DEF OpToRel
  <2> QED BY <1>4, <2>4
<1> QED BY <1>1, <1>5 DEF LastMarker

\* What CommittedEnd chooses is that end.
LEMMA EndIsMarker ==
    ASSUME NEW S, NEW log \in Seq(S)
    PROVE  LastMarker(log, CommittedEnd(log))
<1>1. PICK n : LastMarker(log, n)
  BY MarkerExists
<1>2. n \in 0..Len(log) /\ (n = 0 \/ log[n].op = "commit")
        /\ \A k \in (n+1)..Len(log) : log[k].op # "commit"
  BY <1>1 DEF LastMarker
<1>3. CommittedEnd(log) \in 0..Len(log)
      /\ (CommittedEnd(log) = 0 \/ log[CommittedEnd(log)].op = "commit")
      /\ \A k \in (CommittedEnd(log)+1)..Len(log) : log[k].op # "commit"
  BY <1>2 DEF CommittedEnd
<1> QED BY <1>3 DEF LastMarker

\* To know CommittedEnd it is enough to find a last marker.
LEMMA EndIs ==
    ASSUME NEW S, NEW log \in Seq(S), NEW n, LastMarker(log, n)
    PROVE  CommittedEnd(log) = n /\ Committed(log) = Prefix(log, n)
<1>1. CommittedEnd(log) = n
  BY EndIsMarker, MarkerUnique
<1> QED BY <1>1 DEF Committed

(***************************************************************************)
(* Cut and joined logs.                                                    *)
(***************************************************************************)
LEMMA CutLog ==
    ASSUME NEW S, NEW log \in Seq(S), NEW n \in 0..Len(log)
    PROVE  /\ Prefix(log, n) \in Seq(S)
           /\ Len(Prefix(log, n)) = n
           /\ \A i \in 1..n : Prefix(log, n)[i] = log[i]
           /\ \A m \in 0..n : Prefix(Prefix(log, n), m) = Prefix(log, m)
<1>1. /\ Prefix(log, n) \in Seq(S)
      /\ Len(Prefix(log, n)) = n
      /\ \A i \in 1..n : Prefix(log, n)[i] = log[i]
  BY DEF Prefix
<1>2. ASSUME NEW m \in 0..n PROVE Prefix(Prefix(log, n), m) = Prefix(log, m)
  <2>1. PICK cut \in Seq(S) : cut = Prefix(log, n) /\ Len(cut) = n /\ \A i \in 1..n : cut[i] = log[i]
    BY <1>1
  <2>2. SubSeq(cut, 1, m) = SubSeq(log, 1, m)
    BY <2>1
  <2> QED BY <2>1, <2>2 DEF Prefix
<1> QED BY <1>1, <1>2

\* A log cut at its end is the log.
LEMMA WholeLog ==
    ASSUME NEW S, NEW log \in Seq(S)
    PROVE  Prefix(log, Len(log)) = log
  BY DEF Prefix

\* The records of a log that continues another one.
LEMMA JoinedLog ==
    ASSUME NEW S, NEW log \in Seq(S), NEW more \in Seq(S)
    PROVE  /\ log \o more \in Seq(S)
           /\ Len(log \o more) = Len(log) + Len(more)
           /\ \A i \in 1..Len(log) : (log \o more)[i] = log[i]
           /\ \A i \in (Len(log)+1)..(Len(log) + Len(more)) : (log \o more)[i] = more[i - Len(log)]
           /\ \A m \in 0..Len(log) : Prefix(log \o more, m) = Prefix(log, m)
<1>1. /\ log \o more \in Seq(S)
      /\ Len(log \o more) = Len(log) + Len(more)
      /\ \A i \in 1..Len(log) : (log \o more)[i] = log[i]
      /\ \A i \in (Len(log)+1)..(Len(log) + Len(more)) : (log \o more)[i] = more[i - Len(log)]
  OBVIOUS
<1>2. ASSUME NEW m \in 0..Len(log) PROVE Prefix(log \o more, m) = Prefix(log, m)
  <2>1. PICK new \in Seq(S) : /\ new = log \o more
                              /\ Len(new) = Len(log) + Len(more)
                              /\ \A i \in 1..Len(log) : new[i] = log[i]
    BY <1>1
  <2>2. SubSeq(new, 1, m) = SubSeq(log, 1, m)
    BY <2>1
  <2> QED BY <2>1, <2>2 DEF Prefix
<1> QED BY <1>1, <1>2

(***************************************************************************)
(* Records that are not about f can be cut off.                            *)
(***************************************************************************)
LEMMA CutAgrees ==
    ASSUME NEW S, NEW log \in Seq(S), NEW n \in 0..Len(log), NEW m \in 0..n, NEW f,
           \A i \in (m+1)..n : log[i].f # f
    PROVE  /\ Touches(Prefix(log, m), f) <=> Touches(Prefix(log, n), f)
           /\ LastIsAdd(Prefix(log, m), f) <=> LastIsAdd(Prefix(log, n), f)
<1>1. /\ Len(Prefix(log, n)) = n /\ \A i \in 1..n : Prefix(log, n)[i] = log[i]
      /\ Len(Prefix(log, m)) = m /\ \A i \in 1..m : Prefix(log, m)[i] = log[i]
  BY CutLog
<1>2. PICK long, short : /\ long = Prefix(log, n) /\ short = Prefix(log, m)
                         /\ Len(long) = n /\ \A i \in 1..n : long[i] = log[i]
                         /\ Len(short) = m /\ \A i \in 1..m : short[i] = log[i]
  BY <1>1
<1>3. n \in Nat /\ m \in Nat /\ m <= n
  OBVIOUS
<1>4. Touches(short, f) <=> Touches(long, f)
  <2>1. \A i \in 1..n : i \in 1..m \/ i \in (m+1)..n
    BY <1>3
  <2> QED BY <1>2, <1>3, <2>1 DEF Touches
<1>5. ASSUME LastIsAdd(short, f) PROVE LastIsAdd(long, f)
  <2>1. PICK i \in 1..m : log[i].f = f /\ log[i].op = "add" /\ \A j \in (i+1)..m : log[j].f # f
    BY <1>2, <1>3, <1>5 DEF LastIsAdd
  <2>2. \A j \in (i+1)..n : j \in (i+1)..m \/ j \in (m+1)..n
    BY <1>3
  <2>3. i \in 1..n /\ \A j \in (i+1)..n : log[j].f # f
    BY <1>3, <2>1, <2>2
  <2>4. \A j \in (i+1)..n : long[j] = log[j]
    BY <1>2, <2>1
  <2> QED BY <1>2, <2>1, <2>3, <2>4 DEF LastIsAdd
<1>6. ASSUME LastIsAdd(long, f) PROVE LastIsAdd(short, f)
  <2>1. PICK i \in 1..n : log[i].f = f /\ log[i].op = "add" /\ \A j \in (i+1)..n : log[j].f # f
    <3>1. PICK i \in 1..n : long[i].f = f /\ long[i].op = "add" /\ \A j \in (i+1)..n : long[j].f # f
      BY <1>2, <1>3, <1>6 DEF LastIsAdd
    <3>2. \A j \in (i+1)..n : long[j] = log[j]
      BY <1>2, <3>1
    <3> QED BY <1>2, <3>1, <3>2
  <2>2. i \in 1..m /\ \A j \in (i+1)..m : j \in (i+1)..n
    BY <1>3, <2>1
  <2>3. \A j \in (i+1)..m : short[j] = log[j]
    BY <1>2, <2>2
  <2> QED BY <1>2, <2>1, <2>2, <2>3 DEF LastIsAdd
<1> QED BY <1>2, <1>4, <1>5, <1>6

(***************************************************************************)
(* The last marker of joined, marked and cut logs.                         *)
(***************************************************************************)
LEMMA RecordsAreLogged ==
    /\ FactRec \subseteq TxnRec /\ CommitRec \in TxnRec
    /\ CommitRec.op = "commit" /\ CommitRec.f = NoFact
    /\ \A rec \in FactRec : rec.op # "commit" /\ rec.f \in Facts
  BY DEF TxnRec, FactRec, CommitRec

\* Records without a marker behind a log leave its last marker where it was.
LEMMA EndOfJoin ==
    ASSUME NEW log \in Seq(TxnRec), NEW more \in Seq(FactRec)
    PROVE  /\ log \o more \in Seq(TxnRec)
           /\ CommittedEnd(log \o more) = CommittedEnd(log)
           /\ Committed(log \o more) = Committed(log)
<1>1. more \in Seq(TxnRec) /\ \A i \in 1..Len(more) : more[i].op # "commit"
  BY RecordsAreLogged
<1>2. LastMarker(log, CommittedEnd(log))
  BY EndIsMarker
<1>3. PICK n : n = CommittedEnd(log) /\ n \in 0..Len(log) /\ (n = 0 \/ log[n].op = "commit")
               /\ \A k \in (n+1)..Len(log) : log[k].op # "commit"
  BY <1>2 DEF LastMarker
<1>4. PICK new \in Seq(TxnRec) :
         /\ new = log \o more
         /\ Len(new) = Len(log) + Len(more)
         /\ \A i \in 1..Len(log) : new[i] = log[i]
         /\ \A i \in (Len(log)+1)..(Len(log) + Len(more)) : new[i] = more[i - Len(log)]
         /\ \A m \in 0..Len(log) : Prefix(new, m) = Prefix(log, m)
  <2>1. /\ log \o more \in Seq(TxnRec)
        /\ Len(log \o more) = Len(log) + Len(more)
        /\ \A i \in 1..Len(log) : (log \o more)[i] = log[i]
        /\ \A i \in (Len(log)+1)..(Len(log) + Len(more)) : (log \o more)[i] = more[i - Len(log)]
        /\ \A m \in 0..Len(log) : Prefix(log \o more, m) = Prefix(log, m)
    BY <1>1, JoinedLog
  <2> QED BY <2>1, Zenon
<1>5. LastMarker(new, n)
  <2>1. ASSUME NEW k \in (n+1)..Len(new) PROVE new[k].op # "commit"
    <3>1. CASE k \in 1..Len(log)
      BY <1>3, <1>4, <3>1
    <3>2. CASE k \notin 1..Len(log)
      <4>1. k \in (Len(log)+1)..(Len(log) + Len(more)) /\ k - Len(log) \in 1..Len(more)
        BY <1>3, <1>4, <3>2
      <4> QED BY <1>1, <1>4, <4>1
    <3> QED BY <3>1, <3>2
  <2>2. n \in 0..Len(new) /\ (n = 0 \/ new[n].op = "commit")
    BY <1>3, <1>4
  <2> QED BY <2>1, <2>2 DEF LastMarker
<1>6. CommittedEnd(new) = n /\ Committed(new) = Prefix(new, n)
  BY <1>5, EndIs
<1> QED BY <1>3, <1>4, <1>6 DEF Committed

\* A marker at the end of a log commits all of it.
LEMMA EndOfMarked ==
    ASSUME NEW log \in Seq(TxnRec)
    PROVE  /\ log \o <<CommitRec>> \in Seq(TxnRec)
           /\ Len(log \o <<CommitRec>>) = Len(log) + 1
           /\ CommittedEnd(log \o <<CommitRec>>) = Len(log) + 1
           /\ Committed(log \o <<CommitRec>>) = log \o <<CommitRec>>
<1>1. PICK new \in Seq(TxnRec) :
         /\ new = log \o <<CommitRec>>
         /\ Len(new) = Len(log) + 1
         /\ new[Len(log) + 1] = CommitRec
  <2>1. CommitRec \in TxnRec
    BY RecordsAreLogged
  <2>2. PICK rec \in TxnRec : rec = CommitRec
    BY <2>1
  <2>3. /\ log \o <<rec>> \in Seq(TxnRec)
        /\ Len(log \o <<rec>>) = Len(log) + 1
        /\ (log \o <<rec>>)[Len(log) + 1] = rec
    OBVIOUS
  <2> QED BY <2>2, <2>3
<1>2. LastMarker(new, Len(log) + 1)
  BY <1>1, RecordsAreLogged DEF LastMarker
<1>3. CommittedEnd(new) = Len(log) + 1 /\ Committed(new) = Prefix(new, Len(new))
  BY <1>1, <1>2, EndIs
<1> QED BY <1>1, <1>3, WholeLog

\* A cut log has its last marker among those of the log.
LEMMA EndOfCut ==
    ASSUME NEW log \in Seq(TxnRec), NEW n \in 0..Len(log)
    PROVE  LET e == CommittedEnd(Prefix(log, n))
           IN  /\ e \in 0..n
               /\ e = 0 \/ log[e].op = "commit"
               /\ \A k \in (e+1)..n : log[k].op # "commit"
               /\ Committed(Prefix(log, n)) = Prefix(log, e)
<1>1. PICK cut \in Seq(TxnRec) :
         /\ cut = Prefix(log, n) /\ Len(cut) = n
         /\ \A i \in 1..n : cut[i] = log[i]
         /\ \A m \in 0..n : Prefix(cut, m) = Prefix(log, m)
  BY CutLog
<1>2. PICK e : e = CommittedEnd(cut) /\ LastMarker(cut, e)
  BY EndIsMarker
<1>3. e \in 0..n /\ (e = 0 \/ cut[e].op = "commit") /\ \A k \in (e+1)..n : cut[k].op # "commit"
  BY <1>1, <1>2 DEF LastMarker
<1>4. (e = 0 \/ log[e].op = "commit") /\ \A k \in (e+1)..n : log[k].op # "commit"
  BY <1>1, <1>3
<1>5. Committed(cut) = Prefix(log, e)
  BY <1>1, <1>2, <1>3 DEF Committed
<1> QED BY <1>1, <1>2, <1>3, <1>4, <1>5

\* Cutting a log after its last marker (txnwal_open_rw, replayTxnWal) leaves it committed throughout.
LEMMA EndOfCommitted ==
    ASSUME NEW log \in Seq(TxnRec)
    PROVE  /\ Committed(log) \in Seq(TxnRec)
           /\ Len(Committed(log)) = CommittedEnd(log)
           /\ CommittedEnd(Committed(log)) = CommittedEnd(log)
           /\ Committed(Committed(log)) = Committed(log)
           /\ \A i \in 1..CommittedEnd(log) : Committed(log)[i] = log[i]
<1>1. PICK n : n = CommittedEnd(log) /\ LastMarker(log, n)
  BY EndIsMarker
<1>2. n \in 0..Len(log) /\ (n = 0 \/ log[n].op = "commit")
  BY <1>1 DEF LastMarker
<1>3. PICK cut \in Seq(TxnRec) :
         /\ cut = Prefix(log, n) /\ Len(cut) = n
         /\ \A i \in 1..n : cut[i] = log[i]
         /\ \A m \in 0..n : Prefix(cut, m) = Prefix(log, m)
  BY <1>2, CutLog
<1>4. LastMarker(cut, n)
  BY <1>2, <1>3 DEF LastMarker
<1>5. CommittedEnd(cut) = n /\ Committed(cut) = Prefix(cut, n)
  BY <1>4, EndIs
<1>6. Committed(log) = cut
  BY <1>1, <1>3 DEF Committed
<1>7. Prefix(cut, n) = cut
  BY <1>2, <1>3
<1> QED BY <1>1, <1>3, <1>5, <1>6, <1>7

-----------------------------------------------------------------------------
(***************************************************************************)
(* The records of a buffer.                                                *)
(***************************************************************************)
LEMMA RowsAreFacts ==
    /\ Len(RevRows) \in Nat /\ DOMAIN RevRows = 1..Len(RevRows)
    /\ \A n \in 1..Len(RevRows) : RevRows[n] \in Facts
    /\ \A o \in CasOps : /\ o.op = "cas" /\ o.expected \in 0..Len(RevRows)
                         /\ o.next \in 1..Len(RevRows) /\ o.expected # o.next
    /\ \A o \in TxnOp : o.op # "cas" => o \in FactRec /\ o.f \in Plain
    /\ \A o \in TxnOp : o.op = "cas" => o \in CasOps
<1>1. Len(RevRows) \in Nat /\ DOMAIN RevRows = 1..Len(RevRows)
      /\ \A n \in 1..Len(RevRows) : RevRows[n] \in Facts
  BY RevRowsAssumption
<1>2. \A o \in CasOps : /\ o.op = "cas" /\ o.expected \in 0..Len(RevRows)
                        /\ o.next \in 1..Len(RevRows) /\ o.expected # o.next
  BY <1>1, SwapsAssumption DEF CasOps, CasOp, Revisions
<1>3. \A o \in TxnOp : o.op # "cas" => o \in FactRec /\ o.f \in Plain
  BY <1>2 DEF TxnOp, FactRec, Plain
<1>4. \A o \in TxnOp : o.op = "cas" => o \in CasOps
  BY DEF TxnOp
<1> QED BY <1>1, <1>2, <1>3, <1>4

\* A swap is logged as the delete of the old row, if there is one, and the add of the new one.
LEMMA SwapIsLogged ==
    ASSUME NEW o \in CasOps
    PROVE  /\ SwapRecords(o) \in Seq(FactRec)
           /\ \A f : Touches(SwapRecords(o), f) <=>
                 (o.expected # 0 /\ f = RevRows[o.expected]) \/ f = RevRows[o.next]
           /\ \A n \in 1..Len(RevRows) :
                 Touches(SwapRecords(o), RevRows[n]) => (LastIsAdd(SwapRecords(o), RevRows[n]) <=> n = o.next)
<1>1. /\ o.expected \in 0..Len(RevRows) /\ o.next \in 1..Len(RevRows) /\ o.expected # o.next
      /\ \A n \in 1..Len(RevRows) : RevRows[n] \in Facts
  BY RowsAreFacts
<1>2. \A m, n \in 1..Len(RevRows) : RevRows[m] = RevRows[n] => m = n
  BY RevRowsAssumption, RowsAreFacts
<1>3. PICK new \in FactRec : new = AddRec(RevRows[o.next])
  BY <1>1 DEF AddRec, FactRec
<1>4. new.f = RevRows[o.next] /\ new.op = "add"
  BY <1>3 DEF AddRec
<1>5. CASE o.expected = 0
  <2>1. SwapRecords(o) = <<new>>
    BY <1>3, <1>5 DEF SwapRecords
  <2>2. PICK log \in Seq(FactRec) : log = <<new>> /\ Len(log) = 1 /\ log[1] = new
    <3>1. <<new>> \in Seq(FactRec) /\ Len(<<new>>) = 1 /\ <<new>>[1] = new
      OBVIOUS
    <3> QED BY <3>1, Zenon
  <2>3. /\ \A f : Touches(log, f) <=> f = RevRows[o.next]
        /\ LastIsAdd(log, RevRows[o.next])
    BY <1>4, <2>2 DEF Touches, LastIsAdd
  <2>4. \A n \in 1..Len(RevRows) : Touches(log, RevRows[n]) => n = o.next
    BY <1>1, <1>2, <2>3
  <2> QED BY <1>5, <2>1, <2>2, <2>3, <2>4
<1>6. CASE o.expected # 0
  <2>1. PICK old \in FactRec : old = DelRec(RevRows[o.expected])
    <3>1. RevRows[o.expected] \in Facts
      BY <1>1, <1>6
    <3> QED BY <3>1 DEF DelRec, FactRec
  <2>2. old.f = RevRows[o.expected] /\ old.op = "del"
    BY <2>1 DEF DelRec
  <2>3. SwapRecords(o) = <<old>> \o <<new>>
    BY <1>3, <1>6, <2>1 DEF SwapRecords
  <2>4. PICK log \in Seq(FactRec) : log = <<old>> \o <<new>> /\ Len(log) = 2 /\ log[1] = old /\ log[2] = new
    <3>1. /\ <<old>> \o <<new>> \in Seq(FactRec) /\ Len(<<old>> \o <<new>>) = 2
          /\ (<<old>> \o <<new>>)[1] = old /\ (<<old>> \o <<new>>)[2] = new
      OBVIOUS
    <3> QED BY <3>1, Zenon
  <2>5. old.f # new.f
    BY <1>1, <1>2, <1>4, <1>6, <2>2
  <2>6. 1..Len(log) = {1, 2} /\ (1+1)..Len(log) = {2} /\ (2+1)..Len(log) = {}
    BY <2>4
  <2>7. \A f : Touches(log, f) <=> f = RevRows[o.expected] \/ f = RevRows[o.next]
    BY <1>4, <2>2, <2>4, <2>6 DEF Touches
  <2>8. \A f : LastIsAdd(log, f) <=> f = RevRows[o.next]
    BY <1>4, <2>2, <2>4, <2>5, <2>6 DEF LastIsAdd
  <2>9. \A n \in 1..Len(RevRows) : RevRows[n] = RevRows[o.next] <=> n = o.next
    BY <1>1, <1>2
  <2> QED BY <1>6, <2>3, <2>4, <2>7, <2>8, <2>9
<1> QED BY <1>5, <1>6

\* A buffer with at most one swap is logged as ADD and DEL records.
LEMMA RecordsType ==
    ASSUME NEW ops \in Seq(TxnOp), OneSwap(ops)
    PROVE  Records(ops) \in Seq(FactRec)
<1>1. CASE \A i \in DOMAIN ops : ops[i].op # "cas"
  <2>1. Records(ops) = ops
    BY <1>1 DEF Records
  <2>2. \A i \in 1..Len(ops) : ops[i] \in FactRec
    BY <1>1, RowsAreFacts
  <2> QED BY <2>1, <2>2
<1>2. CASE \E i \in DOMAIN ops : ops[i].op = "cas"
  <2>1. PICK k \in DOMAIN ops :
           /\ ops[k].op = "cas"
           /\ Records(ops) = SubSeq(ops, 1, k - 1) \o SwapRecords(ops[k]) \o SubSeq(ops, k + 1, Len(ops))
    BY <1>2 DEF Records
  <2>2. k \in 1..Len(ops) /\ \A i \in 1..Len(ops) : i # k => ops[i] \in FactRec
    <3>1. k \in 1..Len(ops) /\ \A i \in 1..Len(ops) : i # k => ops[i] \in TxnOp /\ ops[i].op # "cas"
      BY <2>1 DEF OneSwap
    <3> QED BY <3>1, RowsAreFacts
  <2>3. SubSeq(ops, 1, k - 1) \in Seq(FactRec)
    BY <2>2
  <2>4. SubSeq(ops, k + 1, Len(ops)) \in Seq(FactRec)
    BY <2>2
  <2>5. SwapRecords(ops[k]) \in Seq(FactRec)
    BY <2>1, <2>2, RowsAreFacts, SwapIsLogged
  <2> QED BY <2>1, <2>3, <2>4, <2>5
<1> QED BY <1>1, <1>2

\* An empty transaction log.
LEMMA EmptyTxnLog == <<>> \in Seq(TxnRec) /\ Len(<<>>) = 0
  OBVIOUS

\* An empty buffer logs nothing.
LEMMA EmptyRecords == <<>> \in Seq(TxnOp) /\ OneSwap(<<>>) /\ Records(<<>>) = <<>>
  BY DEF OneSwap, Records

-----------------------------------------------------------------------------
(***************************************************************************)
(* The types of every step.                                                *)
(***************************************************************************)
LEMMA WriteTypes ==
    ASSUME TypeOK, NEW rec \in FactRec, DirectWrite(rec)
    PROVE  /\ rec.f \in Facts /\ RelOf[rec.f] \in Rels
           /\ mem' \subseteq Facts /\ dirty' \subseteq Rels /\ facts' \subseteq Facts
           /\ byTxn' \subseteq Facts /\ stale' \subseteq Facts
           /\ wal' \in [Rels -> Seq(FactRec)]
           /\ \A r \in Rels : synced'[r] <= Len(wal'[r])
           /\ \A r \in Rels : wal'[r] = IF r = RelOf[rec.f] THEN Append(wal[r], rec) ELSE wal[r]
           /\ UNCHANGED <<txn, pos, todo, failed, file, synced, twal, tsynced>>
<1>1. rec.f \in Facts /\ RelOf[rec.f] \in Rels
  BY RelOfAssumption DEF FactRec
<1>2. /\ mem' \subseteq Facts /\ dirty' \subseteq Rels /\ facts' \subseteq Facts
      /\ byTxn' \subseteq Facts /\ stale' \subseteq Facts
  BY <1>1 DEF DirectWrite, TypeOK
<1>3. wal' = [wal EXCEPT ![RelOf[rec.f]] = Append(@, rec)] /\ wal \in [Rels -> Seq(FactRec)]
  BY DEF DirectWrite, TypeOK
<1>4. \A r \in Rels : wal'[r] = IF r = RelOf[rec.f] THEN Append(wal[r], rec) ELSE wal[r]
  BY <1>1, <1>3
<1>5. wal' \in [Rels -> Seq(FactRec)]
  BY <1>1, <1>3
<1>6. UNCHANGED <<txn, pos, todo, failed, file, synced, twal, tsynced>>
  BY DEF DirectWrite
<1>7. \A r \in Rels : synced'[r] <= Len(wal'[r])
  <2> SUFFICES ASSUME NEW r \in Rels PROVE synced[r] <= Len(wal'[r])
    BY <1>6
  <2>1. synced[r] \in Nat /\ synced[r] <= Len(wal[r]) /\ wal[r] \in Seq(FactRec)
    BY DEF TypeOK
  <2>2. Len(wal[r]) \in Nat /\ Len(Append(wal[r], rec)) = Len(wal[r]) + 1
    BY <2>1
  <2>3. wal'[r] = wal[r] \/ wal'[r] = Append(wal[r], rec)
    BY <1>4
  <2>4. Len(wal'[r]) = Len(wal[r]) \/ Len(wal'[r]) = Len(wal[r]) + 1
    BY <2>2, <2>3
  <2> QED BY <2>1, <2>2, <2>4
<1> QED BY <1>1, <1>2, <1>4, <1>5, <1>6, <1>7

(***************************************************************************)
(* The buffer while a transaction is open, and when it is gone.            *)
(***************************************************************************)
LEMMA BufferTypes ==
    ASSUME TypeOK, Control
    PROVE  /\ Records(txn) \in Seq(FactRec) /\ Len(Records(txn)) \in Nat
           /\ pos \in Nat /\ pos >= 1 /\ pos <= Len(Records(txn)) + 1
           /\ Len(Records(<<>>)) = 0 /\ 1 \in 1..(Len(Records(<<>>)) + 1)
<1>1. Records(txn) \in Seq(FactRec)
  BY RecordsType DEF TypeOK, Control
<1>2. Len(Records(<<>>)) = 0
  BY EmptyRecords
<1> QED BY <1>1, <1>2 DEF TypeOK

\* Transactions keep the types.
LEMMA TransactionTypes ==
    ASSUME TypeOK, Control,
           TxnBegin \/ TxnRollback \/ TxnCommit \/ (\E o \in TxnOp : TxnBufOp(o))
             \/ TxnAppend \/ TxnMarker \/ TxnAppendFail
             \/ TxnSync \/ TxnSyncFail \/ TxnApply \/ TxnDone
    PROVE  TypeOK' /\ Control'
<1> DEFINE ops == Records(txn)
<1>0. /\ ops \in Seq(FactRec) /\ Len(ops) \in Nat /\ pos \in Nat /\ pos >= 1 /\ pos <= Len(ops) + 1
      /\ 1 \in 1..(Len(Records(<<>>)) + 1) /\ <<>> \in Seq(TxnOp) /\ OneSwap(<<>>)
  BY BufferTypes, EmptyRecords
<1>1. CASE TxnBegin
  BY <1>0, <1>1 DEF TxnBegin, TypeOK, Control, Applying, disk, history
<1>2. CASE TxnRollback
  BY <1>0, <1>2 DEF TxnRollback, TxnDiscard, TypeOK, Control, Applying, disk, history
<1>3. CASE TxnCommit
  <2>1. Committed(twal) \in Seq(TxnRec) /\ Len(Committed(twal)) \in Nat
    BY EndOfCommitted DEF TypeOK
  <2>2. twal' \in Seq(TxnRec) /\ tsynced' \in 0..Len(twal')
    BY <1>3, <2>1 DEF TxnCommit, TypeOK
  <2> QED BY <1>0, <1>3, <2>2 DEF TxnCommit, TypeOK, Control, Applying, history
<1>4. ASSUME NEW o \in TxnOp, TxnBufOp(o) PROVE TypeOK' /\ Control'
  <2>1. txn' \in Seq(TxnOp) /\ Len(txn') = Len(txn) + 1 /\ txn'[Len(txn) + 1] = o
        /\ \A i \in 1..Len(txn) : txn'[i] = txn[i]
    BY <1>4 DEF TxnBufOp, TypeOK
  <2>2. OneSwap(txn')
    <3> SUFFICES ASSUME NEW i \in 1..Len(txn'), NEW j \in 1..Len(txn'),
                        txn'[i].op = "cas", txn'[j].op = "cas"
                 PROVE  i = j
      BY <2>1 DEF OneSwap
    <3>1. txn \in Seq(TxnOp) /\ Len(txn) \in Nat /\ DOMAIN txn = 1..Len(txn)
      BY DEF TypeOK
    <3>2. CASE o.op = "cas"
      <4>1. \A k \in 1..Len(txn) : txn'[k].op # "cas"
        BY <1>4, <2>1, <3>1, <3>2 DEF TxnBufOp
      <4> QED BY <2>1, <3>1, <4>1
    <3>3. CASE o.op # "cas"
      <4>1. i \in 1..Len(txn) /\ j \in 1..Len(txn)
        BY <2>1, <3>1, <3>3
      <4> QED BY <2>1, <3>1, <4>1 DEF OneSwap, Control
    <3> QED BY <3>2, <3>3
  <2>3. Records(txn') \in Seq(FactRec)
    BY <2>1, <2>2, RecordsType
  <2>4. pos' = 1 /\ pc' = pc /\ pc = "txn"
    BY <1>4 DEF TxnBufOp, Control, Applying
  <2>5. 1 \in 1..(Len(Records(txn')) + 1)
    BY <2>3
  <2> QED BY <1>4, <2>1, <2>2, <2>4, <2>5 DEF TxnBufOp, TypeOK, Control, Applying, disk, history
<1>5. CASE TxnAppend
  <2>1. pos \in 1..Len(ops) /\ ops[pos] \in TxnRec
    BY <1>0, <1>5, RecordsAreLogged DEF TxnAppend
  <2>2. twal' \in Seq(TxnRec) /\ Len(twal') = Len(twal) + 1 /\ tsynced' \in 0..Len(twal')
    BY <1>5, <2>1 DEF TxnAppend, TypeOK
  <2>3. pos' \in 1..(Len(ops) + 1)
    BY <1>0, <1>5, <2>1 DEF TxnAppend
  <2> QED BY <1>0, <1>5, <2>2, <2>3 DEF TxnAppend, TypeOK, Control, Applying, history
<1>6. CASE TxnMarker
  <2>1. twal' \in Seq(TxnRec) /\ Len(twal') = Len(twal) + 1 /\ tsynced' \in 0..Len(twal')
    BY <1>6, RecordsAreLogged DEF TxnMarker, TypeOK
  <2> QED BY <1>0, <1>6, <2>1 DEF TxnMarker, TypeOK, Control, Applying, history
<1>7. CASE TxnAppendFail
  BY <1>0, <1>7 DEF TxnAppendFail, TxnDiscard, TypeOK, Control, Applying, disk, history
<1>8. CASE TxnSync
  <2>1. tsynced' \in 0..Len(twal) /\ 1 \in 1..(Len(ops) + 1)
    BY <1>0, <1>8 DEF TxnSync, TypeOK
  <2> QED BY <1>0, <1>8, <2>1 DEF TxnSync, TypeOK, Control, Applying, history
<1>9. CASE TxnSyncFail
  <2>1. stale' \subseteq Facts /\ byTxn' \subseteq Facts
    BY <1>9 DEF TxnSyncFail, TypeOK, Touched
  <2> QED BY <1>0, <1>9, <2>1 DEF TxnSyncFail, TxnDiscard, TypeOK, Control, Applying, disk
<1>10. CASE TxnApply
  <2>1. pos \in 1..Len(ops) /\ ops[pos] \in FactRec
    BY <1>0, <1>10 DEF TxnApply
  <2>2. ops[pos].f \in Facts /\ RelOf[ops[pos].f] \in Rels
    BY <2>1, RelOfAssumption DEF FactRec
  <2>3. mem' \subseteq Facts /\ dirty' \subseteq Rels
    BY <1>10, <2>2 DEF TxnApply, TypeOK
  <2>4. \/ pc' = "apply" /\ cur' = cur /\ back' = back
        \/ pc' = "compact" /\ cur' \in Rels /\ back' = "apply"
    BY <1>10, <2>2 DEF TxnApply, MaybeCompact
  <2>5. pos' \in 1..(Len(ops) + 1)
    BY <1>0, <1>10, <2>1 DEF TxnApply
  <2>6. pc = "apply" /\ UNCHANGED <<txn, swap, todo, failed, file, wal, synced, twal, tsynced,
                                    facts, byTxn, stale>>
    BY <1>10 DEF TxnApply, disk, history
  <2> QED BY <1>0, <2>3, <2>4, <2>5, <2>6 DEF TypeOK, Control, Applying
<1>11. CASE TxnDone
  <2>1. facts' \subseteq Facts /\ stale' \subseteq Facts /\ byTxn' \subseteq Facts
    BY <1>11 DEF TxnDone, TypeOK, Touched, Replay
  <2> QED BY <1>0, <1>11, <2>1 DEF TxnDone, TxnDiscard, TypeOK, Control, Applying, disk
<1> QED BY <1>1, <1>2, <1>3, <1>4, <1>5, <1>6, <1>7, <1>8, <1>9, <1>10, <1>11

\* What is left in memory of a process that ended has its type.
LEMMA ForgetTypes ==
    ASSUME Forget
    PROVE  /\ pc' = "down" /\ mem' \subseteq Facts /\ dirty' \subseteq Rels /\ txn' \in Seq(TxnOp)
           /\ pos' \in 1..(Len(Records(txn')) + 1)
           /\ swap' \in Revisions /\ swap' = 0 /\ pos' = 1 /\ txn' = <<>> /\ OneSwap(txn')
           /\ todo' \subseteq Rels /\ cur' \in Rels \cup {NoRel} /\ back' = "idle" /\ failed' \in BOOLEAN
<1>1. txn' = <<>> /\ pos' = 1
  BY DEF Forget
<1>2. 1 \in 1..(Len(Records(txn')) + 1) /\ txn' \in Seq(TxnOp) /\ OneSwap(txn')
  BY <1>1, EmptyRecords
<1>3. swap' = 0 /\ swap' \in Revisions
  BY RowsAreFacts DEF Forget, Revisions
<1> QED BY <1>1, <1>2, <1>3 DEF Forget

\* Recovery, compactions, closing and stops keep the types.
LEMMA OtherTypes ==
    ASSUME TypeOK, Control,
           Open \/ EndReplay \/ CompactNext \/ CompactSave \/ CompactTruncate \/ CompactFail
             \/ Consolidate \/ Close \/ EndClose \/ Kill \/ PowerLoss
    PROVE  TypeOK' /\ Control'
<1>0. /\ 1 \in 1..(Len(Records(<<>>)) + 1) /\ <<>> \in Seq(TxnOp) /\ OneSwap(<<>>)
      /\ Records(txn) \in Seq(FactRec)
  BY BufferTypes, EmptyRecords
<1>1. \A c, log : Replay(c, log) \subseteq Facts
  BY DEF Replay
<1>2. CASE Open
  <2>1. Committed(twal) \in Seq(TxnRec) /\ Len(Committed(twal)) \in Nat
    BY EndOfCommitted DEF TypeOK
  <2>2. twal' \in Seq(TxnRec) /\ tsynced' \in 0..Len(twal')
    BY <1>2, <2>1 DEF Open, TypeOK
  <2>3. mem' \subseteq Facts /\ facts' \subseteq Facts /\ stale' = {}
    BY <1>1, <1>2 DEF Open, Recovered
  <2>4. dirty' \subseteq Rels
    BY <1>2 DEF Open
  <2>5. todo' \subseteq Rels
    BY <1>2, RelOfAssumption DEF Open, Touched
  <2>6. pc = "down" /\ pc' = "replay" /\ failed' = FALSE
        /\ UNCHANGED <<txn, swap, pos, cur, back, file, wal, synced, byTxn>>
    BY <1>2 DEF Open
  <2>7. TypeOK'
    BY <2>2, <2>3, <2>4, <2>5, <2>6 DEF TypeOK
  <2> QED BY <2>6, <2>7 DEF Control, Applying
<1>3. CASE EndReplay
  <2>1. twal' \in Seq(TxnRec) /\ tsynced' \in 0..Len(twal')
    <3>1. (twal' = twal /\ tsynced' = tsynced) \/ (twal' = <<>> /\ tsynced' = 0)
      BY <1>3 DEF EndReplay
    <3>2. CASE twal' = twal /\ tsynced' = tsynced
      BY <3>2 DEF TypeOK
    <3>3. CASE twal' = <<>> /\ tsynced' = 0
      BY <3>3, EmptyTxnLog
    <3> QED BY <3>1, <3>2, <3>3
  <2>2. pc = "replay" /\ pc' = "idle"
        /\ UNCHANGED <<mem, dirty, txn, swap, pos, todo, cur, back, failed, file, wal,
                       synced, facts, byTxn, stale>>
    BY <1>3 DEF EndReplay, history
  <2>3. TypeOK'
    BY <2>1, <2>2 DEF TypeOK
  <2> QED BY <2>2, <2>3 DEF Control, Applying
<1>4. CASE CompactNext
  BY <1>4 DEF CompactNext, TypeOK, Control, Applying, disk, history
<1>5. CASE CompactSave
  <2>1. file' \subseteq Facts
    BY <1>5 DEF CompactSave, TypeOK, FactsOf
  <2> QED BY <1>5, <2>1 DEF CompactSave, TypeOK, Control, Applying, history
<1>6. CASE CompactTruncate
  <2>1. <<>> \in Seq(FactRec) /\ Len(<<>>) = 0
    OBVIOUS
  <2>2. cur \in Rels /\ wal \in [Rels -> Seq(FactRec)] /\ synced \in [Rels -> Nat]
    BY <1>6 DEF CompactTruncate, TypeOK, Control
  <2>3. wal' \in [Rels -> Seq(FactRec)] /\ synced' \in [Rels -> Nat]
        /\ \A r \in Rels : /\ wal'[r] = IF r = cur THEN <<>> ELSE wal[r]
                           /\ synced'[r] = IF r = cur THEN 0 ELSE synced[r]
    BY <1>6, <2>1, <2>2 DEF CompactTruncate
  <2>4. \A r \in Rels : synced'[r] <= Len(wal'[r])
    BY <2>1, <2>3 DEF TypeOK
  <2>5. pc = "saved" /\ pc' = back /\ back' = "idle" /\ cur' = NoRel
        /\ UNCHANGED <<mem, dirty, txn, swap, pos, todo, failed, file, twal, tsynced,
                       facts, byTxn, stale>>
    BY <1>6 DEF CompactTruncate, history
  <2>6. TypeOK'
    BY <2>3, <2>4, <2>5 DEF TypeOK
  <2> QED BY <2>5, <2>6 DEF Control, Applying, TypeOK
<1>7. CASE CompactFail
  BY <1>7 DEF CompactFail, TypeOK, Control, Applying, disk, history
<1>8. CASE Consolidate
  BY <1>8 DEF Consolidate, SyncAllWals, TypeOK, Control, Applying, history
<1>9. CASE Close
  <2>1. synced' \in [Rels -> Nat] /\ \A r \in Rels : synced'[r] <= Len(wal[r])
    BY <1>9 DEF Close, SyncAllWals, TypeOK
  <2>2. pc \in {"idle", "txn"} /\ pc' = "close" /\ txn' = <<>> /\ pos' = 1 /\ todo' = dirty
        /\ UNCHANGED <<mem, dirty, swap, cur, back, failed, file, wal, twal, tsynced,
                       facts, byTxn, stale>>
    BY <1>9 DEF Close, history
  <2>3. TypeOK'
    BY <1>0, <2>1, <2>2 DEF TypeOK
  <2> QED BY <1>0, <2>2, <2>3 DEF Control, Applying
<1>10. CASE EndClose
  BY <1>0, <1>10 DEF EndClose, Forget, TypeOK, Control, Applying, disk, history, Revisions
<1>11. CASE Kill
  <2>1. facts' \subseteq Facts /\ byTxn' \subseteq Facts /\ stale' \subseteq Facts
    BY <1>1, <1>11 DEF Kill, Expected, TypeOK, Touched
  <2>2. Forget /\ UNCHANGED <<file, wal, synced, twal, tsynced>>
    BY <1>11 DEF Kill, disk
  <2>3. TypeOK'
    BY <2>1, <2>2, ForgetTypes DEF TypeOK
  <2> QED BY <2>2, <2>3, ForgetTypes DEF Control, Applying
<1>12. CASE PowerLoss
  <2>1. PICK t \in TxnWalCuts, w \in WalCuts : wal' = w /\ twal' = t
    BY <1>12 DEF PowerLoss
  <2>2. t \in Seq(TxnRec)
    <3>1. PICK n \in tsynced..Len(twal) : t = Prefix(twal, n)
      BY <2>1 DEF TxnWalCuts
    <3>2. n \in 0..Len(twal) /\ twal \in Seq(TxnRec)
      BY <3>1 DEF TypeOK
    <3> QED BY <3>1, <3>2, CutLog
  <2>3. w \in [Rels -> Seq(FactRec)]
    <3>1. DOMAIN w = Rels /\ w = [r \in Rels |-> w[r]]
      BY <2>1 DEF WalCuts
    <3>2. ASSUME NEW r \in Rels PROVE w[r] \in Seq(FactRec)
      <4>1. PICK n \in synced[r]..Len(wal[r]) : w[r] = Prefix(wal[r], n)
        BY <2>1 DEF WalCuts
      <4>2. wal[r] \in Seq(FactRec) /\ synced[r] \in Nat
        BY DEF TypeOK
      <4>3. n \in 0..Len(wal[r])
        BY <4>1, <4>2
      <4> QED BY <4>1, <4>2, <4>3, CutLog
    <3> QED BY <3>1, <3>2
  <2>4. /\ synced' \in [Rels -> Nat] /\ \A r \in Rels : synced'[r] <= Len(wal'[r])
        /\ tsynced' \in 0..Len(twal')
    BY <1>12, <2>1, <2>2, <2>3 DEF PowerLoss
  <2>5. facts' \subseteq Facts /\ stale' = {} /\ Forget /\ UNCHANGED <<file, byTxn>>
    BY <1>1, <1>12 DEF PowerLoss, Recovered
  <2>6. TypeOK'
    BY <2>1, <2>2, <2>3, <2>4, <2>5, ForgetTypes DEF TypeOK
  <2> QED BY <2>5, <2>6, ForgetTypes DEF Control, Applying
<1> QED BY <1>2, <1>3, <1>4, <1>5, <1>6, <1>7, <1>8, <1>9, <1>10, <1>11, <1>12

\* Direct writes keep the types.
LEMMA DirectTypes ==
    ASSUME TypeOK, Control,
           (\E f \in Plain : AddFact(f) \/ DeleteFact(f))
             \/ (\E c \in CasOps : CasRevision(c.expected, c.next)) \/ CasWrite
    PROVE  TypeOK' /\ Control'
<1>1. ASSUME NEW rec \in FactRec, DirectWrite(rec), swap' \in Revisions, pc \in {"idle", "cas"},
             \/ swap' = 0 /\ pc' = "idle" /\ cur' = cur /\ back' = back
             \/ swap' = 0 /\ pc' = "compact" /\ cur' \in Rels /\ back' = "idle"
             \/ swap' # 0 /\ pc' = "cas" /\ cur' = cur /\ back' = back
      PROVE  TypeOK' /\ Control'
  <2>1. /\ rec.f \in Facts /\ RelOf[rec.f] \in Rels
        /\ mem' \subseteq Facts /\ dirty' \subseteq Rels /\ facts' \subseteq Facts
        /\ byTxn' \subseteq Facts /\ stale' \subseteq Facts
        /\ wal' \in [Rels -> Seq(FactRec)]
        /\ \A r \in Rels : synced'[r] <= Len(wal'[r])
        /\ UNCHANGED <<txn, pos, todo, failed, file, synced, twal, tsynced>>
    BY <1>1, WriteTypes
  <2> QED BY <1>1, <2>1 DEF TypeOK, Control, Applying
<1>2. ASSUME NEW f \in Plain, AddFact(f) PROVE TypeOK' /\ Control'
  <2>1. f \in Facts /\ AddRec(f) \in FactRec /\ RelOf[f] \in Rels
    BY RelOfAssumption DEF Plain, AddRec, FactRec
  <2>2. pc = "idle" /\ swap = 0 /\ swap' = swap /\ DirectWrite(AddRec(f)) /\ MaybeCompact(RelOf[f], "idle")
    BY <1>2 DEF AddFact, TypeOK
  <2> QED BY <1>1, <2>1, <2>2 DEF MaybeCompact, Revisions
<1>3. ASSUME NEW f \in Plain, DeleteFact(f) PROVE TypeOK' /\ Control'
  <2>1. DelRec(f) \in FactRec
    BY DEF Plain, DelRec, FactRec
  <2>2. pc = "idle" /\ swap = 0 /\ DirectWrite(DelRec(f)) /\ UNCHANGED <<pc, swap, cur, back>>
    BY <1>3 DEF DeleteFact, TypeOK
  <2> QED BY <1>1, <2>1, <2>2 DEF Revisions
<1>4. ASSUME NEW c \in CasOps, CasRevision(c.expected, c.next) PROVE TypeOK' /\ Control'
  <2>1. c.expected \in 0..Len(RevRows) /\ c.next \in 1..Len(RevRows)
    BY RowsAreFacts
  <2>2. pc = "idle" /\ swap' = c.next /\ swap' # 0 /\ pc' = "cas" /\ UNCHANGED <<cur, back>>
    BY <1>4, <2>1 DEF CasRevision
  <2>3. CASE c.expected = 0
    <3>1. UNCHANGED <<mem, dirty, txn, pos, todo, failed, file, wal, synced, twal, tsynced,
                      facts, byTxn, stale>>
      BY <1>4, <2>3 DEF CasRevision, disk, history
    <3> QED BY <2>1, <2>2, <3>1 DEF TypeOK, Control, Applying, Revisions
  <2>4. CASE c.expected # 0
    <3>1. RevRows[c.expected] \in Facts
      BY <2>1, <2>4, RowsAreFacts
    <3>2. DelRec(RevRows[c.expected]) \in FactRec
      BY <3>1 DEF DelRec, FactRec
    <3>3. DirectWrite(DelRec(RevRows[c.expected]))
      BY <1>4, <2>4 DEF CasRevision
    <3> QED BY <1>1, <2>1, <2>2, <3>2, <3>3 DEF Revisions
  <2> QED BY <2>3, <2>4
<1>5. CASE CasWrite
  <2>1. swap \in 1..Len(RevRows)
    BY <1>5 DEF CasWrite, TypeOK, Revisions
  <2>2. RevRows[swap] \in Facts
    BY <2>1, RowsAreFacts
  <2>3. AddRec(RevRows[swap]) \in FactRec /\ RelOf[RevRows[swap]] \in Rels
    BY <2>2, RelOfAssumption DEF AddRec, FactRec
  <2>4. /\ pc = "cas" /\ swap' = 0 /\ DirectWrite(AddRec(RevRows[swap]))
        /\ MaybeCompact(RelOf[RevRows[swap]], "idle")
    BY <1>5 DEF CasWrite
  <2> QED BY <1>1, <2>3, <2>4 DEF MaybeCompact, Revisions
<1> QED BY <1>2, <1>3, <1>4, <1>5

\* Every step keeps the types.
LEMMA TypeSteps == TypeOK /\ Control /\ [Next]_vars => TypeOK' /\ Control'
<1> SUFFICES ASSUME TypeOK, Control, [Next]_vars PROVE TypeOK' /\ Control'
  OBVIOUS
<1>1. CASE UNCHANGED vars
  BY <1>1 DEF vars, TypeOK, Control, Applying
<1> QED BY <1>1, TransactionTypes, OtherTypes, DirectTypes DEF Next

-----------------------------------------------------------------------------
(***************************************************************************)
(* What the settled log and memory say, in a state of the invariant.       *)
(***************************************************************************)
LEMMA SettledFacts ==
    ASSUME TypeOK, Control, LogTail
    PROVE  /\ SettledEnd \in 0..Len(twal) /\ Len(twal) \in Nat /\ twal \in Seq(TxnRec)
           /\ SettledEnd = 0 \/ twal[SettledEnd].op = "commit"
           /\ Settled \in Seq(TxnRec) /\ Len(Settled) = SettledEnd
           /\ \A i \in 1..SettledEnd : Settled[i] = twal[i]
           /\ pc # "marker" => SettledEnd = CommittedEnd(twal) /\ Settled = Committed(twal)
<1>1. twal \in Seq(TxnRec) /\ Len(twal) \in Nat
  BY DEF TypeOK
<1>2. CASE pc = "marker"
  <2>1. SettledEnd = Len(twal) - (Len(Records(txn)) + 1) /\ SettledEnd >= 0
        /\ (SettledEnd = 0 \/ twal[SettledEnd].op = "commit") /\ Len(Records(txn)) \in Nat
    BY <1>2, BufferTypes DEF SettledEnd, LogTail
  <2>2. SettledEnd \in 0..Len(twal)
    BY <1>1, <2>1
  <2>3. Settled \in Seq(TxnRec) /\ Len(Settled) = SettledEnd
        /\ \A i \in 1..SettledEnd : Settled[i] = twal[i]
    BY <1>1, <2>2, CutLog DEF Settled
  <2> QED BY <1>1, <1>2, <2>1, <2>2, <2>3
<1>3. CASE pc # "marker"
  <2>1. SettledEnd = CommittedEnd(twal) /\ Settled = Committed(twal)
    BY <1>3 DEF SettledEnd, Settled, Committed
  <2>2. LastMarker(twal, CommittedEnd(twal))
    BY <1>1, EndIsMarker
  <2>3. SettledEnd \in 0..Len(twal) /\ (SettledEnd = 0 \/ twal[SettledEnd].op = "commit")
    BY <2>1, <2>2 DEF LastMarker
  <2>4. Settled \in Seq(TxnRec) /\ Len(Settled) = SettledEnd
        /\ \A i \in 1..SettledEnd : Settled[i] = twal[i]
    BY <1>1, <2>3, CutLog DEF Settled
  <2> QED BY <1>1, <1>3, <2>1, <2>3, <2>4
<1> QED BY <1>2, <1>3

(***************************************************************************)
(* A fact the settled log does not decide is in memory as it is in the     *)
(* contents the handle stands for.                                         *)
(***************************************************************************)
LEMMA MemoryIsGoal ==
    ASSUME TypeOK, Control, Logs, Memory, pc # "down", NEW f \in Facts, ~Touches(Settled, f)
    PROVE  (f \in mem <=> f \in Goal) /\ (f \in mem <=> f \in facts)
<1>1. CASE ~Applying
  BY <1>1 DEF Memory, Goal
<1>2. CASE Applying
  <2>1. ~Touches(Records(txn), f)
    BY <1>2 DEF Logs, Touched
  <2>2. Records(txn) \in Seq(FactRec) /\ pos - 1 \in 0..Len(Records(txn))
    BY BufferTypes
  <2>3. Prefix(Records(txn), pos - 1) \in Seq(FactRec)
        /\ Len(Prefix(Records(txn), pos - 1)) = pos - 1
        /\ \A i \in 1..(pos - 1) : Prefix(Records(txn), pos - 1)[i] = Records(txn)[i]
    BY <2>2, CutLog
  <2>4. ~Touches(Prefix(Records(txn), pos - 1), f)
    <3>1. \A i \in 1..(pos - 1) : i \in 1..Len(Records(txn))
      BY <2>2
    <3> QED BY <2>1, <2>3, <3>1 DEF Touches
  <2> QED BY <1>2, <2>1, <2>4, ReplayOne DEF Memory, Goal
<1> QED BY <1>1, <1>2

(***************************************************************************)
(* Steps that leave the files, the logs and the history alone.             *)
(***************************************************************************)
LEMMA SettledKept ==
    ASSUME pc # "marker", pc' # "marker", twal' = twal
    PROVE  SettledEnd' = SettledEnd /\ Settled' = Settled
  BY DEF SettledEnd, Settled

\* A step that changes no file and no acknowledgement keeps what the logs stand for.
LEMMA DiskAndHistoryKept ==
    ASSUME TInv, pc # "marker", pc' # "marker",
           Applying' <=> Applying, Applying => txn' = txn,
           UNCHANGED <<file, wal, twal, tsynced, facts, byTxn, stale>>
    PROVE  /\ Logs' /\ Durable'
           /\ Applying' => tsynced' = Len(twal') /\ SettledEnd' = Len(twal')
<1>1. SettledEnd' = SettledEnd /\ Settled' = Settled
  BY SettledKept
<1>2. Goal' = Goal /\ (Applying' => Records(txn)' = Records(txn))
  BY DEF Goal
<1>3. \A f \in Facts : InWal(f)' <=> InWal(f)
  BY DEF InWal
<1>4. Logs'
  <2>1. \A f \in Facts \ stale :
           f \in Goal <=> IF Touches(Settled, f) THEN LastIsAdd(Settled, f) ELSE InWal(f)
    BY DEF TInv, Contents, Logs
  <2>2. \A f \in Facts \ stale' :
           f \in Goal' <=> IF Touches(Settled', f) THEN LastIsAdd(Settled', f) ELSE InWal(f)'
    BY <1>1, <1>2, <1>3, <2>1
  <2>3. Applying' =>
           \A f \in Touched(Records(txn)') :
              /\ Touches(Settled', f)
              /\ LastIsAdd(Settled', f) <=> LastIsAdd(Records(txn)', f)
    BY <1>1, <1>2 DEF TInv, Contents, Logs
  <2> QED BY <2>2, <2>3 DEF Logs
<1>5. Durable'
  BY <1>1 DEF TInv, Contents, Durable
<1> QED BY <1>1, <1>4, <1>5 DEF TInv, Contents, LogTail

\* Such steps are these.
LEMMA KeepingSteps ==
    ASSUME TInv, TypeOK', Control',
           CompactNext \/ CompactFail \/ TxnBegin \/ TxnRollback \/ (\E o \in TxnOp : TxnBufOp(o))
             \/ TxnAppendFail \/ Consolidate \/ Close \/ EndClose
    PROVE  Contents'
<1>0. TypeOK /\ Control /\ LogTail /\ Memory /\ SavedFile /\ Recovery
  BY DEF TInv, Contents
<1>1. /\ UNCHANGED <<file, wal, twal, tsynced, facts, byTxn, stale>>
      /\ pc # "marker" /\ pc' # "marker" /\ pc # "down" /\ pc' # "append" /\ pc' # "saved"
      /\ Applying' <=> Applying
      /\ Applying => txn' = txn /\ pos' = pos
      /\ pc' # "down" => mem' = mem
  BY <1>0 DEF CompactNext, CompactFail, TxnBegin, TxnRollback, TxnBufOp, TxnAppendFail, Consolidate,
              Close, EndClose, Forget, TxnDiscard, disk, history, Applying, TypeOK
<1>2. Logs' /\ Durable' /\ (Applying' => tsynced' = Len(twal') /\ SettledEnd' = Len(twal'))
  BY <1>1, DiskAndHistoryKept
<1>3. SettledEnd' = SettledEnd
  BY <1>1, SettledKept
<1>4. LogTail' /\ SavedFile'
  BY <1>1, <1>2 DEF LogTail, SavedFile
<1>5. Memory'
  <2>1. Applying => Records(txn)' = Records(txn)
    BY <1>1
  <2> QED BY <1>0, <1>1, <2>1 DEF Memory
<1>6. Recovery'
  <2>1. CASE CompactNext
    <3>1. Replaying' => pc = "replay" /\ pc' = "compact" /\ UNCHANGED <<mem, failed>>
          /\ \A r \in todo : r \in todo' \/ r = cur'
      BY <1>0, <2>1 DEF CompactNext, Replaying
    <3> QED BY <1>0, <1>1, <1>3, <3>1 DEF Recovery, Replaying
  <2>2. CASE CompactFail
    <3>1. Replaying' => Replaying /\ failed'
      BY <1>0, <2>2 DEF CompactFail, Replaying
    <3> QED BY <1>0, <1>1, <1>3, <3>1 DEF Recovery
  <2>3. CASE ~CompactNext /\ ~CompactFail
    <3>1. ~Replaying'
      BY <2>3 DEF TxnBegin, TxnRollback, TxnBufOp, TxnAppendFail, Consolidate,
                  Close, EndClose, Forget, TxnDiscard, Replaying
    <3> QED BY <3>1 DEF Recovery
  <2> QED BY <2>1, <2>2, <2>3
<1> QED BY <1>2, <1>4, <1>5, <1>6 DEF Contents

(***************************************************************************)
(* A compaction: the file becomes what memory holds, then the log goes.    *)
(***************************************************************************)
LEMMA SaveStep ==
    ASSUME TInv, TypeOK', Control', CompactSave
    PROVE  Contents'
<1>0. TypeOK /\ Control /\ LogTail /\ Logs /\ Memory /\ Recovery /\ Durable
  BY DEF TInv, Contents
<1>1. /\ pc = "compact" /\ pc' = "saved"
      /\ file' = (file \ FactsOf(cur)) \cup (mem \cap FactsOf(cur))
      /\ UNCHANGED <<mem, txn, pos, todo, cur, back, failed, wal, twal, tsynced, facts, byTxn, stale>>
      /\ Applying' <=> Applying
      /\ Replaying' <=> Replaying
  BY DEF CompactSave, history, Applying, Replaying
<1>2. SettledEnd' = SettledEnd /\ Settled' = Settled /\ Goal' = Goal
  BY <1>1, SettledKept DEF Goal
<1>3. \A f \in Facts : f \in file' <=> IF RelOf[f] = cur THEN f \in mem ELSE f \in file
  BY <1>1 DEF FactsOf
<1>4. \A f \in Facts : ~Touches(Settled, f) => (f \in mem <=> f \in Goal) /\ (f \in mem <=> f \in facts)
  BY <1>0, <1>1, MemoryIsGoal
<1>5. Logs'
  <2>1. ASSUME NEW f \in Facts \ stale
        PROVE  f \in Goal <=> IF Touches(Settled, f) THEN LastIsAdd(Settled, f) ELSE InWal(f)'
    <3>1. f \in Goal <=> IF Touches(Settled, f) THEN LastIsAdd(Settled, f) ELSE InWal(f)
      BY <1>0 DEF Logs
    <3>2. InWal(f) <=> LastIsAdd(wal[RelOf[f]], f) \/ (f \in file /\ ~Touches(wal[RelOf[f]], f))
      BY ReplayOne DEF InWal
    <3>3. InWal(f)' <=> LastIsAdd(wal[RelOf[f]], f) \/ (f \in file' /\ ~Touches(wal[RelOf[f]], f))
      BY <1>1, ReplayOne DEF InWal
    <3>4. CASE RelOf[f] # cur
      BY <1>3, <3>1, <3>2, <3>3, <3>4
    <3>5. CASE RelOf[f] = cur /\ ~Touches(Settled, f)
      <4>1. f \in file' <=> f \in Goal
        BY <1>3, <1>4, <3>5
      <4>2. LastIsAdd(wal[RelOf[f]], f) => Touches(wal[RelOf[f]], f)
        BY ReplayOne
      <4> QED BY <3>1, <3>2, <3>3, <3>5, <4>1, <4>2
    <3>6. CASE Touches(Settled, f)
      BY <3>1, <3>6
    <3> QED BY <3>4, <3>5, <3>6
  <2>2. \A f \in Facts \ stale' :
           f \in Goal' <=> IF Touches(Settled', f) THEN LastIsAdd(Settled', f) ELSE InWal(f)'
    BY <1>1, <1>2, <2>1
  <2>3. Applying' =>
           \A f \in Touched(Records(txn)') :
              /\ Touches(Settled', f)
              /\ LastIsAdd(Settled', f) <=> LastIsAdd(Records(txn)', f)
    BY <1>0, <1>1, <1>2 DEF Logs
  <2> QED BY <2>2, <2>3 DEF Logs
<1>6. Durable'
  <2>1. \A f \in byTxn : ~Touches(Settled, f) =>
           ~Touches(wal[RelOf[f]], f) /\ (f \in file' <=> f \in facts)
    BY <1>0, <1>3, <1>4 DEF Durable, TypeOK
  <2> QED BY <1>0, <1>1, <1>2, <2>1 DEF Durable
<1>7. LogTail'
  BY <1>0, <1>1, <1>2 DEF LogTail
<1>8. Memory'
  BY <1>0, <1>1 DEF Memory
<1>9. SavedFile'
  BY <1>1, <1>3 DEF SavedFile, FactsOf
<1>10. Recovery'
  BY <1>0, <1>1, <1>2, <1>3 DEF Recovery
<1> QED BY <1>5, <1>6, <1>7, <1>8, <1>9, <1>10 DEF Contents

\* Dropping the WAL of a compacted relation: its file holds what memory holds.
LEMMA TruncateStep ==
    ASSUME TInv, TypeOK', Control', CompactTruncate
    PROVE  Contents'
<1>0. TypeOK /\ Control /\ LogTail /\ Logs /\ Memory /\ SavedFile /\ Recovery /\ Durable
  BY DEF TInv, Contents
<1>1. /\ pc = "saved" /\ pc' = back /\ pc' \in {"idle", "apply", "replay", "close"}
      /\ wal' = [wal EXCEPT ![cur] = <<>>]
      /\ UNCHANGED <<mem, txn, pos, todo, failed, file, twal, tsynced, facts, byTxn, stale>>
      /\ Applying' <=> Applying
      /\ Replaying' <=> Replaying
  BY <1>0 DEF CompactTruncate, history, Applying, Replaying, TypeOK
<1>2. SettledEnd' = SettledEnd /\ Settled' = Settled /\ Goal' = Goal
  BY <1>1, SettledKept DEF Goal
<1>3. \A f \in Facts : wal'[RelOf[f]] = IF RelOf[f] = cur THEN <<>> ELSE wal[RelOf[f]]
  BY <1>0, <1>1, RelOfAssumption DEF TypeOK
<1>4. \A f \in Facts : ~Touches(Settled, f) => (f \in mem <=> f \in Goal) /\ (f \in mem <=> f \in facts)
  BY <1>0, <1>1, MemoryIsGoal
<1>a. \A f \in Facts : RelOf[f] = cur => (f \in file <=> f \in mem)
  BY <1>0, <1>1 DEF SavedFile, FactsOf
<1>b. \A f : ~Touches(<<>>, f) /\ ~LastIsAdd(<<>>, f)
  BY ReplayOne
<1>5. Logs'
  <2>1. ASSUME NEW f \in Facts \ stale
        PROVE  f \in Goal <=> IF Touches(Settled, f) THEN LastIsAdd(Settled, f) ELSE InWal(f)'
    <3>1. f \in Goal <=> IF Touches(Settled, f) THEN LastIsAdd(Settled, f) ELSE InWal(f)
      BY <1>0 DEF Logs
    <3>2. InWal(f)' <=> f \in Replay(file, wal'[RelOf[f]])
      BY <1>1 DEF InWal
    <3>3. CASE RelOf[f] # cur
      BY <1>3, <3>1, <3>2, <3>3 DEF InWal
    <3>4. CASE RelOf[f] = cur
      <4>1. InWal(f)' <=> f \in mem
        BY <1>3, <1>a, <1>b, <3>2, <3>4, ReplayOne
      <4> QED BY <1>4, <3>1, <4>1
    <3> QED BY <3>3, <3>4
  <2>2. \A f \in Facts \ stale' :
           f \in Goal' <=> IF Touches(Settled', f) THEN LastIsAdd(Settled', f) ELSE InWal(f)'
    BY <1>1, <1>2, <2>1
  <2>3. Applying' =>
           \A f \in Touched(Records(txn)') :
              /\ Touches(Settled', f)
              /\ LastIsAdd(Settled', f) <=> LastIsAdd(Records(txn)', f)
    BY <1>0, <1>1, <1>2 DEF Logs
  <2> QED BY <2>2, <2>3 DEF Logs
<1>6. Durable'
  <2>1. \A f \in byTxn : ~Touches(Settled, f) =>
           ~Touches(wal'[RelOf[f]], f) /\ (f \in file <=> f \in facts)
    BY <1>0, <1>3, <1>b DEF Durable, TypeOK
  <2> QED BY <1>0, <1>1, <1>2, <2>1 DEF Durable
<1>7. LogTail'
  BY <1>0, <1>1, <1>2 DEF LogTail
<1>8. Memory'
  BY <1>0, <1>1 DEF Memory
<1>9. SavedFile'
  BY <1>1 DEF SavedFile
<1>10. Recovery'
  <2> SUFFICES ASSUME Replaying' PROVE Recovery'
    BY DEF Recovery
  <2>1. Replaying /\ pc' = "replay"
    BY <1>1 DEF Replaying
  <2>2. ASSUME ~failed, NEW f \in Facts, Touches(twal, f)
        PROVE  \/ RelOf[f] \in todo
               \/ wal'[RelOf[f]] = <<>> /\ (f \in file <=> f \in mem)
    BY <1>0, <1>3, <1>a, <2>1, <2>2 DEF Recovery
  <2> QED BY <1>0, <1>1, <1>2, <2>1, <2>2 DEF Recovery
<1> QED BY <1>5, <1>6, <1>7, <1>8, <1>9, <1>10 DEF Contents

-----------------------------------------------------------------------------
(***************************************************************************)
(* Opening txn.wal for reading or writing cuts what follows its last       *)
(* marker (txnwalCommittedEnd), which settles nothing new.                 *)
(***************************************************************************)
LEMMA CutToMarker ==
    ASSUME TypeOK, Control, LogTail, Durable, pc # "marker", pc' # "marker",
           twal' = Committed(twal),
           tsynced' = IF tsynced <= Len(twal') THEN tsynced ELSE Len(twal')
    PROVE  /\ SettledEnd' = SettledEnd /\ Settled' = Settled /\ twal' = Settled
           /\ Len(twal') = SettledEnd /\ tsynced' <= SettledEnd
           /\ tsynced' >= SettledEnd \/ tsynced' = 0 \/ twal'[tsynced'].op = "commit"
           /\ \A i \in (tsynced' + 1)..SettledEnd : twal'[i].f \notin byTxn
<1>1. /\ SettledEnd \in 0..Len(twal) /\ Settled = Committed(twal) /\ SettledEnd = CommittedEnd(twal)
      /\ twal \in Seq(TxnRec)
  BY SettledFacts
<1>2. PICK cut : /\ cut = Committed(twal) /\ Len(cut) = SettledEnd
                 /\ CommittedEnd(cut) = SettledEnd /\ Committed(cut) = cut
                 /\ \A i \in 1..SettledEnd : cut[i] = twal[i]
  BY <1>1, EndOfCommitted
<1>3. twal' = cut /\ SettledEnd' = SettledEnd /\ Settled' = cut
  BY <1>2 DEF SettledEnd, Settled, Committed
<1>4. tsynced \in Nat /\ SettledEnd \in Nat
  BY <1>1 DEF TypeOK
<1>5. tsynced' <= SettledEnd /\ tsynced' \in Nat /\ (tsynced' = tsynced \/ tsynced' = SettledEnd)
  BY <1>2, <1>3, <1>4
<1>6. tsynced' >= SettledEnd \/ tsynced' = 0 \/ twal'[tsynced'].op = "commit"
  BY <1>2, <1>3, <1>4, <1>5 DEF Durable
<1>7. \A i \in (tsynced' + 1)..SettledEnd : twal'[i].f \notin byTxn
  <2> SUFFICES ASSUME NEW i \in (tsynced' + 1)..SettledEnd PROVE twal'[i].f \notin byTxn
    OBVIOUS
  <2>1. tsynced' = tsynced /\ i \in 1..SettledEnd
    BY <1>4, <1>5
  <2> QED BY <1>2, <1>3, <2>1 DEF Durable
<1> QED BY <1>1, <1>2, <1>3, <1>5, <1>6, <1>7

\* dl_open: the recovered contents are the new facts, and nothing is in doubt any more.
LEMMA OpenStep ==
    ASSUME TInv, TypeOK', Control', Open
    PROVE  Contents'
<1>0. TypeOK /\ Control /\ LogTail /\ Durable
  BY DEF TInv, Contents
<1>1. /\ pc = "down" /\ pc' = "replay" /\ twal' = Committed(twal)
      /\ tsynced' = IF tsynced <= Len(twal') THEN tsynced ELSE Len(twal')
      /\ mem' = Recovered(wal, twal) /\ facts' = mem' /\ stale' = {}
      /\ todo' = {RelOf[f] : f \in Touched(twal')}
      /\ UNCHANGED <<txn, pos, file, wal, byTxn>>
  BY DEF Open
<1>2. /\ SettledEnd' = SettledEnd /\ Settled' = Settled /\ twal' = Settled
      /\ Len(twal') = SettledEnd /\ tsynced' <= SettledEnd
      /\ tsynced' >= SettledEnd \/ tsynced' = 0 \/ twal'[tsynced'].op = "commit"
      /\ \A i \in (tsynced' + 1)..SettledEnd : twal'[i].f \notin byTxn
  BY <1>0, <1>1, CutToMarker
<1>3. ~Applying' /\ Goal' = facts'
  BY <1>1 DEF Applying, Goal
<1>4. \A f \in Facts : f \in facts' <=> IF Touches(Settled, f) THEN LastIsAdd(Settled, f) ELSE InWal(f)
  <2>1. Settled = Committed(twal)
    BY <1>1, <1>2
  <2>2. \A f \in Facts : f \in ReplayWals(wal) <=> InWal(f)
    BY DEF ReplayWals, InWal
  <2> QED BY <1>1, <2>1, <2>2, ReplayOne DEF Recovered
<1>5. \A f \in Facts : InWal(f)' <=> InWal(f)
  BY <1>1 DEF InWal
<1>6. Logs'
  <2>1. \A f \in Facts : f \in Goal' <=> IF Touches(Settled', f) THEN LastIsAdd(Settled', f) ELSE InWal(f)'
    BY <1>2, <1>3, <1>4, <1>5
  <2> QED BY <1>3, <2>1 DEF Logs
<1>7. Durable'
  <2>1. ASSUME NEW f \in byTxn, ~Touches(Settled, f)
        PROVE  ~Touches(wal[RelOf[f]], f) /\ (f \in file <=> f \in facts')
    <3>1. f \in Facts /\ ~Touches(wal[RelOf[f]], f)
      BY <1>0, <2>1 DEF Durable, TypeOK
    <3>2. InWal(f) <=> f \in file
      BY <3>1, ReplayOne DEF InWal
    <3> QED BY <1>4, <2>1, <3>1, <3>2
  <2> QED BY <1>1, <1>2, <2>1 DEF Durable
<1>8. LogTail' /\ Memory' /\ SavedFile'
  BY <1>1, <1>3 DEF LogTail, Memory, SavedFile
<1>9. Recovery'
  <2>1. \A f \in Facts : Touches(twal', f) => RelOf[f] \in todo'
    BY <1>1 DEF Touched
  <2> QED BY <1>1, <1>2, <2>1 DEF Recovery
<1> QED BY <1>6, <1>7, <1>8, <1>9 DEF Contents

(***************************************************************************)
(* The end of the recovery: nothing is lost with txn.wal.                  *)
(***************************************************************************)
LEMMA EndReplayStep ==
    ASSUME TInv, TypeOK', Control', EndReplay
    PROVE  Contents'
<1>0. TypeOK /\ Control /\ LogTail /\ Logs /\ Memory /\ Recovery /\ Durable
  BY DEF TInv, Contents
<1>1. /\ pc = "replay" /\ pc' = "idle" /\ todo = {}
      /\ UNCHANGED <<mem, txn, pos, file, wal, facts, byTxn, stale>>
      /\ ~Applying /\ ~Applying' /\ Replaying
  BY DEF EndReplay, history, Applying, Replaying
<1>2. CASE failed
  <2>1. twal' = twal /\ tsynced' = tsynced
    BY <1>2 DEF EndReplay
  <2>2. Logs' /\ Durable'
    BY <1>1, <2>1, DiskAndHistoryKept
  <2> QED BY <1>0, <1>1, <2>2 DEF Contents, LogTail, Memory, SavedFile, Recovery, Replaying, Applying
<1>3. CASE ~failed
  <2>1. twal' = <<>> /\ tsynced' = 0
    BY <1>3 DEF EndReplay
  <2>2. SettledEnd' = 0 /\ Settled' = <<>>
    <3>1. LastMarker(<<>>, 0) /\ Len(<<>>) = 0
      BY DEF LastMarker
    <3>2. CommittedEnd(<<>>) = 0
      BY <3>1, EndIs, EmptyTxnLog
    <3> QED BY <1>1, <2>1, <3>1, <3>2 DEF SettledEnd, Settled, Prefix
  <2>3. \A f : ~Touches(<<>>, f)
    BY ReplayOne
  <2>4. Settled = twal /\ stale = {} /\ mem = facts /\ Goal = facts
    <3>1. SettledEnd = Len(twal)
      BY <1>0, <1>1 DEF Recovery
    <3>2. Settled = twal
      BY <3>1, WholeLog DEF TypeOK, Settled, TInv
    <3> QED BY <1>0, <1>1, <3>2 DEF Recovery, Memory, Goal
  <2>5. \A f \in Facts : Touches(twal, f) => wal[RelOf[f]] = <<>> /\ (f \in file <=> f \in facts)
    BY <1>0, <1>1, <1>3, <2>4 DEF Recovery
  <2>6. \A f \in Facts : f \in facts <=> InWal(f)
    <3> SUFFICES ASSUME NEW f \in Facts PROVE f \in facts <=> InWal(f)
      OBVIOUS
    <3>1. CASE Touches(twal, f)
      BY <2>3, <2>5, <3>1, ReplayOne DEF InWal
    <3>2. CASE ~Touches(twal, f)
      BY <1>0, <2>4, <3>2 DEF Logs
    <3> QED BY <3>1, <3>2
  <2>7. Logs'
    <3>1. Goal' = facts /\ \A f \in Facts : InWal(f)' <=> InWal(f)
      BY <1>1 DEF Goal, InWal
    <3> QED BY <1>1, <2>2, <2>3, <2>6, <3>1 DEF Logs
  <2>8. Durable'
    <3>1. \A f \in byTxn : ~Touches(wal[RelOf[f]], f) /\ (f \in file <=> f \in facts)
      BY <1>0, <2>3, <2>4, <2>5 DEF Durable, TypeOK
    <3>2. (0 + 1)..0 = {}
      OBVIOUS
    <3> QED BY <1>0, <1>1, <2>1, <2>2, <3>1, <3>2 DEF Durable
  <2>9. LogTail' /\ Memory' /\ SavedFile' /\ Recovery'
    BY <1>1, <2>4 DEF LogTail, Memory, SavedFile, Recovery, Replaying
  <2> QED BY <2>7, <2>8, <2>9 DEF Contents
<1> QED BY <1>2, <1>3

-----------------------------------------------------------------------------
(***************************************************************************)
(* Logging a commit.                                                       *)
(***************************************************************************)
LEMMA ConcatFacts ==
    ASSUME NEW S, NEW log \in Seq(S)
    PROVE  /\ log \o <<>> = log
           /\ Prefix(log, 0) = <<>>
           /\ \A n \in 1..Len(log) : Prefix(log, n) = Append(Prefix(log, n - 1), log[n])
<1>1. log \o <<>> = log
  OBVIOUS
<1>2. Prefix(log, 0) = <<>>
  BY DEF Prefix
<1>3. ASSUME NEW n \in 1..Len(log) PROVE Prefix(log, n) = Append(Prefix(log, n - 1), log[n])
  BY DEF Prefix
<1> QED BY <1>1, <1>2, <1>3

\* One record more is a log of one record behind it.
LEMMA AppendIsJoin ==
    ASSUME NEW S, NEW log \in Seq(S), NEW rec \in S
    PROVE  /\ Append(log, rec) = log \o <<rec>> /\ <<rec>> \in Seq(S)
           /\ Len(Append(log, rec)) = Len(log) + 1
           /\ \A i \in 1..Len(log) : Append(log, rec)[i] = log[i]
  OBVIOUS

\* dl_txn_commit starts with a log that is committed throughout.
LEMMA CommitStep ==
    ASSUME TInv, TypeOK', Control', TxnCommit
    PROVE  Contents'
<1>0. TypeOK /\ Control /\ LogTail /\ Logs /\ Memory /\ Durable
  BY DEF TInv, Contents
<1>1. /\ pc = "txn" /\ pc' = "append" /\ twal' = Committed(twal)
      /\ tsynced' = IF tsynced <= Len(twal') THEN tsynced ELSE Len(twal')
      /\ UNCHANGED <<mem, txn, pos, file, wal, facts, byTxn, stale>>
      /\ ~Applying /\ ~Applying' /\ ~Replaying'
  BY DEF TxnCommit, history, Applying, Replaying
<1>2. /\ SettledEnd' = SettledEnd /\ Settled' = Settled /\ twal' = Settled
      /\ Len(twal') = SettledEnd /\ tsynced' <= SettledEnd
      /\ tsynced' >= SettledEnd \/ tsynced' = 0 \/ twal'[tsynced'].op = "commit"
      /\ \A i \in (tsynced' + 1)..SettledEnd : twal'[i].f \notin byTxn
  BY <1>0, <1>1, CutToMarker
<1>3. Goal = facts /\ Goal' = facts /\ \A f \in Facts : InWal(f)' <=> InWal(f)
  BY <1>1 DEF Goal, InWal
<1>4. Logs'
  BY <1>0, <1>1, <1>2, <1>3 DEF Logs
<1>5. Durable'
  BY <1>0, <1>1, <1>2 DEF Durable
<1>6. twal' = Settled \o Prefix(Records(txn), pos - 1)
  <2>1. pos - 1 = 0 /\ Records(txn) \in Seq(FactRec)
    BY <1>0, <1>1, BufferTypes DEF Control
  <2>2. Prefix(Records(txn), 0) = <<>>
    BY <2>1, ConcatFacts
  <2>3. Settled \o <<>> = Settled
    BY <1>0, SettledFacts, ConcatFacts
  <2> QED BY <1>2, <2>1, <2>2, <2>3
<1>7. LogTail'
  BY <1>1, <1>2, <1>6 DEF LogTail
<1>8. Memory' /\ SavedFile' /\ Recovery'
  BY <1>0, <1>1 DEF Memory, SavedFile, Recovery
<1> QED BY <1>4, <1>5, <1>7, <1>8 DEF Contents

(***************************************************************************)
(* A record or a marker behind the settled part leaves it as it is.        *)
(***************************************************************************)
LEMMA LoggingStep ==
    ASSUME TInv, TypeOK', Control', TxnAppend \/ TxnMarker
    PROVE  Contents'
<1> DEFINE ops == Records(txn)
<1>0. TypeOK /\ Control /\ LogTail /\ Logs /\ Memory /\ Durable
  BY DEF TInv, Contents
<1>1. /\ pc = "append" /\ pc' \in {"append", "marker"}
      /\ UNCHANGED <<mem, txn, file, wal, tsynced, facts, byTxn, stale>>
      /\ ~Applying /\ ~Applying' /\ ~Replaying'
  BY DEF TxnAppend, TxnMarker, history, Applying, Replaying
<1>2. /\ SettledEnd \in 0..Len(twal) /\ Len(twal) \in Nat /\ twal \in Seq(TxnRec)
      /\ Settled \in Seq(TxnRec) /\ Len(Settled) = SettledEnd
      /\ SettledEnd = 0 \/ twal[SettledEnd].op = "commit"
      /\ SettledEnd = CommittedEnd(twal) /\ Settled = Committed(twal)
      /\ \A i \in 1..SettledEnd : Settled[i] = twal[i]
  BY <1>0, <1>1, SettledFacts
<1>3. /\ ops \in Seq(FactRec) /\ Len(ops) \in Nat /\ pos \in Nat /\ pos >= 1 /\ pos <= Len(ops) + 1
      /\ Prefix(ops, pos - 1) \in Seq(FactRec) /\ Len(Prefix(ops, pos - 1)) = pos - 1
  <2>1. ops \in Seq(FactRec) /\ Len(ops) \in Nat /\ pos \in Nat /\ pos >= 1 /\ pos <= Len(ops) + 1
    BY <1>0, BufferTypes
  <2>2. pos - 1 \in 0..Len(ops)
    BY <2>1
  <2> QED BY <2>1, <2>2, CutLog
<1>4. twal = Settled \o Prefix(ops, pos - 1) /\ tsynced <= SettledEnd /\ tsynced \in Nat
  BY <1>0, <1>1 DEF LogTail, TypeOK
<1>5. /\ SettledEnd' = SettledEnd /\ Settled' = Settled
      /\ \A i \in 1..SettledEnd : twal'[i] = twal[i]
      /\ pc' = "append" => twal' = Settled \o Prefix(ops, pos' - 1)
      /\ pc' = "marker" => twal' = (Settled \o ops) \o <<CommitRec>>
  <2>1. CASE TxnAppend
    <3>1. pc' = "append" /\ twal' = Append(twal, ops[pos]) /\ pos' = pos + 1 /\ pos \in 1..Len(ops)
      BY <1>3, <2>1 DEF TxnAppend
    <3>2. ops[pos] \in FactRec /\ <<ops[pos]>> \in Seq(FactRec) /\ ops[pos] \in TxnRec
      BY <1>3, <3>1, RecordsAreLogged
    <3>3. PICK last \in Seq(FactRec) : last = <<ops[pos]>> /\ twal' = twal \o last
      <4>1. Append(twal, ops[pos]) = twal \o <<ops[pos]>>
        BY <1>2, <3>2, AppendIsJoin
      <4> QED BY <3>1, <3>2, <4>1, Zenon
    <3>4. CommittedEnd(twal') = CommittedEnd(twal) /\ Committed(twal') = Committed(twal)
      BY <1>2, <3>3, EndOfJoin
    <3>5. \A i \in 1..SettledEnd : twal'[i] = twal[i]
      BY <1>2, <3>1, <3>2
    <3>6. twal' = Settled \o Prefix(ops, pos' - 1)
      <4>1. Prefix(ops, pos) = Append(Prefix(ops, pos - 1), ops[pos]) /\ pos' - 1 = pos
        BY <1>3, <3>1, ConcatFacts
      <4>2. Prefix(ops, pos - 1) \in Seq(TxnRec)
        BY <1>3, RecordsAreLogged
      <4>3. Append(Settled \o Prefix(ops, pos - 1), ops[pos]) = Settled \o Append(Prefix(ops, pos - 1), ops[pos])
        <5>1. PICK log \in Seq(TxnRec), more \in Seq(TxnRec), rec \in TxnRec :
                 log = Settled /\ more = Prefix(ops, pos - 1) /\ rec = ops[pos]
          BY <1>2, <3>2, <4>2
        <5>2. Append(log \o more, rec) = log \o Append(more, rec)
          BY <5>1
        <5> QED BY <5>1, <5>2
      <4> QED BY <1>4, <3>1, <4>1, <4>3
    <3>7. SettledEnd' = SettledEnd /\ Settled' = Settled
      BY <1>1, <1>2, <3>1, <3>4 DEF SettledEnd, Settled, Committed
    <3> QED BY <3>1, <3>5, <3>6, <3>7
  <2>2. CASE TxnMarker
    <3>1. pc' = "marker" /\ twal' = Append(twal, CommitRec) /\ pos' = pos /\ pos - 1 = Len(ops)
      BY <1>3, <2>2 DEF TxnMarker
    <3>2. Prefix(ops, pos - 1) = ops
      BY <1>3, <3>1, WholeLog
    <3>3. twal = Settled \o ops /\ CommitRec \in TxnRec /\ ops \in Seq(TxnRec)
      BY <1>3, <1>4, <3>2, RecordsAreLogged
    <3>4. twal' = (Settled \o ops) \o <<CommitRec>>
      <4>1. Append(twal, CommitRec) = twal \o <<CommitRec>>
        BY <1>2, <3>3, AppendIsJoin
      <4> QED BY <3>1, <3>3, <4>1, Zenon
    <3>5. Len(twal) = SettledEnd + Len(ops) /\ Len(twal') = Len(twal) + 1
          /\ \A i \in 1..Len(twal) : twal'[i] = twal[i]
      <4>1. Len(Settled \o ops) = Len(Settled) + Len(ops)
        BY <1>2, <3>3, JoinedLog
      <4>2. /\ Len(Append(twal, CommitRec)) = Len(twal) + 1
            /\ \A i \in 1..Len(twal) : Append(twal, CommitRec)[i] = twal[i]
        BY <1>2, <3>3, AppendIsJoin
      <4> QED BY <1>2, <3>1, <3>3, <4>1, <4>2, Zenon
    <3>6. SettledEnd' = SettledEnd
      <4>1. SettledEnd' = Len(twal') - (Len(ops) + 1)
        BY <1>1, <3>1 DEF SettledEnd
      <4> QED BY <1>2, <1>3, <3>5, <4>1
    <3>7. Settled' = Settled
      <4>1. Prefix(twal', SettledEnd) = Prefix(twal, SettledEnd)
        <5>1. PICK rec \in TxnRec : twal' = twal \o <<rec>> /\ <<rec>> \in Seq(TxnRec)
          BY <1>2, <3>1, <3>3, AppendIsJoin
        <5> QED BY <1>2, <5>1, JoinedLog
      <4> QED BY <3>6, <4>1 DEF Settled
    <3>8. \A i \in 1..SettledEnd : twal'[i] = twal[i]
      BY <1>2, <3>5
    <3> QED BY <3>1, <3>4, <3>6, <3>7, <3>8
  <2> QED BY <2>1, <2>2
<1>6. Goal = facts /\ Goal' = facts /\ \A f \in Facts : InWal(f)' <=> InWal(f)
  BY <1>1 DEF Goal, InWal
<1>7. Logs'
  BY <1>0, <1>1, <1>5, <1>6 DEF Logs
<1>8. Durable'
  <2>1. tsynced >= SettledEnd \/ tsynced = 0 \/ twal'[tsynced].op = "commit"
    BY <1>0, <1>2, <1>4, <1>5 DEF Durable
  <2>2. \A i \in (tsynced + 1)..SettledEnd : twal'[i].f \notin byTxn
    <3>1. \A i \in (tsynced + 1)..SettledEnd : i \in 1..SettledEnd
      BY <1>2, <1>4
    <3> QED BY <1>0, <1>5, <3>1 DEF Durable
  <2> QED BY <1>0, <1>1, <1>5, <2>1, <2>2 DEF Durable
<1>9. LogTail'
  <2>1. SettledEnd' >= 0 /\ tsynced' <= SettledEnd' /\ Records(txn)' = ops
    <3>1. SettledEnd >= 0 /\ tsynced <= SettledEnd
      BY <1>2, <1>4
    <3> QED BY <1>1, <1>5, <3>1
  <2>2. SettledEnd = 0 \/ twal'[SettledEnd].op = "commit"
    BY <1>2, <1>5
  <2> QED BY <1>1, <1>5, <2>1, <2>2 DEF LogTail
<1>10. Memory' /\ SavedFile' /\ Recovery'
  BY <1>0, <1>1 DEF Memory, SavedFile, Recovery
<1> QED BY <1>7, <1>8, <1>9, <1>10 DEF Contents

-----------------------------------------------------------------------------
(***************************************************************************)
(* Once the commit in flight no longer waits for its fsync, its records    *)
(* are settled, behind what was settled before.                            *)
(***************************************************************************)
LEMMA MarkedLog ==
    ASSUME TypeOK, Control, LogTail, pc = "marker"
    PROVE  /\ CommittedEnd(twal) = Len(twal) /\ Committed(twal) = twal
           /\ Len(twal) = SettledEnd + Len(Records(txn)) + 1
           /\ \A i \in (SettledEnd + 1)..(Len(twal) - 1) :
                 twal[i].f \in Touched(Records(txn)) /\ twal[i].op # "commit"
           /\ twal[Len(twal)] = CommitRec
           /\ \A f \in Facts :
                /\ Touches(twal, f) <=> Touches(Settled, f) \/ Touches(Records(txn), f)
                /\ LastIsAdd(twal, f) <=> IF Touches(Records(txn), f) THEN LastIsAdd(Records(txn), f)
                                          ELSE LastIsAdd(Settled, f)
<1>1. /\ Records(txn) \in Seq(FactRec) /\ Records(txn) \in Seq(TxnRec)
      /\ Settled \in Seq(TxnRec) /\ Len(Settled) = SettledEnd /\ twal \in Seq(TxnRec)
      /\ SettledEnd \in Nat /\ Len(Records(txn)) \in Nat
  BY SettledFacts, BufferTypes, RecordsAreLogged
<1>2. PICK ops \in Seq(TxnRec), log \in Seq(TxnRec) : ops = Records(txn) /\ log = Settled
  BY <1>1
<1>3. PICK both \in Seq(TxnRec) :
         /\ both = log \o ops /\ Len(both) = Len(log) + Len(ops)
         /\ \A i \in (Len(log)+1)..(Len(log) + Len(ops)) : both[i] = ops[i - Len(log)]
  <2>1. /\ log \o ops \in Seq(TxnRec) /\ Len(log \o ops) = Len(log) + Len(ops)
        /\ \A i \in (Len(log)+1)..(Len(log) + Len(ops)) : (log \o ops)[i] = ops[i - Len(log)]
    BY <1>2, JoinedLog
  <2> QED BY <2>1, Zenon
<1>4. twal = both \o <<CommitRec>>
  BY <1>2, <1>3 DEF LogTail
<1>5. /\ Len(twal) = Len(both) + 1 /\ CommittedEnd(twal) = Len(both) + 1 /\ Committed(twal) = twal
  BY <1>3, <1>4, EndOfMarked
<1>6. PICK mark \in Seq(TxnRec) : mark = <<CommitRec>> /\ Len(mark) = 1 /\ mark[1] = CommitRec
  <2>1. CommitRec \in TxnRec
    BY RecordsAreLogged
  <2>2. <<CommitRec>> \in Seq(TxnRec) /\ Len(<<CommitRec>>) = 1 /\ <<CommitRec>>[1] = CommitRec
    BY <2>1
  <2> QED BY <2>2, Zenon
<1>7. \A i \in 1..Len(both) : twal[i] = both[i]
  BY <1>3, <1>4, <1>6, JoinedLog
<1>8. twal[Len(twal)] = CommitRec
  <2>1. \A i \in (Len(both)+1)..(Len(both) + Len(mark)) : (both \o mark)[i] = mark[i - Len(both)]
    BY JoinedLog
  <2>2. Len(both) + 1 \in (Len(both)+1)..(Len(both) + Len(mark)) /\ Len(both) + 1 - Len(both) = 1
    BY <1>6
  <2> QED BY <1>4, <1>5, <1>6, <2>1, <2>2
<1>9. \A i \in (SettledEnd + 1)..(Len(twal) - 1) :
         twal[i].f \in Touched(Records(txn)) /\ twal[i].op # "commit"
  <2> SUFFICES ASSUME NEW i \in (SettledEnd + 1)..(Len(twal) - 1)
               PROVE  twal[i].f \in Touched(Records(txn)) /\ twal[i].op # "commit"
    OBVIOUS
  <2>1. /\ i \in 1..Len(both) /\ i \in (Len(log)+1)..(Len(log) + Len(ops))
        /\ i - Len(log) \in 1..Len(ops)
    BY <1>1, <1>2, <1>3, <1>5
  <2>2. twal[i] = ops[i - Len(log)] /\ ops[i - Len(log)] \in FactRec
    BY <1>1, <1>2, <1>3, <1>7, <2>1
  <2>3. Touches(ops, twal[i].f)
    BY <2>1, <2>2 DEF Touches
  <2> QED BY <1>2, <2>2, <2>3, RecordsAreLogged DEF Touched
<1>10. ASSUME NEW f \in Facts
       PROVE  /\ Touches(twal, f) <=> Touches(log, f) \/ Touches(ops, f)
              /\ LastIsAdd(twal, f) <=> IF Touches(ops, f) THEN LastIsAdd(ops, f)
                                        ELSE LastIsAdd(log, f)
  <2>1. ~Touches(mark, f)
    BY <1>6, NoFactAssumption, RecordsAreLogged DEF Touches
  <2>2. /\ Touches(twal, f) <=> Touches(both, f) \/ Touches(mark, f)
        /\ LastIsAdd(twal, f) <=> IF Touches(mark, f) THEN LastIsAdd(mark, f)
                                  ELSE LastIsAdd(both, f)
    BY <1>4, <1>6, JoinRecords
  <2>3. /\ Touches(both, f) <=> Touches(log, f) \/ Touches(ops, f)
        /\ LastIsAdd(both, f) <=> IF Touches(ops, f) THEN LastIsAdd(ops, f)
                                  ELSE LastIsAdd(log, f)
    BY <1>3, JoinRecords
  <2> QED BY <2>1, <2>2, <2>3
<1> QED BY <1>1, <1>2, <1>3, <1>5, <1>8, <1>9, <1>10

\* When the marker counts, the log stands for the contents with the commit in them.
LEMMA MarkerSettles ==
    ASSUME TInv, pc = "marker", pc' # "marker", twal' = twal
    PROVE  /\ SettledEnd' = Len(twal) /\ Settled' = twal
           /\ \A f \in Facts :
                /\ Touches(Settled', f) <=> Touches(Settled, f) \/ Touches(Records(txn), f)
                /\ LastIsAdd(Settled', f) <=> IF Touches(Records(txn), f) THEN LastIsAdd(Records(txn), f)
                                              ELSE LastIsAdd(Settled, f)
           /\ ~Applying /\ Goal = facts
<1>1. TypeOK /\ Control /\ LogTail
  BY DEF TInv, Contents
<1>2. SettledEnd' = Len(twal) /\ Settled' = twal
  <2>1. CommittedEnd(twal) = Len(twal) /\ Prefix(twal, Len(twal)) = twal
    BY <1>1, MarkedLog, WholeLog DEF TypeOK
  <2> QED BY <2>1 DEF SettledEnd, Settled
<1>3. ~Applying /\ Goal = facts
  BY DEF Applying, Goal
<1> QED BY <1>1, <1>2, <1>3, MarkedLog

(***************************************************************************)
(* The logs stand for the replayed commit as soon as it is settled.        *)
(***************************************************************************)
LEMMA MarkerLogs ==
    ASSUME TInv, pc = "marker", pc' # "marker", UNCHANGED <<file, wal, twal>>,
           NEW f \in Facts \ stale
    PROVE  f \in Replay(facts, Records(txn))
              <=> IF Touches(Settled', f) THEN LastIsAdd(Settled', f) ELSE InWal(f)'
<1>1. f \in facts <=> IF Touches(Settled, f) THEN LastIsAdd(Settled, f) ELSE InWal(f)
  BY MarkerSettles DEF TInv, Contents, Logs
<1>2. InWal(f)' <=> InWal(f)
  BY DEF InWal
<1>3. /\ Touches(Settled', f) <=> Touches(Settled, f) \/ Touches(Records(txn), f)
      /\ LastIsAdd(Settled', f) <=> IF Touches(Records(txn), f) THEN LastIsAdd(Records(txn), f)
                                    ELSE LastIsAdd(Settled, f)
  BY MarkerSettles
<1> QED BY <1>1, <1>2, <1>3, ReplayOne

\* The fsync makes the commit durable.
LEMMA SyncStep ==
    ASSUME TInv, TypeOK', Control', TxnSync
    PROVE  Contents'
<1>0. TypeOK /\ Control /\ LogTail /\ Logs /\ Memory /\ Durable
  BY DEF TInv, Contents
<1>1. /\ pc = "marker" /\ pc' = "apply" /\ tsynced' = Len(twal) /\ pos' = 1
      /\ UNCHANGED <<mem, txn, file, wal, twal, facts, byTxn, stale>>
      /\ Applying' /\ ~Replaying'
  BY DEF TxnSync, history, Applying, Replaying
<1>2. /\ SettledEnd' = Len(twal) /\ Settled' = twal
      /\ \A f \in Facts :
            /\ Touches(Settled', f) <=> Touches(Settled, f) \/ Touches(Records(txn), f)
            /\ LastIsAdd(Settled', f) <=> IF Touches(Records(txn), f) THEN LastIsAdd(Records(txn), f)
                                          ELSE LastIsAdd(Settled, f)
      /\ ~Applying
  BY <1>1, MarkerSettles
<1>3. Goal' = Replay(facts, Records(txn)) /\ Records(txn)' = Records(txn)
  BY <1>1 DEF Goal
<1>4. Logs'
  <2>1. \A f \in Facts \ stale :
           f \in Replay(facts, Records(txn))
              <=> IF Touches(Settled', f) THEN LastIsAdd(Settled', f) ELSE InWal(f)'
    BY <1>1, MarkerLogs
  <2> QED BY <1>1, <1>2, <1>3, <2>1 DEF Logs, Touched
<1>5. Durable'
  <2>1. Len(twal) \in Nat /\ (Len(twal) + 1)..Len(twal) = {}
    BY <1>0 DEF TypeOK
  <2>2. \A f \in byTxn : ~Touches(Settled', f) =>
           ~Touches(wal[RelOf[f]], f) /\ (f \in file <=> f \in facts)
    BY <1>0, <1>2 DEF Durable, TypeOK
  <2> QED BY <1>0, <1>1, <1>2, <2>1, <2>2 DEF Durable
<1>6. LogTail'
  BY <1>1, <1>2 DEF LogTail
<1>7. Memory'
  <2>1. mem = facts /\ facts \subseteq Facts
    BY <1>0, <1>1, <1>2 DEF Memory, TypeOK
  <2>2. Prefix(Records(txn), 0) = <<>> /\ 1 - 1 = 0
    BY <1>0, BufferTypes, ConcatFacts
  <2>3. Replay(facts, <<>>) = facts
    BY <2>1, ReplayEmpty
  <2> QED BY <1>1, <1>3, <2>1, <2>2, <2>3 DEF Memory
<1>8. SavedFile' /\ Recovery'
  BY <1>1 DEF SavedFile, Recovery
<1> QED BY <1>4, <1>5, <1>6, <1>7, <1>8 DEF Contents

(***************************************************************************)
(* A marker that was not fsync'd ends an attempt nobody acknowledged.      *)
(***************************************************************************)
LEMMA UnsyncedMarker ==
    ASSUME TInv, pc = "marker", pc' # "marker", UNCHANGED <<twal, tsynced>>,
           byTxn' = byTxn \ Touched(Records(txn))
    PROVE  /\ tsynced' >= SettledEnd' \/ tsynced' = 0 \/ twal'[tsynced'].op = "commit"
           /\ \A i \in (tsynced' + 1)..SettledEnd' : twal'[i].f \notin byTxn'
<1>1. TypeOK /\ Control /\ LogTail /\ Durable
  BY DEF TInv, Contents
<1>2. /\ SettledEnd \in Nat /\ Len(twal) \in Nat /\ tsynced \in Nat /\ tsynced <= SettledEnd
      /\ SettledEnd = 0 \/ twal[SettledEnd].op = "commit"
  BY <1>1, SettledFacts DEF LogTail, TypeOK
<1>3. SettledEnd' = Len(twal)
  BY MarkerSettles
<1>4. tsynced = 0 \/ twal[tsynced].op = "commit"
  BY <1>1, <1>2 DEF Durable
<1>5. ASSUME NEW i \in (tsynced + 1)..Len(twal) PROVE twal[i].f \notin byTxn'
  <2>1. CASE i \in (tsynced + 1)..SettledEnd
    BY <1>1, <2>1 DEF Durable
  <2>2. CASE i \in (SettledEnd + 1)..(Len(twal) - 1)
    BY <1>1, <2>2, MarkedLog
  <2>3. CASE i = Len(twal)
    BY <1>1, <2>3, MarkedLog, RecordsAreLogged, NoFactAssumption DEF TypeOK
  <2> QED BY <1>2, <2>1, <2>2, <2>3
<1> QED BY <1>3, <1>4, <1>5

\* A failed fsync puts the facts of the commit in doubt.
LEMMA SyncFailStep ==
    ASSUME TInv, TypeOK', Control', TxnSyncFail
    PROVE  Contents'
<1>0. TypeOK /\ Control /\ LogTail /\ Logs /\ Memory /\ Durable
  BY DEF TInv, Contents
<1>1. /\ pc = "marker" /\ pc' = "idle"
      /\ stale' = stale \cup Touched(Records(txn))
      /\ byTxn' = byTxn \ Touched(Records(txn))
      /\ UNCHANGED <<mem, file, wal, twal, tsynced, facts>>
      /\ ~Applying' /\ ~Replaying'
  BY DEF TxnSyncFail, TxnDiscard, disk, Applying, Replaying
<1>2. /\ SettledEnd' = Len(twal) /\ Settled' = twal
      /\ \A f \in Facts : Touches(Settled', f) <=> Touches(Settled, f) \/ Touches(Records(txn), f)
      /\ ~Applying /\ Goal = facts
  BY <1>1, MarkerSettles
<1>3. Goal' = facts
  BY <1>1 DEF Goal
<1>4. Logs'
  <2>1. ASSUME NEW f \in Facts \ stale'
        PROVE  f \in facts <=> IF Touches(Settled', f) THEN LastIsAdd(Settled', f) ELSE InWal(f)'
    <3>1. f \in Facts \ stale /\ ~Touches(Records(txn), f)
      BY <1>1, <2>1 DEF Touched
    <3>2. f \in Replay(facts, Records(txn))
              <=> IF Touches(Settled', f) THEN LastIsAdd(Settled', f) ELSE InWal(f)'
      BY <1>1, <3>1, MarkerLogs
    <3> QED BY <3>1, <3>2, ReplayOne
  <2> QED BY <1>1, <1>3, <2>1 DEF Logs
<1>5. Durable'
  <2>1. /\ tsynced' >= SettledEnd' \/ tsynced' = 0 \/ twal'[tsynced'].op = "commit"
        /\ \A i \in (tsynced' + 1)..SettledEnd' : twal'[i].f \notin byTxn'
    BY <1>1, UnsyncedMarker
  <2>2. \A f \in byTxn' : ~Touches(Settled', f) =>
           ~Touches(wal[RelOf[f]], f) /\ (f \in file <=> f \in facts)
    BY <1>0, <1>1, <1>2 DEF Durable, TypeOK
  <2>3. byTxn' \cap stale' = {}
    BY <1>0, <1>1 DEF Durable
  <2> QED BY <1>1, <2>1, <2>2, <2>3 DEF Durable
<1>6. LogTail' /\ Memory' /\ SavedFile' /\ Recovery'
  BY <1>0, <1>1, <1>2 DEF LogTail, Memory, SavedFile, Recovery
<1> QED BY <1>4, <1>5, <1>6 DEF Contents

-----------------------------------------------------------------------------
(***************************************************************************)
(* Applying a commit in memory, one record at a time.                      *)
(***************************************************************************)
LEMMA ReplayBoth ==
    ASSUME NEW start \in SUBSET Facts, NEW cut \in Seq(FactRec), NEW g \in Facts
    PROVE  /\ Replay(start, Logged(cut, AddRec(g))) = Replay(start, cut) \cup {g}
           /\ Replay(start, Logged(cut, DelRec(g))) = Replay(start, cut) \ {g}
<1>1. Replay(start, Logged(cut, AddRec(g))) = Replay(start, cut) \cup {g}
  BY ReplayAppend
<1>2. Replay(start, Logged(cut, DelRec(g))) = Replay(start, cut) \ {g}
  BY ReplayAppend
<1> QED BY <1>1, <1>2

\* Replaying one record more.
LEMMA ReplayRecord ==
    ASSUME NEW start \in SUBSET Facts, NEW cut \in Seq(FactRec), NEW rec \in FactRec
    PROVE  Replay(start, Append(cut, rec)) =
              IF rec.op = "add" THEN Replay(start, cut) \cup {rec.f} ELSE Replay(start, cut) \ {rec.f}
<1>1. PICK g \in Facts : rec.f = g /\ (rec = AddRec(g) \/ rec = DelRec(g))
  <2>1. rec.f \in Facts /\ (rec = AddRec(rec.f) \/ rec = DelRec(rec.f))
    BY DEF FactRec, AddRec, DelRec
  <2> QED BY <2>1
<1>2. AddRec(g).op = "add" /\ DelRec(g).op = "del"
  BY DEF AddRec, DelRec
<1>3. Append(cut, rec) = Logged(cut, rec)
  BY DEF Logged
<1>4. /\ Replay(start, Logged(cut, AddRec(g))) = Replay(start, cut) \cup {g}
      /\ Replay(start, Logged(cut, DelRec(g))) = Replay(start, cut) \ {g}
  BY ReplayBoth
<1>5. CASE rec = AddRec(g)
  BY <1>1, <1>2, <1>3, <1>4, <1>5
<1>6. CASE rec = DelRec(g)
  BY <1>1, <1>2, <1>3, <1>4, <1>6
<1> QED BY <1>1, <1>5, <1>6

\* Memory after the applied part of a commit is the replay of that part.
LEMMA ApplyStep ==
    ASSUME TInv, TypeOK', Control', TxnApply
    PROVE  Contents'
<1> DEFINE ops == Records(txn)
<1>0. TypeOK /\ Control /\ Memory
  BY DEF TInv, Contents
<1>1. /\ pc = "apply" /\ pos' = pos + 1 /\ pos <= Len(ops)
      /\ mem' = IF ops[pos].op = "add" THEN mem \cup {ops[pos].f} ELSE mem \ {ops[pos].f}
      /\ UNCHANGED <<txn, file, wal, twal, tsynced, facts, byTxn, stale>>
  BY DEF TxnApply, disk, history
<1>2. (pc' = "apply") \/ (pc' = "compact" /\ back' = "apply")
  BY DEF TxnApply, MaybeCompact
<1>3. Applying /\ Applying' /\ ~Replaying' /\ pc' \notin {"saved", "append", "marker"}
  BY <1>1, <1>2 DEF Applying, Replaying
<1>4. Logs' /\ Durable' /\ tsynced' = Len(twal') /\ SettledEnd' = Len(twal')
  BY <1>1, <1>3, DiskAndHistoryKept
<1>5. Memory'
  <2>1. ops \in Seq(FactRec) /\ pos \in 1..Len(ops) /\ pos' - 1 = pos
    BY <1>0, <1>1, BufferTypes
  <2>2. facts \in SUBSET Facts
    BY <1>0 DEF TypeOK
  <2>3. Replay(facts, Prefix(ops, pos)) =
           IF ops[pos].op = "add" THEN Replay(facts, Prefix(ops, pos - 1)) \cup {ops[pos].f}
           ELSE Replay(facts, Prefix(ops, pos - 1)) \ {ops[pos].f}
    <3>1. ops[pos] \in FactRec /\ pos - 1 \in 0..Len(ops)
      BY <2>1
    <3>2. PICK cut \in Seq(FactRec) : cut = Prefix(ops, pos - 1)
      BY <2>1, <3>1, PrefixType
    <3>3. Prefix(ops, pos) = Append(cut, ops[pos])
      BY <2>1, <3>2, ConcatFacts
    <3>4. PICK rec \in FactRec : rec = ops[pos]
      BY <3>1
    <3>5. Replay(facts, Append(cut, rec)) =
             IF rec.op = "add" THEN Replay(facts, cut) \cup {rec.f} ELSE Replay(facts, cut) \ {rec.f}
      BY <2>2, ReplayRecord
    <3> QED BY <3>2, <3>3, <3>4, <3>5
  <2>4. mem = Replay(facts, Prefix(ops, pos - 1))
    BY <1>0, <1>1, <1>3 DEF Memory
  <2>5. mem' = Replay(facts, Prefix(ops, pos))
    BY <1>1, <2>3, <2>4
  <2> QED BY <1>1, <1>3, <2>1, <2>5 DEF Memory
<1>6. LogTail' /\ SavedFile' /\ Recovery'
  BY <1>3, <1>4 DEF LogTail, SavedFile, Recovery
<1> QED BY <1>4, <1>5, <1>6 DEF Contents

(***************************************************************************)
(* An applied commit is acknowledged, or taken as made by a kill.          *)
(***************************************************************************)
LEMMA ApplyEnds ==
    ASSUME TInv, TypeOK', Applying, ~Applying', ~Replaying', pc' \in {"idle", "down"},
           facts' = Replay(facts, Records(txn)),
           byTxn' = byTxn \cup Touched(Records(txn)), stale' = stale \ Touched(Records(txn)),
           UNCHANGED <<file, wal, twal, tsynced>>
    PROVE  Logs' /\ Durable' /\ LogTail' /\ SavedFile' /\ Recovery'
<1>0. TypeOK /\ Control /\ LogTail /\ Logs /\ Durable
  BY DEF TInv, Contents
<1>1. SettledEnd' = SettledEnd /\ Settled' = Settled
  BY SettledKept DEF Applying
<1>2. Goal' = Goal /\ Goal = facts' /\ \A f \in Facts : InWal(f)' <=> InWal(f)
  BY DEF Goal, InWal
<1>3. \A f \in Touched(Records(txn)) :
         /\ f \in Facts /\ Touches(Records(txn), f) /\ Touches(Settled, f)
         /\ LastIsAdd(Settled, f) <=> LastIsAdd(Records(txn), f)
  BY <1>0 DEF Logs, Touched
<1>4. Logs'
  <2>1. ASSUME NEW f \in Facts \ stale'
        PROVE  f \in facts' <=> IF Touches(Settled, f) THEN LastIsAdd(Settled, f) ELSE InWal(f)
    <3>1. CASE f \in Touched(Records(txn))
      BY <1>3, <3>1, ReplayOne
    <3>2. CASE f \notin Touched(Records(txn))
      BY <1>0, <1>2, <2>1, <3>2 DEF Logs
    <3> QED BY <3>1, <3>2
  <2> QED BY <1>1, <1>2, <2>1 DEF Logs
<1>5. Durable'
  <2>1. tsynced = Len(twal) /\ SettledEnd = Len(twal) /\ Len(twal) \in Nat
        /\ (Len(twal) + 1)..Len(twal) = {}
    BY <1>0 DEF LogTail, TypeOK
  <2>2. ASSUME NEW f \in byTxn', ~Touches(Settled, f)
        PROVE  ~Touches(wal[RelOf[f]], f) /\ (f \in file <=> f \in facts')
    <3>1. f \in byTxn /\ f \in Facts /\ f \notin Touched(Records(txn))
      BY <1>0, <1>3, <2>2 DEF TypeOK
    <3>2. f \in facts' <=> f \in facts
      BY <3>1, ReplayOne DEF Touched
    <3> QED BY <1>0, <2>2, <3>1, <3>2 DEF Durable
  <2>3. byTxn' \cap stale' = {}
    BY <1>0 DEF Durable
  <2> QED BY <1>1, <2>1, <2>2, <2>3 DEF Durable
<1>6. LogTail' /\ SavedFile' /\ Recovery'
  BY DEF LogTail, SavedFile, Recovery
<1> QED BY <1>4, <1>5, <1>6

\* dl_txn_commit returns 0: memory, logs and acknowledgement agree.
LEMMA DoneStep ==
    ASSUME TInv, TypeOK', Control', TxnDone
    PROVE  Contents'
<1>0. TypeOK /\ Control /\ Memory
  BY DEF TInv, Contents
<1>1. /\ pc = "apply" /\ pc' = "idle" /\ pos > Len(Records(txn)) /\ mem' = mem
      /\ facts' = Replay(facts, Records(txn))
      /\ byTxn' = byTxn \cup Touched(Records(txn)) /\ stale' = stale \ Touched(Records(txn))
      /\ UNCHANGED <<file, wal, twal, tsynced>>
  BY DEF TxnDone, TxnDiscard, disk
<1>2. Applying /\ ~Applying' /\ ~Replaying'
  BY <1>1 DEF Applying, Replaying
<1>3. Memory'
  <2>1. pos - 1 = Len(Records(txn)) /\ Prefix(Records(txn), Len(Records(txn))) = Records(txn)
    BY <1>0, <1>1, BufferTypes, WholeLog
  <2> QED BY <1>0, <1>1, <1>2, <2>1 DEF Memory
<1> QED BY <1>1, <1>2, <1>3, ApplyEnds DEF Contents

\* A kill leaves the files, which stand for the expected contents.
LEMMA KillStep ==
    ASSUME TInv, TypeOK', Control', Kill
    PROVE  Contents'
<1>0. TypeOK /\ Control /\ Durable
  BY DEF TInv, Contents
<1>1. pc' = "down" /\ UNCHANGED <<file, wal, twal, tsynced>>
  BY DEF Kill, Forget, disk
<1>2. ~Applying' /\ ~Replaying' /\ Memory' /\ (InFlight <=> pc = "marker" \/ Applying)
  BY <1>1 DEF Applying, Replaying, Memory, InFlight
<1>3. CASE Applying
  <2>1. InFlight /\ pc # "marker"
    BY <1>2, <1>3 DEF Applying
  <2>2. /\ facts' = Replay(facts, Records(txn))
        /\ byTxn' = byTxn \cup Touched(Records(txn)) /\ stale' = stale \ Touched(Records(txn))
    BY <2>1 DEF Kill, Expected
  <2> QED BY <1>1, <1>2, <1>3, <2>2, ApplyEnds DEF Contents
<1>4. CASE pc = "marker"
  <2>1. /\ facts' = Replay(facts, Records(txn))
        /\ byTxn' = byTxn \ Touched(Records(txn)) /\ stale' = stale \ Touched(Records(txn))
    BY <1>2, <1>4 DEF Kill, Expected
  <2>2. /\ SettledEnd' = Len(twal) /\ Settled' = twal
        /\ \A f \in Facts :
              /\ Touches(Settled', f) <=> Touches(Settled, f) \/ Touches(Records(txn), f)
              /\ LastIsAdd(Settled', f) <=> IF Touches(Records(txn), f) THEN LastIsAdd(Records(txn), f)
                                            ELSE LastIsAdd(Settled, f)
    BY <1>1, <1>4, MarkerSettles
  <2>3. Goal' = facts'
    BY <1>2 DEF Goal
  <2>4. Logs'
    <3>1. ASSUME NEW f \in Facts \ stale'
          PROVE  f \in facts' <=> IF Touches(Settled', f) THEN LastIsAdd(Settled', f) ELSE InWal(f)'
      <4>1. CASE Touches(Records(txn), f)
        BY <2>1, <2>2, <4>1, ReplayOne
      <4>2. CASE ~Touches(Records(txn), f)
        <5>1. f \in Facts \ stale
          BY <2>1, <3>1, <4>2 DEF Touched
        <5> QED BY <1>1, <1>4, <2>1, <5>1, MarkerLogs
      <4> QED BY <4>1, <4>2
    <3> QED BY <1>2, <2>3, <3>1 DEF Logs
  <2>5. Durable'
    <3>1. /\ tsynced' >= SettledEnd' \/ tsynced' = 0 \/ twal'[tsynced'].op = "commit"
          /\ \A i \in (tsynced' + 1)..SettledEnd' : twal'[i].f \notin byTxn'
      BY <1>1, <1>4, <2>1, UnsyncedMarker
    <3>2. ASSUME NEW f \in byTxn', ~Touches(Settled', f)
          PROVE  ~Touches(wal[RelOf[f]], f) /\ (f \in file <=> f \in facts')
      <4>1. f \in byTxn /\ f \in Facts /\ ~Touches(Settled, f) /\ ~Touches(Records(txn), f)
        BY <1>0, <2>1, <2>2, <3>2 DEF TypeOK
      <4>2. f \in facts' <=> f \in facts
        BY <2>1, <4>1, ReplayOne
      <4> QED BY <1>0, <4>1, <4>2 DEF Durable
    <3>3. byTxn' \cap stale' = {}
      BY <1>0, <2>1 DEF Durable
    <3> QED BY <1>1, <3>1, <3>2, <3>3 DEF Durable
  <2>6. LogTail' /\ SavedFile' /\ Recovery'
    BY <1>1, <1>2 DEF LogTail, SavedFile, Recovery
  <2> QED BY <1>2, <2>4, <2>5, <2>6 DEF Contents
<1>5. CASE ~Applying /\ pc # "marker"
  <2>1. UNCHANGED <<facts, byTxn, stale>>
    BY <1>2, <1>5 DEF Kill, Expected
  <2>2. Logs' /\ Durable'
    BY <1>1, <1>2, <1>5, <2>1, DiskAndHistoryKept
  <2>3. LogTail' /\ SavedFile' /\ Recovery'
    BY <1>1, <1>2 DEF LogTail, SavedFile, Recovery
  <2> QED BY <1>2, <2>2, <2>3 DEF Contents
<1> QED BY <1>3, <1>4, <1>5

-----------------------------------------------------------------------------
(***************************************************************************)
(* A cut of txn.wal at or behind its synced part takes no durable fact     *)
(* away: it ends the settled part where only facts of others follow, or it *)
(* spares the marker of the commit in flight.                              *)
(***************************************************************************)
LEMMA CutsKeepTxns ==
    ASSUME TypeOK, Control, LogTail, Durable, NEW n \in tsynced..Len(twal)
    PROVE  LET cut == Prefix(twal, n)
           IN  /\ cut \in Seq(TxnRec)
               /\ \/ /\ \A f \in byTxn : /\ Touches(Committed(cut), f) <=> Touches(Settled, f)
                                         /\ LastIsAdd(Committed(cut), f) <=> LastIsAdd(Settled, f)
                     /\ Applying => Committed(cut) = Settled
                  \/ pc = "marker" /\ cut = twal /\ Committed(cut) = twal
<1>1. /\ SettledEnd \in 0..Len(twal) /\ SettledEnd \in Nat /\ Len(twal) \in Nat /\ twal \in Seq(TxnRec)
      /\ SettledEnd = 0 \/ twal[SettledEnd].op = "commit"
      /\ tsynced \in Nat /\ n \in Nat /\ n \in 0..Len(twal) /\ tsynced <= n
  BY SettledFacts DEF TypeOK
<1>2. Prefix(twal, n) \in Seq(TxnRec)
  BY <1>1, CutLog
<1>3. PICK e : /\ e = CommittedEnd(Prefix(twal, n)) /\ e \in 0..n
               /\ e = 0 \/ twal[e].op = "commit"
               /\ \A k \in (e+1)..n : twal[k].op # "commit"
               /\ Committed(Prefix(twal, n)) = Prefix(twal, e)
  <2>1. LET e == CommittedEnd(Prefix(twal, n))
        IN  /\ e \in 0..n
            /\ e = 0 \/ twal[e].op = "commit"
            /\ \A k \in (e+1)..n : twal[k].op # "commit"
            /\ Committed(Prefix(twal, n)) = Prefix(twal, e)
    BY <1>1, EndOfCut
  <2> QED BY <2>1
<1>4. e \in Nat /\ e <= n
  BY <1>1, <1>3
<1>5. CASE pc = "marker" /\ n = Len(twal)
  <2>1. Prefix(twal, n) = twal /\ Committed(twal) = twal
    BY <1>1, <1>5, WholeLog, MarkedLog
  <2> QED BY <1>2, <1>5, <2>1
<1>6. CASE ~(pc = "marker" /\ n = Len(twal))
  <2>1. \A k \in (SettledEnd + 1)..n : twal[k].op # "commit"
    <3>1. CASE pc = "marker"
      <4>1. n <= Len(twal) - 1
        BY <1>1, <1>6, <3>1
      <4>2. \A i \in (SettledEnd + 1)..(Len(twal) - 1) : twal[i].op # "commit"
        BY <3>1, MarkedLog
      <4> QED BY <1>1, <4>1, <4>2
    <3>2. CASE pc # "marker"
      <4>1. SettledEnd = CommittedEnd(twal)
        BY <3>2, SettledFacts
      <4>2. LastMarker(twal, SettledEnd)
        BY <1>1, <4>1, EndIsMarker
      <4>3. \A k \in (SettledEnd + 1)..Len(twal) : twal[k].op # "commit"
        BY <4>2 DEF LastMarker
      <4> QED BY <1>1, <4>3
    <3> QED BY <3>1, <3>2
  <2>2. e <= SettledEnd
    <3> SUFFICES ASSUME e > SettledEnd PROVE FALSE
      BY <1>1, <1>4
    <3>1. e \in (SettledEnd + 1)..n /\ e # 0
      BY <1>1, <1>4
    <3> QED BY <1>3, <2>1, <3>1
  <2>3. e = SettledEnd \/ tsynced <= e
    <3> SUFFICES ASSUME e < SettledEnd, e < tsynced PROVE FALSE
      BY <1>1, <1>4, <2>2
    <3>1. CASE SettledEnd <= n
      <4>1. SettledEnd \in (e+1)..n /\ SettledEnd # 0
        BY <1>1, <1>4, <3>1
      <4> QED BY <1>1, <1>3, <4>1
    <3>2. CASE SettledEnd > n
      <4>1. tsynced \in (e+1)..n /\ tsynced # 0 /\ ~(tsynced >= SettledEnd)
        BY <1>1, <1>4, <3>2
      <4> QED BY <1>3, <4>1 DEF Durable
    <3> QED BY <1>1, <3>1, <3>2
  <2>4. \A i \in (e+1)..SettledEnd : twal[i].f \notin byTxn
    <3>1. CASE e = SettledEnd
      BY <1>1, <3>1
    <3>2. CASE tsynced <= e
      <4>1. \A i \in (e+1)..SettledEnd : i \in (tsynced + 1)..SettledEnd
        BY <1>1, <1>4, <3>2
      <4> QED BY <4>1 DEF Durable
    <3> QED BY <2>3, <3>1, <3>2
  <2>5. ASSUME NEW f \in byTxn
        PROVE  /\ Touches(Prefix(twal, e), f) <=> Touches(Settled, f)
               /\ LastIsAdd(Prefix(twal, e), f) <=> LastIsAdd(Settled, f)
    <3>1. e \in 0..SettledEnd /\ \A i \in (e+1)..SettledEnd : twal[i].f # f
      BY <1>1, <1>4, <2>2, <2>4
    <3> QED BY <1>1, <3>1, CutAgrees DEF Settled
  <2>6. ASSUME Applying PROVE Prefix(twal, e) = Settled
    <3>1. tsynced = Len(twal) /\ SettledEnd = Len(twal)
      BY <2>6 DEF LogTail
    <3>2. e = SettledEnd
      BY <1>1, <1>4, <2>2, <2>3, <3>1
    <3> QED BY <3>2 DEF Settled
  <2> QED BY <1>2, <1>3, <2>5, <2>6
<1> QED BY <1>5, <1>6

(***************************************************************************)
(* A cut per-relation WAL has no record its WAL had not.                   *)
(***************************************************************************)
LEMMA CutsKeepWals ==
    ASSUME TypeOK, NEW w \in WalCuts
    PROVE  \A f \in Facts : ~Touches(wal[RelOf[f]], f) => ~Touches(w[RelOf[f]], f)
<1> SUFFICES ASSUME NEW f \in Facts, Touches(w[RelOf[f]], f) PROVE Touches(wal[RelOf[f]], f)
  OBVIOUS
<1>1. RelOf[f] \in Rels
  BY RelOfAssumption
<1>2. PICK n \in synced[RelOf[f]]..Len(wal[RelOf[f]]) : w[RelOf[f]] = Prefix(wal[RelOf[f]], n)
  BY <1>1 DEF WalCuts
<1>3. wal[RelOf[f]] \in Seq(FactRec) /\ n \in 0..Len(wal[RelOf[f]]) /\ n \in Nat
      /\ Len(wal[RelOf[f]]) \in Nat
  BY <1>1, <1>2 DEF TypeOK
<1>4. Len(w[RelOf[f]]) = n /\ \A i \in 1..n : w[RelOf[f]][i] = wal[RelOf[f]][i]
  <2>1. PICK log \in Seq(FactRec) : log = wal[RelOf[f]]
    BY <1>3
  <2>2. Len(Prefix(log, n)) = n /\ \A i \in 1..n : Prefix(log, n)[i] = log[i]
    BY <1>3, <2>1, CutLog
  <2> QED BY <1>2, <2>1, <2>2
<1>5. \A i \in 1..n : i \in 1..Len(wal[RelOf[f]])
  BY <1>3
<1> QED BY <1>4, <1>5 DEF Touches

\* What recovery gives for one fact: the transaction log decides, else the WAL and the file.
LEMMA RecoveredOne ==
    ASSUME NEW w, NEW t
    PROVE  \A f \in Facts : f \in Recovered(w, t)
              <=> IF Touches(Committed(t), f) THEN LastIsAdd(Committed(t), f)
                  ELSE f \in Replay(file, w[RelOf[f]])
  BY ReplayOne DEF Recovered, ReplayWals

(***************************************************************************)
(* What survives a power loss of a durable fact that the settled log does  *)
(* not decide is its file.                                                 *)
(***************************************************************************)
LEMMA UndecidedSurvives ==
    ASSUME TypeOK, Durable, NEW w \in WalCuts, NEW f \in byTxn, ~Touches(Settled, f)
    PROVE  /\ ~Touches(w[RelOf[f]], f)
           /\ f \in Replay(file, w[RelOf[f]]) <=> f \in file
           /\ f \in file <=> f \in facts
<1>1. f \in Facts /\ ~Touches(wal[RelOf[f]], f) /\ (f \in file <=> f \in facts)
  BY DEF Durable, TypeOK
<1>2. ~Touches(w[RelOf[f]], f)
  BY <1>1, CutsKeepWals
<1> QED BY <1>1, <1>2, ReplayOne

\* A power loss: what survives of the logs stands for the new contents.
LEMMA PowerLossStep ==
    ASSUME TInv, TypeOK', Control', PowerLoss
    PROVE  Contents'
<1>0. TypeOK /\ Control /\ LogTail /\ Durable
  BY DEF TInv, Contents
<1>1. /\ pc' = "down" /\ wal' \in WalCuts /\ twal' \in TxnWalCuts /\ tsynced' = Len(twal')
      /\ facts' = Recovered(wal', twal') /\ stale' = {} /\ UNCHANGED <<file, byTxn>>
  BY DEF PowerLoss, Forget
<1>2. ~Applying' /\ ~Replaying' /\ Memory' /\ Goal' = facts'
  BY <1>1 DEF Applying, Replaying, Memory, Goal
<1>3. SettledEnd' = CommittedEnd(twal') /\ Settled' = Committed(twal')
  BY <1>1 DEF SettledEnd, Settled, Committed
<1>4. PICK n \in tsynced..Len(twal) : twal' = Prefix(twal, n)
  BY <1>1 DEF TxnWalCuts
<1>5. /\ twal' \in Seq(TxnRec)
      /\ \A f \in byTxn : Touches(Settled, f) => Touches(Committed(twal'), f)
  <2>1. /\ twal' \in Seq(TxnRec)
        /\ \/ \A f \in byTxn : Touches(Committed(twal'), f) <=> Touches(Settled, f)
           \/ pc = "marker" /\ twal' = twal /\ Committed(twal') = twal
    BY <1>0, <1>4, CutsKeepTxns
  <2>2. pc = "marker" => \A f \in Facts : Touches(Settled, f) => Touches(twal, f)
    BY <1>0, MarkedLog
  <2>3. byTxn \subseteq Facts
    BY <1>0 DEF TypeOK
  <2> QED BY <2>1, <2>2, <2>3
<1>6. \A f \in Facts : f \in facts' <=> IF Touches(Committed(twal'), f) THEN LastIsAdd(Committed(twal'), f)
                                        ELSE f \in Replay(file, wal'[RelOf[f]])
  BY <1>1, RecoveredOne
<1>7. Logs'
  <2>1. \A f \in Facts : InWal(f)' <=> f \in Replay(file, wal'[RelOf[f]])
    BY <1>1 DEF InWal
  <2> QED BY <1>2, <1>3, <1>6, <2>1 DEF Logs
<1>8. Durable'
  <2>1. LastMarker(twal', CommittedEnd(twal'))
    BY <1>5, EndIsMarker
  <2>2. /\ CommittedEnd(twal') \in 0..Len(twal') /\ Len(twal') \in Nat
        /\ CommittedEnd(twal') <= Len(twal')
    BY <1>5, <2>1 DEF LastMarker
  <2>3. (Len(twal') + 1)..CommittedEnd(twal') = {}
    BY <2>2
  <2>4. ASSUME NEW f \in byTxn, ~Touches(Committed(twal'), f)
        PROVE  ~Touches(wal'[RelOf[f]], f) /\ (f \in file <=> f \in facts')
    <3>1. ~Touches(Settled, f) /\ f \in Facts
      BY <1>0, <1>5, <2>4 DEF TypeOK
    <3>2. /\ ~Touches(wal'[RelOf[f]], f)
          /\ f \in Replay(file, wal'[RelOf[f]]) <=> f \in file
      BY <1>0, <1>1, <3>1, UndecidedSurvives
    <3> QED BY <1>6, <2>4, <3>1, <3>2
  <2> QED BY <1>1, <1>3, <2>2, <2>3, <2>4 DEF Durable
<1>9. LogTail' /\ SavedFile' /\ Recovery'
  BY <1>1, <1>2 DEF LogTail, SavedFile, Recovery
<1> QED BY <1>2, <1>7, <1>8, <1>9 DEF Contents

-----------------------------------------------------------------------------
(***************************************************************************)
(* Direct writes, which go to the per-relation WAL: facts txn.wal decides  *)
(* become stale.                                                           *)
(***************************************************************************)
LEMMA WriteStep ==
    ASSUME TInv, NEW rec \in FactRec, DirectWrite(rec), pc \in {"idle", "cas"},
           pc' \in {"idle", "cas"} \/ (pc' = "compact" /\ back' = "idle")
    PROVE  Contents'
<1>0. TypeOK /\ Control /\ LogTail /\ Logs /\ Memory /\ Durable
  BY DEF TInv, Contents
<1>1. /\ rec.f \in Facts /\ RelOf[rec.f] \in Rels
      /\ \A r \in Rels : wal'[r] = IF r = RelOf[rec.f] THEN Append(wal[r], rec) ELSE wal[r]
      /\ UNCHANGED <<txn, pos, todo, failed, file, synced, twal, tsynced>>
  BY <1>0, WriteTypes
<1>2. ~Applying /\ ~Applying' /\ ~Replaying' /\ pc' \notin {"saved", "append", "marker"}
  BY DEF Applying, Replaying
<1>3. SettledEnd' = SettledEnd /\ Settled' = Settled /\ Settled = Committed(twal)
  BY <1>0, <1>1, <1>2, SettledKept, SettledFacts
<1>4. mem = facts /\ Goal = facts /\ Goal' = facts'
  BY <1>0, <1>2 DEF Memory, Goal
<1>5. /\ facts' = mem'
      /\ \A f \in Facts : f \in facts' <=> IF f = rec.f THEN rec.op = "add" ELSE f \in facts
  BY <1>4 DEF DirectWrite
<1>6. /\ byTxn' = byTxn \ {rec.f}
      /\ stale' = IF Touches(Settled, rec.f) THEN stale \cup {rec.f} ELSE stale
  BY <1>3 DEF DirectWrite
<1>7. ASSUME NEW f \in Facts, f # rec.f
      PROVE  (InWal(f)' <=> InWal(f)) /\ (Touches(wal'[RelOf[f]], f) <=> Touches(wal[RelOf[f]], f))
  <2>1. RelOf[f] \in Rels
    BY RelOfAssumption
  <2>2. CASE RelOf[f] # RelOf[rec.f]
    BY <1>1, <2>1, <2>2 DEF InWal
  <2>3. CASE RelOf[f] = RelOf[rec.f]
    <3>1. PICK log \in Seq(FactRec) : log = wal[RelOf[f]] /\ wal'[RelOf[f]] = Append(log, rec)
      BY <1>0, <1>1, <2>1, <2>3 DEF TypeOK
    <3>2. /\ Touches(Append(log, rec), f) <=> Touches(log, f)
          /\ LastIsAdd(Append(log, rec), f) <=> LastIsAdd(log, f)
      BY <1>7, <3>1, AppendRecord
    <3> QED BY <1>1, <3>1, <3>2, ReplayOne DEF InWal
  <2> QED BY <2>2, <2>3
<1>8. InWal(rec.f)' <=> rec.op = "add"
  <2>1. PICK log \in Seq(FactRec) : log = wal[RelOf[rec.f]] /\ wal'[RelOf[rec.f]] = Append(log, rec)
    BY <1>0, <1>1 DEF TypeOK
  <2>2. Touches(Append(log, rec), rec.f) /\ (LastIsAdd(Append(log, rec), rec.f) <=> rec.op = "add")
    BY <1>1, <2>1, AppendRecord
  <2> QED BY <1>1, <2>1, <2>2, ReplayOne DEF InWal
<1>9. Logs'
  <2>1. ASSUME NEW f \in Facts \ stale'
        PROVE  f \in facts' <=> IF Touches(Settled, f) THEN LastIsAdd(Settled, f) ELSE InWal(f)'
    <3>1. CASE f = rec.f
      BY <1>5, <1>6, <1>8, <2>1, <3>1
    <3>2. CASE f # rec.f
      <4>1. f \in facts <=> IF Touches(Settled, f) THEN LastIsAdd(Settled, f) ELSE InWal(f)
        BY <1>0, <1>4, <1>6, <2>1 DEF Logs
      <4> QED BY <1>5, <1>7, <2>1, <3>2, <4>1
    <3> QED BY <3>1, <3>2
  <2> QED BY <1>2, <1>3, <1>4, <2>1 DEF Logs
<1>10. Durable'
  <2>1. ASSUME NEW f \in byTxn', ~Touches(Settled, f)
        PROVE  ~Touches(wal'[RelOf[f]], f) /\ (f \in file <=> f \in facts')
    <3>1. f \in byTxn /\ f \in Facts /\ f # rec.f
      BY <1>0, <1>6, <2>1 DEF TypeOK
    <3> QED BY <1>0, <1>5, <1>7, <2>1, <3>1 DEF Durable
  <2>2. byTxn' \cap stale' = {}
    BY <1>0, <1>6 DEF Durable
  <2>3. byTxn' \subseteq byTxn
    BY <1>6
  <2> QED BY <1>0, <1>1, <1>3, <2>1, <2>2, <2>3 DEF Durable
<1>11. LogTail' /\ Memory' /\ SavedFile' /\ Recovery'
  BY <1>2, <1>4, <1>5 DEF LogTail, Memory, SavedFile, Recovery
<1> QED BY <1>9, <1>10, <1>11 DEF Contents

\* Direct writes keep the invariant.
LEMMA DirectSteps ==
    ASSUME TInv, TypeOK', Control',
           (\E f \in Plain : AddFact(f) \/ DeleteFact(f))
             \/ (\E c \in CasOps : CasRevision(c.expected, c.next)) \/ CasWrite
    PROVE  Contents'
<1>0. TypeOK
  BY DEF TInv
<1>1. ASSUME NEW f \in Plain, AddFact(f) \/ DeleteFact(f) PROVE Contents'
  <2>1. AddRec(f) \in FactRec /\ DelRec(f) \in FactRec
    BY DEF Plain, AddRec, DelRec, FactRec
  <2>2. pc = "idle" /\ (DirectWrite(AddRec(f)) \/ DirectWrite(DelRec(f)))
        /\ (pc' = "idle" \/ (pc' = "compact" /\ back' = "idle"))
    BY <1>1 DEF AddFact, DeleteFact, MaybeCompact
  <2> QED BY <2>1, <2>2, WriteStep
<1>2. ASSUME NEW c \in CasOps, CasRevision(c.expected, c.next) PROVE Contents'
  <2>1. pc = "idle" /\ pc' = "cas"
    BY <1>2 DEF CasRevision
  <2>2. CASE c.expected = 0
    <3>1. UNCHANGED <<mem, txn, pos, file, wal, twal, tsynced, facts, byTxn, stale>>
      BY <1>2, <2>2 DEF CasRevision, disk, history
    <3>2. ~Applying /\ ~Applying' /\ ~Replaying'
      BY <2>1 DEF Applying, Replaying
    <3>3. Logs' /\ Durable'
      BY <2>1, <3>1, <3>2, DiskAndHistoryKept
    <3> QED BY <2>1, <3>1, <3>2, <3>3 DEF TInv, Contents, LogTail, Memory, SavedFile, Recovery
  <2>3. CASE c.expected # 0
    <3>1. c.expected \in 1..Len(RevRows)
      BY <2>3, RowsAreFacts
    <3>2. DelRec(RevRows[c.expected]) \in FactRec
      BY <3>1, RowsAreFacts DEF DelRec, FactRec
    <3>3. DirectWrite(DelRec(RevRows[c.expected]))
      BY <1>2, <2>3 DEF CasRevision
    <3> QED BY <2>1, <3>2, <3>3, WriteStep
  <2> QED BY <2>2, <2>3
<1>3. CASE CasWrite
  <2>1. swap \in 1..Len(RevRows)
    BY <1>0, <1>3 DEF CasWrite, TypeOK, Revisions
  <2>2. AddRec(RevRows[swap]) \in FactRec
    BY <2>1, RowsAreFacts DEF AddRec, FactRec
  <2>3. pc = "cas" /\ DirectWrite(AddRec(RevRows[swap]))
        /\ (pc' = "idle" \/ (pc' = "compact" /\ back' = "idle"))
    BY <1>3 DEF CasWrite, MaybeCompact
  <2> QED BY <2>2, <2>3, WriteStep
<1> QED BY <1>1, <1>2, <1>3

-----------------------------------------------------------------------------
(***************************************************************************)
(* The invariant holds at the start and is kept by every step.             *)
(***************************************************************************)
LEMMA TxnInit == Init => TInv
<1> SUFFICES ASSUME Init PROVE TInv
  OBVIOUS
<1>1. TypeOK
  <2>1. /\ <<>> \in Seq(TxnOp) /\ 1 \in 1..(Len(Records(<<>>)) + 1) /\ <<>> \in Seq(FactRec)
        /\ 0 \in Revisions
    BY EmptyRecords, RowsAreFacts DEF Revisions
  <2>2. wal \in [Rels -> Seq(FactRec)] /\ synced \in [Rels -> Nat]
        /\ \A r \in Rels : synced[r] <= Len(wal[r])
    BY <2>1 DEF Init
  <2>3. twal \in Seq(TxnRec) /\ tsynced \in 0..Len(twal)
    BY EmptyTxnLog DEF Init
  <2>4. txn \in Seq(TxnOp) /\ pos \in 1..(Len(Records(txn)) + 1) /\ swap \in Revisions
    BY <2>1 DEF Init
  <2> QED BY <2>2, <2>3, <2>4 DEF Init, TypeOK
<1>2. ~Applying /\ Control
  BY EmptyRecords DEF Init, Control, Applying
<1>3. SettledEnd = 0 /\ Settled = <<>>
  <2>1. LastMarker(<<>>, 0) /\ Len(<<>>) = 0
    BY DEF LastMarker
  <2>2. CommittedEnd(<<>>) = 0
    BY <2>1, EndIs, EmptyTxnLog
  <2> QED BY <2>2 DEF Init, SettledEnd, Settled, Prefix
<1>4. \A f \in Facts : ~Touches(Settled, f) /\ ~InWal(f)
  <2>1. \A f \in Facts : wal[RelOf[f]] = <<>>
    BY RelOfAssumption DEF Init
  <2>2. \A f \in Facts : f \notin Replay({}, <<>>)
    BY ReplayOne
  <2>3. file = {}
    BY DEF Init
  <2> QED BY <1>3, <2>1, <2>2, <2>3, ReplayOne DEF InWal
<1>5. Logs
  BY <1>2, <1>4 DEF Init, Logs, Goal
<1>6. Durable
  BY <1>3 DEF Init, Durable
<1>7. LogTail /\ Memory /\ SavedFile /\ Recovery
  BY <1>2 DEF Init, LogTail, Memory, SavedFile, Recovery, Replaying
<1> QED BY <1>1, <1>2, <1>5, <1>6, <1>7 DEF TInv, Contents

\* Every step keeps the invariant.
LEMMA TxnSteps == TInv /\ [Next]_vars => TInv'
<1> SUFFICES ASSUME TInv, [Next]_vars PROVE TInv'
  OBVIOUS
<1>1. TypeOK' /\ Control'
  BY TypeSteps DEF TInv
<1>2. CASE UNCHANGED vars
  <2>1. LogTail' /\ Logs' /\ Memory' /\ SavedFile' /\ Recovery' /\ Durable'
    BY <1>2 DEF TInv, Contents, vars, LogTail, Logs, Memory, SavedFile, Recovery, Durable, SettledEnd,
                Settled, Goal, InWal, Applying, Replaying
  <2> QED BY <1>1, <2>1 DEF TInv, Contents
<1>3. CASE Next
  BY <1>1, <1>3, KeepingSteps, SaveStep, TruncateStep, OpenStep, EndReplayStep, CommitStep, LoggingStep,
     SyncStep, SyncFailStep, ApplyStep, DoneStep, KillStep, PowerLossStep, DirectSteps
  DEF Next, TInv
<1> QED BY <1>2, <1>3

(***************************************************************************)
(* What the invariant says of a kill and of a power loss.                  *)
(***************************************************************************)
LEMMA AtomicHolds == TInv => TxnAtomic
<1> SUFFICES ASSUME TInv PROVE TxnAtomic
  OBVIOUS
<1>0. TypeOK /\ Control /\ LogTail /\ Logs
  BY DEF TInv, Contents
<1>1. InFlight <=> pc = "marker" \/ Applying
  BY DEF InFlight, Applying
<1>2. ASSUME NEW f \in Facts \ stale PROVE f \in Recovered(wal, twal) <=> f \in Expected
  <2>1. f \in Recovered(wal, twal) <=> IF Touches(Committed(twal), f) THEN LastIsAdd(Committed(twal), f)
                                       ELSE InWal(f)
    BY RecoveredOne DEF InWal
  <2>2. f \in Goal <=> IF Touches(Settled, f) THEN LastIsAdd(Settled, f) ELSE InWal(f)
    BY <1>0 DEF Logs
  <2>3. CASE pc # "marker"
    BY <1>0, <1>1, <2>1, <2>2, <2>3, SettledFacts DEF Expected, Goal
  <2>4. CASE pc = "marker"
    <3>1. /\ Committed(twal) = twal
          /\ Touches(twal, f) <=> Touches(Settled, f) \/ Touches(Records(txn), f)
          /\ LastIsAdd(twal, f) <=> IF Touches(Records(txn), f) THEN LastIsAdd(Records(txn), f)
                                    ELSE LastIsAdd(Settled, f)
      BY <1>0, <2>4, MarkedLog
    <3>2. Goal = facts /\ Expected = Replay(facts, Records(txn))
      BY <1>1, <2>4 DEF Goal, Expected, Applying
    <3> QED BY <2>1, <2>2, <3>1, <3>2, ReplayOne
  <2> QED BY <2>3, <2>4
<1>3. Recovered(wal, twal) \subseteq Facts /\ Expected \subseteq Facts
  BY <1>0, ReplayOne DEF Recovered, Expected, TypeOK
<1> QED BY <1>2, <1>3 DEF TxnAtomic

\* A power loss, wherever it cuts the logs, keeps the durable facts.
LEMMA DurableHolds == TInv => TxnDurable
<1> SUFFICES ASSUME TInv, NEW w \in WalCuts, NEW t \in TxnWalCuts
             PROVE  \/ \A f \in byTxn \ stale : f \in Recovered(w, t) <=> f \in facts
                    \/ /\ InFlight
                       /\ \A f \in (byTxn \cup Touched(Records(txn))) \ stale :
                             f \in Recovered(w, t) <=> f \in Expected
  BY DEF TxnDurable
<1>0. TypeOK /\ Control /\ LogTail /\ Logs /\ Durable
  BY DEF TInv, Contents
<1>1. PICK n \in tsynced..Len(twal) : t = Prefix(twal, n)
  BY DEF TxnWalCuts
<1>2. InFlight <=> pc = "marker" \/ Applying
  BY DEF InFlight, Applying
<1>3. byTxn \subseteq Facts /\ Touched(Records(txn)) \subseteq Facts
  BY <1>0 DEF TypeOK, Touched
<1>4. \A f \in Facts : f \in Recovered(w, t)
            <=> IF Touches(Committed(t), f) THEN LastIsAdd(Committed(t), f)
                ELSE f \in Replay(file, w[RelOf[f]])
  BY RecoveredOne
<1>5. \A f \in Facts \ stale :
         f \in Goal <=> IF Touches(Settled, f) THEN LastIsAdd(Settled, f) ELSE InWal(f)
  BY <1>0 DEF Logs
<1>6. CASE /\ \A f \in byTxn : /\ Touches(Committed(t), f) <=> Touches(Settled, f)
                               /\ LastIsAdd(Committed(t), f) <=> LastIsAdd(Settled, f)
           /\ Applying => Committed(t) = Settled
  <2>1. CASE ~Applying
    <3>1. ASSUME NEW f \in byTxn \ stale PROVE f \in Recovered(w, t) <=> f \in facts
      <4>1. Goal = facts
        BY <2>1 DEF Goal
      <4>2. CASE Touches(Settled, f)
        BY <1>3, <1>4, <1>5, <1>6, <4>1, <4>2
      <4>3. CASE ~Touches(Settled, f)
        BY <1>0, <1>3, <1>4, <1>6, <4>3, UndecidedSurvives
      <4> QED BY <4>2, <4>3
    <3> QED BY <3>1
  <2>2. CASE Applying
    <3>1. ASSUME NEW f \in (byTxn \cup Touched(Records(txn))) \ stale
          PROVE  f \in Recovered(w, t) <=> f \in Goal
      <4>1. CASE Touches(Settled, f)
        BY <1>3, <1>4, <1>5, <1>6, <2>2, <4>1
      <4>2. CASE ~Touches(Settled, f)
        <5>1. f \notin Touched(Records(txn)) /\ f \in byTxn
          BY <1>0, <2>2, <4>2 DEF Logs
        <5>2. f \in Recovered(w, t) <=> f \in facts
          BY <1>0, <1>3, <1>4, <1>6, <4>2, <5>1, UndecidedSurvives
        <5>3. f \in Goal <=> f \in facts
          BY <1>3, <2>2, <5>1, ReplayOne DEF Goal, Touched
        <5> QED BY <5>2, <5>3
      <4> QED BY <4>1, <4>2
    <3>2. InFlight /\ Goal = Expected
      BY <1>2, <2>2 DEF Goal, Expected
    <3> QED BY <3>1, <3>2
  <2> QED BY <2>1, <2>2
<1>7. CASE pc = "marker" /\ t = twal /\ Committed(t) = twal
  <2>1. \A f \in Facts :
              /\ Touches(twal, f) <=> Touches(Settled, f) \/ Touches(Records(txn), f)
              /\ LastIsAdd(twal, f) <=> IF Touches(Records(txn), f) THEN LastIsAdd(Records(txn), f)
                                        ELSE LastIsAdd(Settled, f)
    BY <1>0, <1>7, MarkedLog
  <2>2. InFlight /\ Goal = facts /\ Expected = Replay(facts, Records(txn))
    BY <1>2, <1>7 DEF Goal, Expected, Applying
  <2>3. ASSUME NEW f \in (byTxn \cup Touched(Records(txn))) \ stale
        PROVE  f \in Recovered(w, t) <=> f \in Expected
    <3>1. CASE Touches(Records(txn), f)
      BY <1>3, <1>4, <1>7, <2>1, <2>2, <3>1, ReplayOne
    <3>2. CASE ~Touches(Records(txn), f) /\ Touches(Settled, f)
      BY <1>3, <1>4, <1>5, <1>7, <2>1, <2>2, <3>2, ReplayOne
    <3>3. CASE ~Touches(Records(txn), f) /\ ~Touches(Settled, f)
      <4>1. f \in byTxn /\ f \in Facts
        BY <1>3, <3>3 DEF Touched
      <4>2. f \in Recovered(w, t) <=> f \in facts
        BY <1>0, <1>4, <1>7, <2>1, <3>3, <4>1, UndecidedSurvives
      <4> QED BY <2>2, <3>3, <4>1, <4>2, ReplayOne
    <3> QED BY <3>1, <3>2, <3>3
  <2> QED BY <2>2, <2>3
<1> QED BY <1>0, <1>1, <1>6, <1>7, CutsKeepTxns

(***************************************************************************)
(* The inductive invariant holds in every reachable state.                 *)
(***************************************************************************)
THEOREM TxnInvariant == Spec => []TInv
  BY TxnInit, TxnSteps, PTL DEF Spec

(***************************************************************************)
(* The variables keep their types.                                         *)
(***************************************************************************)
THEOREM TxnTypeCorrect == Spec => []TypeOK
<1>1. TInv => TypeOK
  BY DEF TInv
<1> QED BY <1>1, TxnInvariant, PTL

(***************************************************************************)
(* At whatever point the process is killed, the next open rebuilds the     *)
(* acknowledged contents, with all or nothing of the commit in flight over *)
(* all relations.                                                          *)
(***************************************************************************)
THEOREM CommitsAreAtomic == Spec => []TxnAtomic
  BY AtomicHolds, TxnInvariant, PTL

(***************************************************************************)
(* Wherever a power loss cuts the logs, no acknowledged commit is lost and *)
(* the one in flight is kept whole or not at all.                          *)
(***************************************************************************)
THEOREM CommitsAreDurable == Spec => []TxnDurable
  BY DurableHolds, TxnInvariant, PTL

-----------------------------------------------------------------------------
(***************************************************************************)
(* What a caller sees is what was acknowledged, but for the facts in doubt *)
(* while no handle is open.                                                *)
(***************************************************************************)
LEMMA SeenIsFacts ==
    ASSUME TInv
    PROVE  /\ pc # "down" => Seen = facts
           /\ pc = "down" => Seen = Recovered(wal, twal)
           /\ Seen \ stale = facts \ stale
           /\ Committing <=> pc \in {"append", "marker"} \/ Applying
           /\ InFlight => pc # "down" /\ Committing
           /\ Committing => pc # "txn"
<1>1. Committing <=> pc \in {"append", "marker"} \/ Applying
  BY DEF Committing, Applying
<1>2. pc # "down" => Seen = facts
  BY <1>1 DEF TInv, Contents, Memory, Seen
<1>3. pc = "down" => Seen = Recovered(wal, twal)
  <2>1. pc = "down" => ~Committing
    BY DEF Committing
  <2> QED BY <2>1 DEF Seen
<1>4. TxnAtomic
  BY AtomicHolds
<1>5. pc = "down" => Expected = facts
  BY DEF Expected, InFlight
<1>6. Seen \ stale = facts \ stale
  BY <1>2, <1>3, <1>4, <1>5 DEF TxnAtomic
<1> QED BY <1>1, <1>2, <1>3, <1>6 DEF InFlight, Committing

\* So it is after a step that leaves the handle open.
LEMMA SeenAfter ==
    ASSUME TInv', pc' # "down"
    PROVE  Seen' = facts'
<1>1. Applying' => pc' \in {"apply", "compact", "saved"}
  BY DEF Applying
<1> QED BY <1>1 DEF TInv, Contents, Memory, Seen, Committing, Applying

(***************************************************************************)
(* The contract's transaction buffer, by phase.                            *)
(***************************************************************************)
Buffer == [state |-> CASE pc = "txn" -> "open" [] Committing -> "committing" [] OTHER -> "none",
           ops |-> txn]

\* Its three values.
LEMMA BufferIs ==
    ASSUME Control
    PROVE  /\ pc = "txn" => Buffer = [state |-> "open", ops |-> txn]
           /\ Committing => Buffer = [state |-> "committing", ops |-> txn]
           /\ pc # "txn" /\ ~Committing => Buffer = [state |-> "none", ops |-> <<>>]
<1>1. Committing => pc # "txn"
  BY DEF Committing
<1>2. pc # "txn" /\ ~Committing => txn = <<>>
  BY DEF Control, Committing, Applying
<1> QED BY <1>1, <1>2 DEF Buffer

\* Its three values after a step.
LEMMA BufferAfter ==
    ASSUME Control'
    PROVE  /\ pc' = "txn" => Buffer' = [state |-> "open", ops |-> txn']
           /\ Committing' => Buffer' = [state |-> "committing", ops |-> txn']
           /\ pc' # "txn" /\ ~Committing' => Buffer' = [state |-> "none", ops |-> <<>>]
<1>1. Committing' => pc' # "txn"
  BY DEF Committing
<1>2. pc' # "txn" /\ ~Committing' => txn' = <<>>
  BY DEF Control, Committing, Applying
<1> QED BY <1>1, <1>2 DEF Buffer

(***************************************************************************)
(* The contract speaks of the same operations, records and replays.        *)
(***************************************************************************)
LEMMA SameOps ==
    /\ Contract!Plain = Plain /\ Contract!CasOps = CasOps /\ Contract!TxnOp = TxnOp
    /\ \A contents, log : Contract!Replay(contents, log) = Replay(contents, log)
    /\ \A ops : Contract!Records(ops) = Records(ops)
    /\ \A log : Contract!Touched(log) = Touched(log)
    /\ \A ops, contents : Contract!NoConflict(ops, contents) <=> NoConflict(ops, contents)
    /\ \A contents : Contract!RevGet(contents) = RevGet(contents)
<1>1. Contract!Plain = Plain
  BY DEF Contract!Plain, Plain
<1>2. Contract!CasOps = CasOps
  BY DEF Contract!CasOps, Contract!CasOp, CasOps, CasOp
<1>3. Contract!TxnOp = TxnOp
  BY <1>1, <1>2 DEF Contract!TxnOp, TxnOp
<1>4. \A contents, log : Contract!Replay(contents, log) = Replay(contents, log)
  BY DEF Contract!Replay, Contract!LastIsAdd, Contract!Touches, Replay, LastIsAdd, Touches
<1>5. \A ops : Contract!Records(ops) = Records(ops)
  BY DEF Contract!Records, Contract!SwapRecords, Contract!AddRec, Contract!DelRec,
         Records, SwapRecords, AddRec, DelRec
<1>6. \A log : Contract!Touched(log) = Touched(log)
  BY DEF Contract!Touched, Contract!Touches, Touched, Touches
<1>7. \A contents : Contract!RevGet(contents) = RevGet(contents)
  BY DEF Contract!RevGet, RevGet
<1>8. \A ops, contents : Contract!NoConflict(ops, contents) <=> NoConflict(ops, contents)
  BY <1>7 DEF Contract!NoConflict, NoConflict
<1> QED BY <1>1, <1>2, <1>3, <1>4, <1>5, <1>6, <1>7, <1>8

(***************************************************************************)
(* Steps the contract does not see.                                        *)
(***************************************************************************)
LEMMA HiddenStep ==
    ASSUME TInv, TInv', pc # "down", pc' # "down", Buffer' = Buffer,
           UNCHANGED <<facts, byTxn, stale, swap>>
    PROVE  UNCHANGED Contract!vars
<1>1. Seen' = Seen
  BY SeenIsFacts, SeenAfter
<1> QED BY <1>1 DEF Contract!vars, Buffer

\* A direct write is one of the contract.
LEMMA ContractDirect ==
    ASSUME TInv, TInv', NEW rec \in FactRec, DirectWrite(rec), pc \in {"idle", "cas"},
           pc' \in {"idle", "cas"} \/ (pc' = "compact" /\ back' = "idle"),
           NEW f, f = rec.f, NEW contents,
           contents = IF rec.op = "add" THEN facts \cup {f} ELSE facts \ {f}
    PROVE  Contract!Direct(f, contents) /\ Seen = facts /\ pc # "down" /\ pc' # "down"
<1>1. Seen = facts /\ Seen' = facts'
  BY SeenIsFacts, SeenAfter
<1>2. ~Committing /\ ~Committing'
  BY DEF Committing
<1>3. Buffer = [state |-> "none", ops |-> <<>>] /\ Buffer' = Buffer
  BY <1>2, BufferIs, BufferAfter DEF TInv
<1>4. facts' = contents /\ byTxn' = byTxn \ {f} /\ stale' \in {stale, stale \cup {f}}
  BY DEF DirectWrite
<1> QED BY <1>1, <1>3, <1>4 DEF Contract!Direct, Contract!NoTxn, Buffer

\* dl_add_fact, dl_delete_fact and both halves of dl_cas_revision are calls of the contract.
LEMMA ContractWrites ==
    ASSUME TInv, TInv',
           (\E f \in Plain : AddFact(f) \/ DeleteFact(f))
             \/ (\E c \in CasOps : CasRevision(c.expected, c.next)) \/ CasWrite
    PROVE  Contract!Next
<1>0. TypeOK
  BY DEF TInv
<1>1. ASSUME NEW f \in Plain, AddFact(f) PROVE Contract!Next
  <2>1. AddRec(f) \in FactRec /\ AddRec(f).f = f /\ AddRec(f).op = "add"
    BY DEF Plain, AddRec, FactRec
  <2>2. /\ pc = "idle" /\ swap = 0 /\ swap' = swap /\ f \notin mem /\ DirectWrite(AddRec(f))
        /\ (pc' = "idle" \/ (pc' = "compact" /\ back' = "idle"))
    BY <1>0, <1>1 DEF AddFact, MaybeCompact, TypeOK
  <2>3. Contract!Direct(f, facts \cup {f}) /\ Seen = facts /\ pc # "down" /\ pc' # "down"
    BY <2>1, <2>2, ContractDirect
  <2>4. mem = facts
    BY <2>2, SeenIsFacts DEF Seen, Committing
  <2>5. Contract!AddFact(f)
    BY <2>2, <2>3, <2>4 DEF Contract!AddFact
  <2> QED BY <2>3, <2>5, SameOps DEF Contract!Next, Contract!Call
<1>2. ASSUME NEW f \in Plain, DeleteFact(f) PROVE Contract!Next
  <2>1. DelRec(f) \in FactRec /\ DelRec(f).f = f /\ DelRec(f).op = "del"
    BY DEF Plain, DelRec, FactRec
  <2>2. /\ pc = "idle" /\ swap = 0 /\ swap' = swap /\ f \in mem /\ DirectWrite(DelRec(f))
        /\ pc' = "idle"
    BY <1>0, <1>2 DEF DeleteFact, TypeOK
  <2>3. Contract!Direct(f, facts \ {f}) /\ Seen = facts /\ pc # "down" /\ pc' # "down"
    BY <2>1, <2>2, ContractDirect
  <2>4. mem = facts
    BY <2>2, SeenIsFacts DEF Seen, Committing
  <2>5. Contract!DeleteFact(f)
    BY <2>2, <2>3, <2>4 DEF Contract!DeleteFact
  <2> QED BY <2>3, <2>5, SameOps DEF Contract!Next, Contract!Call
<1>3. ASSUME NEW c \in CasOps, CasRevision(c.expected, c.next) PROVE Contract!Next
  <2>1. c.expected \in 0..Len(RevRows) /\ c.next \in 1..Len(RevRows)
    BY RowsAreFacts
  <2>2. /\ pc = "idle" /\ pc' = "cas" /\ swap = 0 /\ swap' = c.next
        /\ c.expected # c.next /\ RevGet(mem) = c.expected
    BY <1>0, <1>3 DEF CasRevision, TypeOK
  <2>3. mem = facts /\ Seen = facts /\ Seen' = facts'
    BY <2>2, SeenIsFacts, SeenAfter DEF Seen, Committing
  <2>4. Contract!CasRevision(c.expected, c.next)
    <3>1. CASE c.expected = 0
      <4>1. UNCHANGED <<facts, byTxn, stale>>
        BY <1>3, <3>1 DEF CasRevision, history
      <4>2. ~Committing /\ ~Committing'
        BY <2>2 DEF Committing
      <4>3. Buffer' = Buffer
        BY <2>2, <4>2, BufferIs, BufferAfter DEF TInv
      <4> QED BY <2>2, <2>3, <3>1, <4>1, <4>3, SameOps DEF Contract!CasRevision, Buffer
    <3>2. CASE c.expected # 0
      <4>1. /\ DelRec(RevRows[c.expected]) \in FactRec
            /\ DelRec(RevRows[c.expected]).f = RevRows[c.expected]
            /\ DelRec(RevRows[c.expected]).op = "del"
        <5>1. RevRows[c.expected] \in Facts
          BY <2>1, <3>2, RowsAreFacts
        <5> QED BY <5>1 DEF DelRec, FactRec
      <4>2. DirectWrite(DelRec(RevRows[c.expected]))
        BY <1>3, <3>2 DEF CasRevision
      <4>3. Contract!Direct(RevRows[c.expected], facts \ {RevRows[c.expected]})
        BY <2>2, <4>1, <4>2, ContractDirect
      <4> QED BY <2>2, <2>3, <3>2, <4>3, SameOps DEF Contract!CasRevision
    <3> QED BY <3>1, <3>2
  <2>5. \E o \in Contract!CasOps : Contract!CasRevision(o.expected, o.next)
    BY <2>4, SameOps
  <2> QED BY <2>2, <2>5 DEF Contract!Next, Contract!Call
<1>4. CASE CasWrite
  <2>1. swap \in 1..Len(RevRows)
    BY <1>0, <1>4 DEF CasWrite, TypeOK, Revisions
  <2>2. /\ AddRec(RevRows[swap]) \in FactRec /\ AddRec(RevRows[swap]).f = RevRows[swap]
        /\ AddRec(RevRows[swap]).op = "add"
    BY <2>1, RowsAreFacts DEF AddRec, FactRec
  <2>3. /\ pc = "cas" /\ swap' = 0 /\ DirectWrite(AddRec(RevRows[swap]))
        /\ (pc' = "idle" \/ (pc' = "compact" /\ back' = "idle"))
    BY <1>4 DEF CasWrite, MaybeCompact
  <2>4. Contract!Direct(RevRows[swap], facts \cup {RevRows[swap]}) /\ Seen = facts
        /\ pc # "down" /\ pc' # "down"
    BY <2>2, <2>3, ContractDirect
  <2>5. Contract!CasWrite
    BY <2>1, <2>3, <2>4 DEF Contract!CasWrite
  <2> QED BY <2>4, <2>5 DEF Contract!Next, Contract!Call
<1> QED BY <1>1, <1>2, <1>3, <1>4

(***************************************************************************)
(* A transaction, from begin to its outcome.                               *)
(***************************************************************************)
LEMMA ContractTxn ==
    ASSUME TInv, TInv',
           TxnBegin \/ TxnRollback \/ TxnCommit \/ (\E o \in TxnOp : TxnBufOp(o))
             \/ TxnAppend \/ TxnMarker \/ TxnAppendFail
             \/ TxnSync \/ TxnSyncFail \/ TxnApply \/ TxnDone
    PROVE  Contract!Next \/ UNCHANGED Contract!vars
<1>0. TypeOK /\ Control /\ Control'
  BY DEF TInv
<1>1. pc # "down" /\ pc' # "down" /\ Seen = facts /\ Seen' = facts' /\ swap' = swap
  <2>1. pc # "down" /\ pc' # "down" /\ swap' = swap
    BY DEF TxnBegin, TxnRollback, TxnCommit, TxnBufOp, TxnAppend, TxnMarker, TxnAppendFail,
           TxnSync, TxnSyncFail, TxnApply, TxnDone, TxnDiscard, MaybeCompact
  <2> QED BY <2>1, SeenIsFacts, SeenAfter
<1>2. CASE TxnBegin
  <2>1. pc = "idle" /\ pc' = "txn" /\ txn' = <<>> /\ swap = 0 /\ UNCHANGED <<facts, byTxn, stale>>
        /\ ~Committing
    BY <1>0, <1>2 DEF TxnBegin, TypeOK, Committing, history
  <2>2. Buffer = [state |-> "none", ops |-> <<>>] /\ Buffer' = [state |-> "open", ops |-> <<>>]
    BY <1>0, <2>1, BufferIs, BufferAfter
  <2>3. Contract!TxnBegin
    BY <1>1, <2>1, <2>2 DEF Contract!TxnBegin, Contract!NoTxn, Buffer
  <2> QED BY <1>1, <2>3 DEF Contract!Next, Contract!Call
<1>3. CASE TxnRollback \/ TxnAppendFail
  <2>1. pc \in {"txn", "append"} /\ pc' = "idle" /\ UNCHANGED <<facts, byTxn, stale>>
        /\ (pc = "append" => Committing) /\ ~Committing'
    BY <1>3 DEF TxnRollback, TxnAppendFail, TxnDiscard, Committing, history
  <2>2. Buffer.state # "none" /\ Buffer' = [state |-> "none", ops |-> <<>>]
    BY <1>0, <2>1, BufferIs, BufferAfter
  <2>3. Contract!TxnRollback
    BY <1>1, <2>1, <2>2 DEF Contract!TxnRollback, Contract!NoTxn, Buffer
  <2> QED BY <1>1, <2>3 DEF Contract!Next, Contract!Call
<1>4. CASE TxnCommit
  <2>1. pc = "txn" /\ pc' = "append" /\ txn' = txn /\ NoConflict(txn, mem)
        /\ UNCHANGED <<facts, byTxn, stale>> /\ Committing'
    BY <1>4 DEF TxnCommit, Committing, history
  <2>2. Buffer = [state |-> "open", ops |-> txn] /\ Buffer' = [state |-> "committing", ops |-> txn]
    BY <1>0, <2>1, BufferIs, BufferAfter
  <2>3. mem = facts
    BY <2>1, SeenIsFacts DEF Seen, Committing
  <2>4. Contract!TxnCommit
    <3>1. Buffer' = [Buffer EXCEPT !.state = "committing"] /\ Buffer.ops = txn /\ Buffer.state = "open"
      BY <2>2
    <3> QED BY <1>1, <2>1, <2>3, <3>1, SameOps DEF Contract!TxnCommit, Buffer
  <2> QED BY <1>1, <2>4 DEF Contract!Next, Contract!Call
<1>5. ASSUME NEW o \in TxnOp, TxnBufOp(o) PROVE Contract!Next
  <2>1. pc = "txn" /\ pc' = "txn" /\ txn' = Append(txn, o) /\ UNCHANGED <<facts, byTxn, stale>>
        /\ (o.op = "cas" => \A i \in DOMAIN txn : txn[i].op # "cas")
    BY <1>5 DEF TxnBufOp, history
  <2>2. Buffer = [state |-> "open", ops |-> txn] /\ Buffer' = [state |-> "open", ops |-> Append(txn, o)]
    BY <1>0, <2>1, BufferIs, BufferAfter
  <2>3. Contract!Buffer(o) /\ Buffer.ops = txn
    <3>1. PICK more : more = Append(txn, o)
      OBVIOUS
    <3>2. Buffer' = [state |-> "open", ops |-> more] /\ Buffer.ops = txn /\ Buffer.state = "open"
      BY <2>2, <3>1
    <3>3. [Buffer EXCEPT !.ops = more] = [state |-> "open", ops |-> more]
      BY <2>2
    <3>4. Buffer' = [Buffer EXCEPT !.ops = Append(@, o)]
      BY <3>1, <3>2, <3>3
    <3> QED BY <1>1, <2>1, <3>2, <3>4 DEF Contract!Buffer, Buffer
  <2>4. Contract!TxnWrite(o) \/ Contract!TxnCas(o)
    BY <2>1, <2>3 DEF Contract!TxnWrite, Contract!TxnCas, Buffer
  <2> QED BY <1>1, <2>4, SameOps DEF Contract!Next, Contract!Call
<1>6. CASE TxnAppend \/ TxnMarker \/ TxnSync \/ TxnApply
  <2>1. /\ Committing /\ Committing' /\ txn' = txn
        /\ UNCHANGED <<facts, byTxn, stale, swap>>
    BY <1>6 DEF TxnAppend, TxnMarker, TxnSync, TxnApply, MaybeCompact, Committing, history
  <2>2. Buffer' = Buffer
    BY <1>0, <2>1, BufferIs, BufferAfter
  <2> QED BY <1>1, <2>1, <2>2, HiddenStep
<1>7. CASE TxnSyncFail \/ TxnDone
  <2>1. pc' = "idle" /\ Committing /\ ~Committing'
    BY <1>7 DEF TxnSyncFail, TxnDone, TxnDiscard, Committing
  <2>2. /\ Buffer.state = "committing" /\ Buffer.ops = txn
        /\ Buffer' = [state |-> "none", ops |-> <<>>]
    BY <1>0, <2>1, BufferIs, BufferAfter
  <2>3. CASE TxnSyncFail
    <3>1. /\ stale' = stale \cup Touched(Records(txn)) /\ byTxn' = byTxn \ Touched(Records(txn))
          /\ facts' = facts
      BY <2>3 DEF TxnSyncFail
    <3>2. Contract!TxnFail
      BY <1>1, <2>2, <3>1, SameOps DEF Contract!TxnFail, Contract!NoTxn, Buffer
    <3> QED BY <1>1, <3>2 DEF Contract!Next, Contract!Call
  <2>4. CASE TxnDone
    <3>1. /\ facts' = Replay(facts, Records(txn))
          /\ byTxn' = byTxn \cup Touched(Records(txn)) /\ stale' = stale \ Touched(Records(txn))
      BY <2>4 DEF TxnDone
    <3>2. Contract!TxnDone
      BY <1>1, <2>2, <3>1, SameOps DEF Contract!TxnDone, Contract!Outcome, Contract!NoTxn, Buffer
    <3> QED BY <1>1, <3>2 DEF Contract!Next, Contract!Call
  <2> QED BY <1>7, <2>3, <2>4
<1> QED BY <1>2, <1>3, <1>4, <1>5, <1>6, <1>7

(***************************************************************************)
(* Compactions and cycle boundaries are not seen; closing drops an open    *)
(* transaction; the next open shows what was recovered.                    *)
(***************************************************************************)
LEMMA ContractUpkeep ==
    ASSUME TInv, TInv',
           Open \/ EndReplay \/ CompactNext \/ CompactSave \/ CompactTruncate \/ CompactFail
             \/ Consolidate \/ Close
    PROVE  Contract!Next \/ UNCHANGED Contract!vars
<1>0. TypeOK /\ Control /\ Control'
  BY DEF TInv
<1>1. CASE Open
  <2>1. /\ pc = "down" /\ pc' = "replay" /\ mem' = Recovered(wal, twal) /\ facts' = mem'
        /\ stale' = {} /\ swap' = swap /\ byTxn' = byTxn /\ ~Committing /\ ~Committing'
    BY <1>1 DEF Open, Committing
  <2>2. Seen' = Seen
    BY <2>1, SeenIsFacts, SeenAfter
  <2>3. Buffer' = Buffer
    BY <1>0, <2>1, BufferIs, BufferAfter
  <2>4. Contract!Reopen
    BY <2>1, <2>2, <2>3 DEF Contract!Reopen, Buffer
  <2> QED BY <2>4 DEF Contract!Next
<1>2. CASE pc = "txn" /\ Close
  <2>1. pc' = "close" /\ UNCHANGED <<facts, byTxn, stale, swap>> /\ ~Committing'
    BY <1>2 DEF Close, Committing, history
  <2>2. Buffer.state # "none" /\ Buffer' = [state |-> "none", ops |-> <<>>]
    BY <1>0, <1>2, <2>1, BufferIs, BufferAfter
  <2>3. Seen = facts /\ Seen' = facts'
    BY <1>2, <2>1, SeenIsFacts, SeenAfter
  <2>4. Contract!TxnRollback
    BY <2>1, <2>2, <2>3 DEF Contract!TxnRollback, Contract!NoTxn, Buffer
  <2> QED BY <1>2, <2>1, <2>4 DEF Contract!Next, Contract!Call
<1>3. CASE ~Open /\ ~(pc = "txn" /\ Close)
  <2>1. /\ pc # "down" /\ pc' # "down" /\ pc # "txn" /\ pc' # "txn" /\ (Committing' <=> Committing)
        /\ txn' = txn /\ UNCHANGED <<facts, byTxn, stale, swap>>
    <3>1. CASE EndReplay \/ CompactNext \/ CompactSave \/ CompactTruncate \/ CompactFail \/ Consolidate
      BY <1>0, <3>1 DEF EndReplay, CompactNext, CompactSave, CompactTruncate, CompactFail, Consolidate,
                        Committing, history, TypeOK
    <3>2. CASE Close
      BY <1>0, <1>3, <3>2 DEF Close, Committing, history, Control, Applying
    <3> QED BY <1>3, <3>1, <3>2
  <2>2. Buffer' = Buffer
    BY <1>0, <2>1, BufferIs, BufferAfter
  <2> QED BY <2>1, <2>2, HiddenStep
<1> QED BY <1>1, <1>2, <1>3

(***************************************************************************)
(* Stops: the contract allows what recovery makes of the disk.             *)
(***************************************************************************)
LEMMA StopIsGone ==
    ASSUME TInv, TInv', Forget, stale' \subseteq stale
    PROVE  Contract!Gone /\ Seen' = Recovered(wal, twal)'
<1>1. pc' = "down" /\ swap' = 0 /\ ~Committing'
  BY DEF Forget, Committing
<1>2. Buffer' = [state |-> "none", ops |-> <<>>]
  BY <1>1, BufferAfter DEF TInv
<1>3. Contract!Gone
  BY <1>1, <1>2 DEF Contract!Gone, Contract!NoTxn, Buffer
<1> QED BY <1>1, <1>3 DEF Seen

\* Closing and being killed are stops of the contract, all or nothing of a commit remaining.
LEMMA ContractStop ==
    ASSUME TInv, TInv', EndClose \/ Kill
    PROVE  Contract!Stop
<1>0. TypeOK /\ Control /\ TxnAtomic
  BY AtomicHolds DEF TInv
<1>1. /\ pc # "down" /\ Forget /\ UNCHANGED <<file, wal, synced, twal, tsynced>>
      /\ Seen = facts
  <2>1. pc # "down" /\ Forget /\ UNCHANGED <<file, wal, synced, twal, tsynced>>
    BY DEF EndClose, Kill, disk
  <2> QED BY <2>1, SeenIsFacts
<1>2. /\ stale' \subseteq stale
      /\ ~InFlight => byTxn' = byTxn
      /\ byTxn' \subseteq byTxn \cup Touched(Records(txn))
  BY DEF EndClose, Kill, history, InFlight
<1>3. Contract!Gone /\ Seen' = Recovered(wal, twal)'
  BY <1>1, <1>2, StopIsGone
<1>4. Recovered(wal, twal)' = Recovered(wal, twal)
  BY <1>1 DEF Recovered, ReplayWals
<1>5. Seen' \ stale = Expected \ stale
  BY <1>0, <1>3, <1>4 DEF TxnAtomic
<1>6. CASE ~InFlight
  <2>1. Seen' \ stale = Seen \ stale /\ byTxn' \subseteq byTxn
    BY <1>1, <1>2, <1>5, <1>6 DEF Expected
  <2> QED BY <1>3, <2>1 DEF Contract!Stop
<1>7. CASE InFlight
  <2>1. Buffer.state = "committing" /\ Buffer.ops = txn
    BY <1>0, <1>7, SeenIsFacts, BufferIs
  <2>2. Contract!Outcome = Expected
    BY <1>1, <1>7, <2>1, SameOps DEF Contract!Outcome, Expected, Buffer
  <2>3. Contract!Touched(Contract!Records(Buffer.ops)) = Touched(Records(txn))
    BY <2>1, SameOps
  <2> QED BY <1>2, <1>3, <1>5, <2>1, <2>2, <2>3 DEF Contract!Stop, Buffer
<1> QED BY <1>6, <1>7

\* A power loss keeps what the contract calls durable.
LEMMA ContractPowerLoss ==
    ASSUME TInv, TInv', PowerLoss
    PROVE  Contract!LosePower
<1>0. TypeOK /\ Control /\ TxnDurable
  BY DurableHolds DEF TInv
<1>1. Forget /\ wal' \in WalCuts /\ twal' \in TxnWalCuts /\ stale' = {} /\ UNCHANGED <<file, byTxn>>
  BY DEF PowerLoss
<1>2. Contract!Gone /\ Seen' = Recovered(wal, twal)'
  BY <1>1, StopIsGone
<1>3. Recovered(wal, twal)' = Recovered(wal', twal')
  BY <1>1 DEF Recovered, ReplayWals
<1>4. Seen' \subseteq Facts
  BY <1>2, <1>3, ReplayOne DEF Recovered
<1>5. \/ \A f \in byTxn \ stale : f \in Seen' <=> f \in facts
      \/ /\ InFlight
         /\ \A f \in (byTxn \cup Touched(Records(txn))) \ stale : f \in Seen' <=> f \in Expected
  BY <1>0, <1>1, <1>2, <1>3 DEF TxnDurable
<1>6. CASE \A f \in byTxn \ stale : f \in Seen' <=> f \in facts
  <2>1. \A f \in byTxn \ stale : f \in Seen' <=> f \in Seen
    BY <1>6, SeenIsFacts
  <2> QED BY <1>1, <1>2, <1>4, <2>1 DEF Contract!LosePower
<1>7. CASE /\ InFlight
           /\ \A f \in (byTxn \cup Touched(Records(txn))) \ stale : f \in Seen' <=> f \in Expected
  <2>1. Buffer.state = "committing" /\ Buffer.ops = txn /\ Seen = facts
    BY <1>0, <1>7, SeenIsFacts, BufferIs
  <2>2. Contract!Outcome = Expected
    BY <1>7, <2>1, SameOps DEF Contract!Outcome, Expected, Buffer
  <2>3. Contract!Touched(Contract!Records(Buffer.ops)) = Touched(Records(txn))
    BY <2>1, SameOps
  <2> QED BY <1>1, <1>2, <1>4, <1>7, <2>1, <2>2, <2>3 DEF Contract!LosePower, Buffer
<1> QED BY <1>5, <1>6, <1>7

\* The first state is one of the contract.
LEMMA ContractInit == Init => Contract!Init
<1> SUFFICES ASSUME Init PROVE Contract!Init
  OBVIOUS
<1>1. TInv
  BY TxnInit
<1>2. pc = "down" /\ ~Committing /\ facts = {} /\ stale = {} /\ byTxn = {} /\ swap = 0
  BY DEF Init, Committing
<1>3. Buffer = [state |-> "none", ops |-> <<>>]
  BY <1>1, <1>2, BufferIs DEF TInv
<1>4. Seen = {}
  BY <1>1, <1>2, SeenIsFacts
<1> QED BY <1>2, <1>3, <1>4 DEF Contract!Init, Contract!NoTxn, Buffer

(***************************************************************************)
(* Every step of the store is one of the contract: a commit is one step,   *)
(* taken when it returns, and durable then.                                *)
(***************************************************************************)
LEMMA ContractSteps == TInv /\ TInv' /\ [Next]_vars => [Contract!Next]_Contract!vars
<1> SUFFICES ASSUME TInv, TInv', [Next]_vars
             PROVE  Contract!Next \/ UNCHANGED Contract!vars
  OBVIOUS
<1>1. CASE UNCHANGED vars
  <2>1. UNCHANGED <<pc, swap, byTxn, stale, mem, facts, txn, file, wal, twal, back>>
    BY <1>1 DEF vars
  <2>2. Committing' = Committing /\ Seen' = Seen
    BY <2>1 DEF Committing, Seen, Recovered, ReplayWals
  <2> QED BY <2>1, <2>2 DEF Contract!vars
<1>2. CASE Next
  BY <1>2, ContractWrites, ContractTxn, ContractUpkeep, ContractStop, ContractPowerLoss
  DEF Next, Contract!Next
<1> QED BY <1>1, <1>2

\* The store implements TxnContract: a caller of dl_txn_commit, dl_txn_rollback,
\* dl_cas_revision, dl_add_fact and dl_delete_fact cannot tell it from one that has
\* no logs, files and compactions, except where the contract leaves a fact open.
THEOREM StoreKeepsContract == Spec => KeepsTxnContract
<1>1. TInv /\ [Next]_vars => TInv'
  BY TxnSteps
<1> QED BY <1>1, TxnInit, ContractInit, ContractSteps, PTL DEF Spec, KeepsTxnContract, Contract!Spec

-----------------------------------------------------------------------------
(***************************************************************************)
(* At most one row of the entity in some contents, and none while a direct *)
(* swap has its second record to write.                                    *)
(***************************************************************************)
OneIn(contents, pending) ==
    \A m, n \in DOMAIN RevRows :
        RevRows[m] \in contents /\ RevRows[n] \in contents => m = n /\ pending = 0

(***************************************************************************)
(* A commit under way was found without a conflict, and nothing has        *)
(* changed since (dl_txn_commit validates before its first append).        *)
(***************************************************************************)
Validated == pc \in {"append", "marker"} \/ Applying => NoConflict(txn, facts)

\* Contents with fewer rows have at most one still.
LEMMA FewerRows ==
    ASSUME NEW before, NEW after, NEW pending, NEW next, OneIn(before, pending),
           \A n \in DOMAIN RevRows : RevRows[n] \in after => RevRows[n] \in before,
           next \in {pending, 0}
    PROVE  OneIn(after, next)
  BY DEF OneIn

(***************************************************************************)
(* revGet answers 0 when the entity has no row, and else names a row it    *)
(* has.                                                                    *)
(***************************************************************************)
LEMMA FirstRow ==
    ASSUME NEW contents
    PROVE  \/ /\ RevGet(contents) = 0
              /\ \A n \in DOMAIN RevRows : RevRows[n] \notin contents
           \/ /\ RevGet(contents) \in DOMAIN RevRows \ {0}
              /\ RevRows[RevGet(contents)] \in contents
<1> DEFINE Rows == {n \in Nat : n \in DOMAIN RevRows /\ RevRows[n] \in contents}
<1>1. DOMAIN RevRows = 1..Len(RevRows) /\ Len(RevRows) \in Nat
  BY RowsAreFacts
<1>2. CASE \A n \in DOMAIN RevRows : RevRows[n] \notin contents
  BY <1>2 DEF RevGet
<1>3. CASE \E n \in DOMAIN RevRows : RevRows[n] \in contents
  <2>1. Rows \subseteq Nat /\ Rows # {}
    BY <1>1, <1>3
  <2>2. IsWellFoundedOn(OpToRel(<, Nat), Nat)
    BY NatLessThanWellFounded
  <2>3. PICK n \in Rows : \A m \in Rows : ~(<<m, n>> \in OpToRel(<, Nat))
    <3> HIDE DEF Rows
    <3> QED BY <2>1, <2>2, WFMin
  <2>4. \A m \in 1..(n - 1) : RevRows[m] \notin contents
    <3> SUFFICES ASSUME NEW m \in 1..(n - 1), RevRows[m] \in contents PROVE FALSE
      OBVIOUS
    <3>1. m \in Rows /\ <<m, n>> \in OpToRel(<, Nat)
      BY <1>1, <2>3 DEF OpToRel
    <3> QED BY <2>3, <3>1
  <2>5. \E k \in DOMAIN RevRows : RevRows[k] \in contents /\ \A m \in 1..(k - 1) : RevRows[m] \notin contents
    BY <2>3, <2>4
  <2>6. /\ RevGet(contents) \in DOMAIN RevRows
        /\ RevRows[RevGet(contents)] \in contents
    BY <1>3, <2>5 DEF RevGet
  <2> QED BY <1>1, <2>6
<1> QED BY <1>2, <1>3

(***************************************************************************)
(* A buffer without conflict leaves the entity at most one row: its other  *)
(* operations are about other facts, and its swap takes the old row away.  *)
(***************************************************************************)
LEMMA PlainOps ==
    ASSUME NEW ops \in Seq(TxnOp), \A i \in 1..Len(ops) : ops[i].op # "cas"
    PROVE  \A n \in DOMAIN RevRows : ~Touches(ops, RevRows[n])
  BY RowsAreFacts DEF Touches, Plain

\* Of all rows a buffer touches those of its swap, and adds the new one.
LEMMA SwapInBuffer ==
    ASSUME NEW ops \in Seq(TxnOp), OneSwap(ops), NEW k \in DOMAIN ops, ops[k].op = "cas"
    PROVE  \A n \in DOMAIN RevRows :
              /\ Touches(Records(ops), RevRows[n]) <=> n \in {ops[k].expected, ops[k].next}
              /\ LastIsAdd(Records(ops), RevRows[n]) <=> n = ops[k].next
<1> DEFINE front == SubSeq(ops, 1, k - 1)
           rest == SubSeq(ops, k + 1, Len(ops))
<1>1. k \in 1..Len(ops) /\ \A i \in 1..Len(ops) : i # k => ops[i] \in TxnOp /\ ops[i].op # "cas"
  BY DEF OneSwap
<1>2. PICK o \in CasOps : o = ops[k]
  BY <1>1, RowsAreFacts
<1>3. Records(ops) = (front \o SwapRecords(o)) \o rest
  <2>1. \A i \in DOMAIN ops : ops[i].op = "cas" => i = k
    BY DEF OneSwap
  <2>2. (CHOOSE i \in DOMAIN ops : ops[i].op = "cas") = k
    BY <2>1
  <2> QED BY <1>2, <2>2 DEF Records
<1>4. front \in Seq(TxnOp) /\ \A i \in 1..Len(front) : front[i].op # "cas"
  BY <1>1
<1>5. rest \in Seq(TxnOp) /\ \A i \in 1..Len(rest) : rest[i].op # "cas"
  <2>1. /\ rest \in Seq(TxnOp) /\ Len(rest) = Len(ops) - k
        /\ \A i \in 1..Len(rest) : rest[i] = ops[k + i]
    BY <1>1
  <2> HIDE DEF rest
  <2>2. \A i \in 1..Len(rest) : k + i \in 1..Len(ops) /\ k + i # k
    BY <1>1, <2>1
  <2> QED BY <1>1, <2>1, <2>2
<1>6. \A n \in DOMAIN RevRows : ~Touches(front, RevRows[n]) /\ ~Touches(rest, RevRows[n])
  <2> HIDE DEF front, rest
  <2> QED BY <1>4, <1>5, PlainOps
<1>7. PICK middle : middle = SwapRecords(o)
  OBVIOUS
<1>8. middle \in Seq(FactRec)
  BY <1>7, SwapIsLogged
<1>9. PICK All : front \in Seq(All) /\ middle \in Seq(All) /\ rest \in Seq(All)
                 /\ front \o middle \in Seq(All)
  <2> HIDE DEF front, rest
  <2>1. \A s \in Seq(TxnOp) : s \in Seq(TxnOp \cup FactRec)
    OBVIOUS
  <2>2. \A s \in Seq(FactRec) : s \in Seq(TxnOp \cup FactRec)
    OBVIOUS
  <2>3. front \in Seq(TxnOp \cup FactRec) /\ middle \in Seq(TxnOp \cup FactRec)
        /\ rest \in Seq(TxnOp \cup FactRec)
    BY <1>4, <1>5, <1>8, <2>1, <2>2
  <2>4. front \o middle \in Seq(TxnOp \cup FactRec)
    BY <2>3
  <2> QED BY <2>3, <2>4
<1>10. \A n \in DOMAIN RevRows :
          /\ Touches(Records(ops), RevRows[n]) <=> Touches(middle, RevRows[n])
          /\ LastIsAdd(Records(ops), RevRows[n]) <=> LastIsAdd(middle, RevRows[n])
  <2> HIDE DEF front, rest
  <2>1. PICK start : start = front \o middle
    OBVIOUS
  <2>2. \A f : /\ Touches(start, f) <=> Touches(front, f) \/ Touches(middle, f)
               /\ LastIsAdd(start, f) <=> IF Touches(middle, f) THEN LastIsAdd(middle, f)
                                          ELSE LastIsAdd(front, f)
    BY <1>9, <2>1, JoinRecords
  <2>3. \A f : /\ Touches(start \o rest, f) <=> Touches(start, f) \/ Touches(rest, f)
               /\ LastIsAdd(start \o rest, f) <=> IF Touches(rest, f) THEN LastIsAdd(rest, f)
                                                  ELSE LastIsAdd(start, f)
    BY <1>9, <2>1, JoinRecords
  <2>4. Records(ops) = start \o rest
    BY <1>3, <1>7, <2>1
  <2> QED BY <1>6, <2>2, <2>3, <2>4, ReplayOne
<1>11. /\ o.expected \in 0..Len(RevRows) /\ o.next \in 1..Len(RevRows)
       /\ DOMAIN RevRows = 1..Len(RevRows)
       /\ \A m, n \in DOMAIN RevRows : RevRows[m] = RevRows[n] => m = n
  BY RowsAreFacts, RevRowsAssumption
<1>12. \A n \in DOMAIN RevRows :
          /\ Touches(middle, RevRows[n]) <=> n \in {o.expected, o.next}
          /\ Touches(middle, RevRows[n]) => (LastIsAdd(middle, RevRows[n]) <=> n = o.next)
  <2> SUFFICES ASSUME NEW n \in DOMAIN RevRows
               PROVE  /\ Touches(middle, RevRows[n]) <=> n \in {o.expected, o.next}
                      /\ Touches(middle, RevRows[n]) => (LastIsAdd(middle, RevRows[n]) <=> n = o.next)
    OBVIOUS
  <2>1. Touches(middle, RevRows[n]) <=>
           (o.expected # 0 /\ RevRows[n] = RevRows[o.expected]) \/ RevRows[n] = RevRows[o.next]
    BY <1>7, SwapIsLogged
  <2>2. Touches(middle, RevRows[n]) => (LastIsAdd(middle, RevRows[n]) <=> n = o.next)
    BY <1>7, <1>11, SwapIsLogged
  <2>3. o.expected # 0 => o.expected \in DOMAIN RevRows
    BY <1>11
  <2>4. n # 0 /\ o.next \in DOMAIN RevRows
    BY <1>11
  <2> QED BY <1>11, <2>1, <2>2, <2>3, <2>4
<1> QED BY <1>2, <1>10, <1>12, ReplayOne

\* So the contents after it have at most one row.
LEMMA BufferRows ==
    ASSUME NEW ops \in Seq(TxnOp), OneSwap(ops), NEW contents, NoConflict(ops, contents),
           OneIn(contents, 0)
    PROVE  OneIn(Replay(contents, Records(ops)), 0)
<1>1. \A n \in DOMAIN RevRows : RevRows[n] \in Facts
  BY RowsAreFacts
<1>2. CASE \A i \in 1..Len(ops) : ops[i].op # "cas"
  <2>1. Records(ops) = ops
    <3>1. DOMAIN ops = 1..Len(ops)
      OBVIOUS
    <3> QED BY <1>2, <3>1, Zenon DEF Records
  <2>2. \A n \in DOMAIN RevRows : ~Touches(Records(ops), RevRows[n])
    BY <1>2, <2>1, PlainOps
  <2>3. \A n \in DOMAIN RevRows :
           RevRows[n] \in Replay(contents, Records(ops)) => RevRows[n] \in contents
    BY <1>1, <2>2, ReplayOne
  <2> QED BY <2>3, FewerRows
<1>3. ASSUME NEW k \in 1..Len(ops), ops[k].op = "cas"
      PROVE  OneIn(Replay(contents, Records(ops)), 0)
  <2>1. ops[k].expected = RevGet(contents)
    BY <1>3 DEF NoConflict
  <2>2. \A n \in DOMAIN RevRows :
           RevRows[n] \in Replay(contents, Records(ops))
              <=> n = ops[k].next \/ (RevRows[n] \in contents /\ n # ops[k].expected)
    <3>1. \A n \in DOMAIN RevRows :
             /\ Touches(Records(ops), RevRows[n]) <=> n \in {ops[k].expected, ops[k].next}
             /\ LastIsAdd(Records(ops), RevRows[n]) <=> n = ops[k].next
      BY <1>3, SwapInBuffer
    <3> QED BY <1>1, <3>1, ReplayOne
  <2>3. \A n \in DOMAIN RevRows : RevRows[n] \in contents => n = ops[k].expected
    BY <2>1, FirstRow DEF OneIn
  <2> QED BY <2>2, <2>3 DEF OneIn
<1> QED BY <1>2, <1>3

(***************************************************************************)
(* The contents a stop stands for have at most one row.                    *)
(***************************************************************************)
LEMMA ExpectedRows ==
    ASSUME TInv, Validated, OneIn(Seen, swap),
           \A n \in DOMAIN RevRows : RevRows[n] \notin stale
    PROVE  OneIn(Expected, 0)
<1>1. TypeOK /\ Control
  BY DEF TInv
<1>2. OneIn(facts, swap) /\ OneIn(facts, 0)
  <2>1. \A n \in DOMAIN RevRows : RevRows[n] \in facts => RevRows[n] \in Seen
    BY SeenIsFacts
  <2> QED BY <2>1, FewerRows
<1>3. CASE InFlight
  <2>1. pc \in {"append", "marker"} \/ Applying
    BY <1>3 DEF InFlight, Applying
  <2> QED BY <1>1, <1>2, <1>3, <2>1, BufferRows DEF Expected, Validated, Control, TypeOK
<1>4. CASE ~InFlight
  BY <1>2, <1>4 DEF Expected
<1> QED BY <1>3, <1>4

\* Every step keeps that.
LEMMA ValidatedSteps == TInv /\ Validated /\ [Next]_vars => Validated'
<1> SUFFICES ASSUME TInv, Validated, [Next]_vars PROVE Validated'
  OBVIOUS
<1>1. CASE UNCHANGED vars
  BY <1>1 DEF vars, Validated, Applying, NoConflict
<1>2. CASE TxnCommit
  <2>1. pc = "txn" /\ NoConflict(txn, mem) /\ txn' = txn /\ facts' = facts
    BY <1>2 DEF TxnCommit, history
  <2>2. mem = facts
    BY <2>1, SeenIsFacts DEF Seen, Committing
  <2> QED BY <2>1, <2>2 DEF Validated, NoConflict
<1>3. CASE TxnAppend \/ TxnMarker \/ TxnSync
  <2>1. pc \in {"append", "marker"} /\ txn' = txn /\ facts' = facts
    BY <1>3 DEF TxnAppend, TxnMarker, TxnSync, history
  <2> QED BY <2>1 DEF Validated, NoConflict
<1>4. CASE TxnApply \/ CompactSave \/ CompactTruncate \/ CompactFail
  <2>1. txn' = txn /\ facts' = facts /\ (Applying' => Applying)
        /\ (pc' \in {"append", "marker"} => pc = pc')
    BY <1>4 DEF TxnApply, CompactSave, CompactTruncate, CompactFail, MaybeCompact, history,
                Applying, TInv, TypeOK
  <2> QED BY <2>1 DEF Validated, NoConflict
<1>5. CASE CompactNext
  BY <1>5 DEF CompactNext, Validated, Applying
<1>6. CASE (\E f \in Plain : AddFact(f) \/ DeleteFact(f))
             \/ (\E c \in CasOps : CasRevision(c.expected, c.next)) \/ CasWrite
  <2>1. pc' \in {"idle", "cas"} \/ (pc' = "compact" /\ back' = "idle")
    BY <1>6 DEF AddFact, DeleteFact, CasRevision, CasWrite, MaybeCompact
  <2> QED BY <2>1 DEF Validated, Applying
<1>7. CASE Open \/ EndReplay \/ TxnBegin \/ TxnRollback \/ (\E o \in TxnOp : TxnBufOp(o))
             \/ TxnAppendFail \/ TxnSyncFail \/ TxnDone \/ Consolidate \/ Close \/ EndClose
             \/ Kill \/ PowerLoss
  <2>1. pc' \notin {"append", "marker", "apply", "compact", "saved"}
    BY <1>7 DEF Open, EndReplay, TxnBegin, TxnRollback, TxnBufOp, TxnAppendFail, TxnSyncFail,
                TxnDone, TxnDiscard, Consolidate, Close, EndClose, Kill, PowerLoss, Forget
  <2> QED BY <2>1 DEF Validated, Applying
<1> QED BY <1>1, <1>2, <1>3, <1>4, <1>5, <1>6, <1>7 DEF Next

(***************************************************************************)
(* Step by step: what is not about the entity or not seen, a direct swap   *)
(* in its two halves, a commit, and a stop, which shows what was expected. *)
(***************************************************************************)
LEMMA QuietRows ==
    ASSUME TInv, TInv', OneIn(Seen, swap),
           \/ EndReplay \/ CompactNext \/ CompactSave \/ CompactTruncate \/ CompactFail
           \/ TxnBegin \/ TxnRollback \/ TxnCommit \/ (\E o \in TxnOp : TxnBufOp(o))
           \/ TxnAppend \/ TxnMarker \/ TxnAppendFail \/ TxnSync \/ TxnSyncFail \/ TxnApply
           \/ Consolidate \/ Close
           \/ Open
    PROVE  OneIn(Seen', swap')
<1>1. CASE Open
  <2>1. pc = "down" /\ pc' = "replay" /\ mem' = Recovered(wal, twal) /\ facts' = mem' /\ swap' = swap
    BY <1>1 DEF Open
  <2> QED BY <2>1, SeenIsFacts, SeenAfter
<1>2. CASE ~Open
  <2>1. pc # "down" /\ pc' # "down" /\ facts' = facts /\ swap' = swap
    BY <1>2 DEF EndReplay, CompactNext, CompactSave, CompactTruncate, CompactFail, TxnBegin,
                TxnRollback, TxnCommit, TxnBufOp, TxnAppend, TxnMarker, TxnAppendFail, TxnSync,
                TxnSyncFail, TxnApply, TxnDiscard, Consolidate, Close, MaybeCompact, history,
                TInv, TypeOK
  <2> QED BY <2>1, SeenIsFacts, SeenAfter
<1> QED BY <1>1, <1>2

\* Direct writes outside the entity, and a direct swap in its two halves.
LEMMA DirectRows ==
    ASSUME TInv, TInv', OneIn(Seen, swap),
           (\E f \in Plain : AddFact(f) \/ DeleteFact(f))
             \/ (\E c \in CasOps : CasRevision(c.expected, c.next)) \/ CasWrite
    PROVE  OneIn(Seen', swap')
<1>0. TypeOK
  BY DEF TInv
<1>1. pc \in {"idle", "cas"} /\ pc' # "down" /\ Seen = facts /\ Seen' = facts' /\ mem = facts
  <2>1. pc \in {"idle", "cas"} /\ pc' # "down"
    BY DEF AddFact, DeleteFact, CasRevision, CasWrite, MaybeCompact
  <2>2. ~Committing /\ Seen = mem
    BY <2>1 DEF Committing, Seen
  <2> QED BY <2>1, <2>2, SeenIsFacts, SeenAfter
<1>2. ASSUME NEW f \in Plain, AddFact(f) \/ DeleteFact(f) PROVE OneIn(Seen', swap')
  <2>1. facts' \subseteq facts \cup {f} /\ swap' = swap
    BY <1>2 DEF AddFact, DeleteFact, DirectWrite, AddRec, DelRec
  <2>2. \A n \in DOMAIN RevRows : RevRows[n] # f
    BY DEF Plain
  <2>3. \A n \in DOMAIN RevRows : RevRows[n] \in Seen' => RevRows[n] \in Seen
    BY <1>1, <2>1, <2>2
  <2> QED BY <2>1, <2>3, FewerRows
<1>3. ASSUME NEW c \in CasOps, CasRevision(c.expected, c.next) PROVE OneIn(Seen', swap')
  <2>1. RevGet(facts) = c.expected
    BY <1>1, <1>3 DEF CasRevision
  <2>2. \A n \in DOMAIN RevRows : RevRows[n] \notin facts'
    <3>1. CASE c.expected = 0
      <4>1. facts' = facts
        BY <1>3, <3>1 DEF CasRevision, history
      <4> QED BY <2>1, <3>1, <4>1, FirstRow
    <3>2. CASE c.expected # 0
      <4>1. facts' = facts \ {RevRows[c.expected]}
        BY <1>3, <3>2 DEF CasRevision, DirectWrite, DelRec
      <4>2. c.expected \in DOMAIN RevRows /\ RevRows[c.expected] \in facts
        BY <2>1, <3>2, FirstRow
      <4>3. \A n \in DOMAIN RevRows : RevRows[n] \in facts => n = c.expected
        BY <1>1, <4>2 DEF OneIn
      <4> QED BY <4>1, <4>3
    <3> QED BY <3>1, <3>2
  <2> QED BY <1>1, <2>2 DEF OneIn
<1>4. CASE CasWrite
  <2>1. facts' = facts \cup {RevRows[swap]} /\ swap' = 0 /\ pc = "cas"
    BY <1>4 DEF CasWrite, DirectWrite, AddRec
  <2>2. swap # 0 /\ swap \in DOMAIN RevRows
    BY <1>0, <2>1, RowsAreFacts DEF TypeOK, Revisions
  <2>3. \A n \in DOMAIN RevRows : RevRows[n] \notin facts
    BY <1>1, <2>2 DEF OneIn
  <2>4. \A n \in DOMAIN RevRows : RevRows[n] \in facts' => n = swap
    BY <2>1, <2>2, <2>3, RevRowsAssumption
  <2> QED BY <1>1, <2>1, <2>4 DEF OneIn
<1> QED BY <1>2, <1>3, <1>4

\* A stop shows the expected contents.
LEMMA StopRows ==
    ASSUME TInv, TInv', Validated, OneIn(Seen, swap),
           \A n \in DOMAIN RevRows : RevRows[n] \notin stale,
           Forget, UNCHANGED <<file, wal, twal>>
    PROVE  OneIn(Seen', swap')
<1>1. Seen' = Recovered(wal, twal) /\ swap' = 0
  <2>1. pc' = "down" /\ swap' = 0 /\ ~Committing' /\ Seen' = Recovered(wal, twal)'
    BY DEF Forget, Seen, Committing
  <2> QED BY <2>1 DEF Recovered, ReplayWals
<1>2. Recovered(wal, twal) \ stale = Expected \ stale
  BY AtomicHolds DEF TxnAtomic
<1>3. \A n \in DOMAIN RevRows : RevRows[n] \in Seen' => RevRows[n] \in Expected
  BY <1>1, <1>2
<1> QED BY <1>1, <1>3, ExpectedRows, FewerRows

\* Every step leaves at most one row.
LEMMA RowsStep ==
    ASSUME TInv, TInv', Validated, [Next]_vars, OneIn(Seen, swap), ~CutsLogs,
           \A n \in DOMAIN RevRows : RevRows[n] \notin stale
    PROVE  OneIn(Seen', swap')
<1>1. CASE UNCHANGED vars
  <2>1. Seen' = Seen /\ swap' = swap
    BY <1>1 DEF vars, Seen, Committing, Recovered, ReplayWals
  <2> QED BY <2>1
<1>2. CASE TxnDone
  <2>1. /\ pc = "apply" /\ pc' = "idle" /\ swap' = swap /\ facts' = Replay(facts, Records(txn))
    BY <1>2 DEF TxnDone, TxnDiscard
  <2>2. Seen = facts /\ Seen' = facts' /\ swap = 0
    BY <2>1, SeenIsFacts, SeenAfter DEF TInv, TypeOK
  <2>3. OneSwap(txn) /\ txn \in Seq(TxnOp) /\ NoConflict(txn, facts)
    BY <2>1 DEF TInv, TypeOK, Control, Validated, Applying
  <2> QED BY <2>1, <2>2, <2>3, BufferRows
<1>3. CASE EndClose \/ Kill \/ PowerLoss
  <2>1. Forget /\ file' = file
    BY <1>3 DEF EndClose, Kill, PowerLoss, disk
  <2>2. UNCHANGED <<wal, twal>>
    BY <2>1 DEF CutsLogs, Forget
  <2> QED BY <2>1, <2>2, StopRows
<1> QED BY <1>1, <1>2, <1>3, QuietRows, DirectRows DEF Next

(***************************************************************************)
(* No step, and no stop of the process, gives an entity a second revision  *)
(* (dl_cas_revision, dl_txn_commit), nor a row between the two records of  *)
(* a direct swap; except for rows in doubt, and when a power loss cuts a   *)
(* log.                                                                    *)
(***************************************************************************)
THEOREM RevisionsStaySingle == Spec => OneRevision
<1>1. Init => Validated
  BY DEF Init, Validated, Applying
<1>2. TInv /\ TInv' /\ Validated /\ [Next]_vars =>
         [/\ \A n \in DOMAIN RevRows : RevRows[n] \notin stale
          /\ ~CutsLogs
          /\ OneRow
          => OneRow']_vars
  <2>1. OneRow <=> OneIn(Seen, swap)
    BY DEF OneRow, OneIn, Shown
  <2>2. OneRow' <=> OneIn(Seen', swap')
    BY DEF OneRow, OneIn, Shown
  <2> QED BY <2>1, <2>2, RowsStep
<1> QED BY <1>1, <1>2, TxnInit, TxnSteps, ValidatedSteps, PTL DEF Spec, OneRevision

=============================================================================
