---------------------------- MODULE ReaderProofs ----------------------------
(***************************************************************************)
(* What a read-only handle sees beside a live writer, for any number of    *)
(* readers, relations and facts, any transactions and any log bounds.      *)
(*                                                                         *)
(* The writer's side of the invariant ties files and logs to the committed *)
(* contents at every moment (Recoverable), the writer's memory to what it  *)
(* has still to apply (Memory), and the two along a compaction (Window) or *)
(* the recovery of txn.wal (Recovery).  The reader's side says what each   *)
(* relation of a handle holds while it opens (Opening) and afterwards      *)
(* (Live); that no file is replaced meanwhile is what the window is for.   *)
(***************************************************************************)
EXTENDS ReaderOpen, DirLock, WalProofs

(***************************************************************************)
(* The WAL of a relation holds records of its facts.                       *)
(***************************************************************************)
OwnRecords == \A r \in Rels : \A i \in 1..Len(wal[r]) : RelOf[wal[r][i].f] = r

(***************************************************************************)
(* A file with its WAL replayed, below txn.wal.                            *)
(***************************************************************************)
InWal(f) == f \in Replay(file, wal[RelOf[f]])

(***************************************************************************)
(* At every moment the files and logs give the committed contents.         *)
(***************************************************************************)
Recoverable ==
    \A f \in Facts :
        f \in facts <=> IF Touches(twal, f) THEN LastIsAdd(twal, f) ELSE InWal(f)

(***************************************************************************)
(* The operations of a commit not yet in memory are those still to apply,  *)
(* and txn.wal has them.                                                   *)
(***************************************************************************)
Applying == pc = "apply" \/ (pc \in {"wait", "sweep"} /\ back = "apply")

Memory ==
    /\ pc # "down" => facts = Replay(mem, txn)
    /\ ~Applying => txn = <<>>
    /\ \A f \in Facts : Touches(txn, f) => Touches(twal, f)

(***************************************************************************)
(* The mutation window excludes opening readers, and a saved file whose    *)
(* WAL awaits truncation is what memory holds.                             *)
(***************************************************************************)
Window ==
    /\ window <=> pc = "sweep"
    /\ window => \A p \in Readers : rpc[p] # "open"
    /\ saved # {} => window
    /\ \A f \in Facts : RelOf[f] \in saved => (f \in file <=> f \in mem)

(***************************************************************************)
(* When txn.wal is emptied at the end of an open, the relations it touches *)
(* have been compacted.                                                    *)
(***************************************************************************)
Recovery ==
    pc \in {"wait", "sweep"} /\ back = "replay" =>
        \A r \in RoTouched \ todo :
            /\ \A f \in FactsOf(r) : f \in file <=> f \in mem
            /\ r \in saved \/ wal[r] = <<>>

(***************************************************************************)
(* The committed contents are among the moments reader p may show.         *)
(***************************************************************************)
Moments(p) ==
    /\ rpc[p] # "none" => facts \in since[p]
    /\ rpc[p] = "none" => direct[p] = {} /\ \A r \in Rels : rst[p][r] = "unopened"

(***************************************************************************)
(* A relation that was not read has no contents in the handle.             *)
(***************************************************************************)
Unread(p) ==
    \A f \in rmem[p] : rst[p][RelOf[f]] \notin {"unopened", "sized", "deferred"}

(***************************************************************************)
(* While p opens: the facts of relation r that txn.wal does not touch are  *)
(* as of the moment p came to r, and as of now unless written directly.    *)
(***************************************************************************)
OpenRead(p, r) ==
    /\ \E s \in since[p] : \A f \in FactsOf(r) :
          ~Touches(twal, f) => (f \in RoContents(p) <=> f \in s)
    /\ \A f \in FactsOf(r) \ direct[p] :
          ~Touches(twal, f) => (f \in RoContents(p) <=> f \in facts)

Opening(p) ==
    rpc[p] = "open" =>
        /\ \A f \in direct[p] : ~Touches(twal, f)
        /\ \A r \in Rels :
              /\ rst[p][r] = "based" =>
                    \A f \in FactsOf(r) : f \in rmem[p] <=> f \in file
              /\ rst[p][r] \in {"deferred", "loaded"} => OpenRead(p, r)

(***************************************************************************)
(* A live handle: its loaded relations are real, and so are the file and   *)
(* the writer's memory of a relation it may yet touch.                     *)
(***************************************************************************)
SameIn(r, c, d) == \A f \in FactsOf(r) : f \in c <=> f \in d

LiveRead(p, r) ==
    \E s, t \in since[p] : \A f \in FactsOf(r) :
        f \in rmem[p] <=> f \in (IF f \in direct[p] THEN s ELSE t)

LiveTouch(p, r) ==
    /\ \E s \in since[p] : SameIn(r, file, s)
    /\ pc # "down" => \E s \in since[p] : SameIn(r, mem, s)

Live(p) ==
    rpc[p] = "live" =>
        \A r \in Rels :
            /\ rst[p][r] \in {"deferred", "loaded"}
            /\ rst[p][r] = "loaded" => LiveRead(p, r)
            /\ rst[p][r] = "deferred" => LiveTouch(p, r)

ReaderOk(p) == Moments(p) /\ Unread(p) /\ Opening(p) /\ Live(p)

WriterInv == OwnRecords /\ Recoverable /\ Memory /\ Window /\ Recovery

ReaderInv == \A p \in Readers : ReaderOk(p)

RInv == TypeOK /\ WriterInv /\ ReaderInv

-----------------------------------------------------------------------------
(***************************************************************************)
(* The empty log is a log of any kind.                                     *)
(***************************************************************************)
LEMMA EmptyLog == \A S : <<>> \in Seq(S)
  OBVIOUS

(***************************************************************************)
(* Before anything is opened.                                              *)
(***************************************************************************)
LEMMA ReaderInit == Init => RInv
<1> SUFFICES ASSUME Init PROVE RInv
  OBVIOUS
<1>1. TypeOK
  <2>1. wal \in [Rels -> Seq(FactRec)] /\ txn \in Seq(FactRec) /\ twal \in Seq(TxnRec)
    BY EmptyLog DEF Init
  <2>2. /\ rpc \in [Readers -> {"none", "open", "live"}]
        /\ rst \in [Readers -> [Rels -> {"unopened", "sized", "based", "deferred", "loaded"}]]
    BY DEF Init
  <2>3. /\ rmem \in [Readers -> SUBSET Facts]
        /\ since \in [Readers -> SUBSET SUBSET Facts]
        /\ direct \in [Readers -> SUBSET Facts]
    BY DEF Init
  <2> QED BY <2>1, <2>2, <2>3 DEF Init, TypeOK
<1>2. \A f : ~Touches(<<>>, f) /\ ~LastIsAdd(<<>>, f)
  BY DEF Touches, LastIsAdd
<1>3. \A f \in Facts : wal[RelOf[f]] = <<>>
  BY RelOfAssumption DEF Init
<1>4. OwnRecords
  BY DEF Init, OwnRecords
<1>5. Recoverable /\ Memory
  BY <1>2, <1>3 DEF Init, Recoverable, Memory, Replay, InWal
<1>6. Window /\ Recovery
  BY DEF Init, Window, Recovery
<1>7. ReaderInv
  BY DEF Init, ReaderInv, ReaderOk, Moments, Unread, Opening, Live
<1> QED BY <1>1, <1>4, <1>5, <1>6, <1>7 DEF RInv, WriterInv

(***************************************************************************)
(* A transaction log with one more committed transaction.                  *)
(***************************************************************************)
LEMMA TxnAppended ==
    ASSUME TypeOK, NEW ops \in Txns, NEW new, new = twal \o ops \o <<CommitRec>>
    PROVE  /\ new \in Seq(TxnRec)
           /\ \A f \in Facts :
                /\ Touches(new, f) <=> Touches(twal, f) \/ Touches(ops, f)
                /\ LastIsAdd(new, f) <=> IF Touches(ops, f) THEN LastIsAdd(ops, f)
                                         ELSE LastIsAdd(twal, f)
<1>1. ops \in Seq(TxnRec) /\ twal \in Seq(TxnRec)
  <2>1. ops \in Seq(FactRec) /\ FactRec \subseteq TxnRec
    BY TxnsAssumption DEF TxnRec
  <2> QED BY <2>1 DEF TypeOK
<1> DEFINE mark == <<CommitRec>>
<1>2. mark \in Seq(TxnRec) /\ \A f \in Facts : ~Touches(mark, f)
  BY NoFactAssumption DEF TxnRec, Touches, CommitRec
<1> HIDE DEF mark
<1>3. twal \o ops \in Seq(TxnRec) /\ new = (twal \o ops) \o mark
  BY <1>1 DEF mark
<1>4. new \in Seq(TxnRec)
  BY <1>2, <1>3
<1>5. \A f \in Facts : /\ Touches(new, f) <=> Touches(twal \o ops, f)
                       /\ LastIsAdd(new, f) <=> LastIsAdd(twal \o ops, f)
  <2>1. PICK head \in Seq(TxnRec) : head = twal \o ops
    BY <1>3
  <2>2. \A f : /\ Touches(head \o mark, f) <=> Touches(head, f) \/ Touches(mark, f)
               /\ LastIsAdd(head \o mark, f) <=> IF Touches(mark, f) THEN LastIsAdd(mark, f)
                                                ELSE LastIsAdd(head, f)
    BY <1>2, JoinRecords
  <2>3. new = head \o mark
    BY <1>3, <2>1
  <2>4. \A f \in Facts : /\ Touches(new, f) <=> Touches(head, f)
                         /\ LastIsAdd(new, f) <=> LastIsAdd(head, f)
    BY <1>2, <2>2, <2>3
  <2> QED BY <2>1, <2>4
<1>6. \A f : /\ Touches(twal \o ops, f) <=> Touches(twal, f) \/ Touches(ops, f)
             /\ LastIsAdd(twal \o ops, f) <=> IF Touches(ops, f) THEN LastIsAdd(ops, f)
                                              ELSE LastIsAdd(twal, f)
  BY <1>1, JoinRecords
<1> QED BY <1>4, <1>5, <1>6

(***************************************************************************)
(* The types of every step of the writer and of the readers.               *)
(***************************************************************************)
LEMMA ReaderTypes == RInv /\ [Next]_vars => TypeOK'
<1> SUFFICES ASSUME RInv, [Next]_vars PROVE TypeOK'
  OBVIOUS
<1>0. TypeOK /\ Window
  BY DEF RInv, WriterInv
<1>a. \A c, log : Replay(c, log) \subseteq Facts
  BY ReplayOne
<1>b. ASSUME NEW c \in SUBSET Facts, CommitFacts(c)
      PROVE  facts' \subseteq Facts /\ since' \in [Readers -> SUBSET SUBSET Facts]
  BY <1>0, <1>b DEF CommitFacts, TypeOK
<1>1. CASE Open
  BY <1>0, <1>a, <1>1 DEF Open, TypeOK, disk, reader, history
<1>2. ASSUME NEW rec \in FactRec, DirectWrite(rec) PROVE TypeOK'
  <2>1. rec.f \in Facts /\ RelOf[rec.f] \in Rels
    BY RelOfAssumption DEF FactRec
  <2>2. mem' \subseteq Facts /\ dirty' \subseteq Rels /\ wal' \in [Rels -> Seq(FactRec)]
    BY <1>0, <1>2, <2>1 DEF DirectWrite, TypeOK
  <2>3. facts' \subseteq Facts /\ since' \in [Readers -> SUBSET SUBSET Facts]
    BY <1>2, <1>b, <2>2 DEF DirectWrite
  <2>4. pc' \in {"idle", "wait"} /\ back' \in {back, "idle"} /\ todo' \subseteq Rels
    BY <1>0, <1>2, <2>1 DEF DirectWrite, MaybeCompact, TypeOK
  <2>5. direct' \in [Readers -> SUBSET Facts]
    BY <1>0, <1>2, <2>1 DEF DirectWrite, TypeOK
  <2>6. UNCHANGED <<window, saved, txn, file, twal, rpc, rst, rmem>>
    BY <1>2 DEF DirectWrite, reader
  <2> QED BY <1>0, <2>2, <2>3, <2>4, <2>5, <2>6 DEF TypeOK
<1>3. ASSUME NEW ops \in Txns, Commit(ops) PROVE TypeOK'
  <2>1. twal' \in Seq(TxnRec) /\ txn' \in Seq(FactRec)
    BY <1>0, <1>3, TxnAppended, TxnsAssumption DEF Commit
  <2>2. facts' \subseteq Facts /\ since' \in [Readers -> SUBSET SUBSET Facts]
    BY <1>3, <1>a, <1>b DEF Commit
  <2>3. direct' \in [Readers -> SUBSET Facts]
    BY <1>0, <1>3 DEF Commit, TypeOK
  <2>4. pc' = "apply" /\ UNCHANGED <<back, window, mem, dirty, todo, saved, file, wal, rpc, rst, rmem>>
    BY <1>3 DEF Commit, reader
  <2> QED BY <1>0, <2>1, <2>2, <2>3, <2>4 DEF TypeOK
<1>4. CASE Apply
  <2>1. Head(txn) \in FactRec /\ Tail(txn) \in Seq(FactRec)
    BY <1>0, <1>4 DEF Apply, TypeOK
  <2>2. Head(txn).f \in Facts /\ RelOf[Head(txn).f] \in Rels
    BY <2>1, RelOfAssumption DEF FactRec
  <2>3. mem' \subseteq Facts /\ dirty' \subseteq Rels
    BY <1>0, <1>4, <2>2 DEF Apply, TypeOK
  <2>4. pc' \in {"apply", "wait"} /\ back' \in {back, "apply"} /\ todo' \subseteq Rels
    BY <1>0, <1>4, <2>2 DEF Apply, MaybeCompact, TypeOK
  <2>5. since' \in [Readers -> SUBSET SUBSET Facts]
    BY <1>0, <1>4, <2>3 DEF Apply, TypeOK
  <2>6. txn' = Tail(txn) /\ UNCHANGED <<window, saved, file, wal, twal, rpc, rst, rmem, facts, direct>>
    BY <1>4 DEF Apply, disk, reader
  <2> QED BY <1>0, <2>1, <2>3, <2>4, <2>5, <2>6 DEF TypeOK
<1>5. CASE EndApply \/ Close \/ CompactBegin
  BY <1>0, <1>5 DEF EndApply, Close, CompactBegin, TypeOK, disk, reader, history
<1>6. CASE CompactSave
  BY <1>0, <1>6 DEF CompactSave, TypeOK, reader, history
<1>7. CASE CompactTruncate
  BY <1>0, <1>7 DEF CompactTruncate, TypeOK, reader, history
<1>8. CASE CompactEnd
  <2>1. pc' \in {"down", "idle", "apply"} /\ back' = "idle"
    BY <1>0, <1>8 DEF CompactEnd, TypeOK
  <2>2. mem' \subseteq Facts /\ dirty' \subseteq Rels
    BY <1>0, <1>8 DEF CompactEnd, TypeOK
  <2>3. twal' \in Seq(TxnRec)
    BY <1>0, <1>8, EmptyLog DEF CompactEnd, TypeOK
  <2>4. window' = FALSE /\ UNCHANGED <<todo, saved, txn, file, wal, rpc, rst, rmem, facts, since, direct>>
    BY <1>8 DEF CompactEnd, reader, history
  <2> QED BY <1>0, <2>1, <2>2, <2>3, <2>4 DEF TypeOK
<1>9. CASE Kill
  <2>1. txn' \in Seq(FactRec)
    BY <1>9, EmptyLog DEF Kill
  <2>2. UNCHANGED <<file, wal, twal, rpc, rst, rmem, facts, since, direct>>
    BY <1>9 DEF Kill, disk, reader, history
  <2> QED BY <1>0, <1>9, <2>1, <2>2 DEF Kill, TypeOK
<1>10. ASSUME NEW p \in Readers, RoOpen(p) \/ RoOpened(p) \/ RoClose(p) PROVE TypeOK'
  <2>1. UNCHANGED <<pc, back, window, mem, dirty, todo, saved, txn, file, wal, twal, facts>>
    BY <1>10 DEF RoOpen, RoOpened, RoClose, writer, disk, history
  <2>2. CASE RoOpen(p)
    BY <1>0, <2>1, <2>2 DEF RoOpen, TypeOK
  <2>3. CASE RoOpened(p)
    BY <1>0, <1>a, <2>1, <2>3 DEF RoOpened, TypeOK, history
  <2>4. CASE RoClose(p)
    BY <1>0, <2>1, <2>4 DEF RoClose, TypeOK
  <2> QED BY <1>10, <2>2, <2>3, <2>4
<1>11. ASSUME NEW p \in Readers, NEW r \in Rels,
              RoWalOpen(p, r) \/ RoLoad(p, r) \/ RoReplay(p, r) \/ RoTouch(p, r)
       PROVE  TypeOK'
  <2>1. /\ UNCHANGED <<pc, back, window, mem, dirty, todo, saved, txn, file, wal, twal,
                       rpc, facts, since, direct>>
        /\ \E st \in {"sized", "based", "deferred", "loaded"} : rst' = [rst EXCEPT ![p][r] = st]
        /\ rmem' = rmem \/ \E c \in SUBSET Facts : rmem' = [rmem EXCEPT ![p] = c]
    BY <1>0, <1>a, <1>11
    DEF RoWalOpen, RoLoad, RoReplay, RoTouch, writer, disk, history, TypeOK, FactsOf
  <2>2. PICK st \in {"sized", "based", "deferred", "loaded"} : rst' = [rst EXCEPT ![p][r] = st]
    BY <2>1
  <2>3. rst[p] \in [Rels -> {"unopened", "sized", "based", "deferred", "loaded"}]
    BY <1>0 DEF TypeOK
  <2>4. [rst[p] EXCEPT ![r] = st] \in [Rels -> {"unopened", "sized", "based", "deferred", "loaded"}]
    BY <2>3
  <2>5. rst' \in [Readers -> [Rels -> {"unopened", "sized", "based", "deferred", "loaded"}]]
    BY <1>0, <2>2, <2>4 DEF TypeOK
  <2>6. rmem' \in [Readers -> SUBSET Facts]
    BY <1>0, <2>1 DEF TypeOK
  <2> QED BY <1>0, <2>1, <2>5, <2>6 DEF TypeOK
<1>12. CASE UNCHANGED vars
  BY <1>0, <1>12 DEF vars, TypeOK
<1> QED BY <1>1, <1>2, <1>3, <1>4, <1>5, <1>6, <1>7, <1>8, <1>9, <1>10, <1>11, <1>12 DEF Next

-----------------------------------------------------------------------------
(***************************************************************************)
(* The writer's memory is the committed contents wherever txn.wal has no   *)
(* record, and everywhere when no commit is being applied.                 *)
(***************************************************************************)
LEMMA MemoryIsCommitted ==
    ASSUME TypeOK, Memory, pc # "down"
    PROVE  /\ \A f \in Facts : ~Touches(twal, f) => (f \in mem <=> f \in facts)
           /\ ~Applying => mem = facts /\ txn = <<>>
<1>1. \A f \in Facts : f \in facts <=> LastIsAdd(txn, f) \/ (f \in mem /\ ~Touches(txn, f))
  BY ReplayOne DEF Memory
<1>2. \A f \in Facts : ~Touches(twal, f) => (f \in mem <=> f \in facts)
  BY <1>1, ReplayOne DEF Memory
<1>3. ~Applying => mem = facts /\ txn = <<>>
  <2> SUFFICES ASSUME ~Applying PROVE mem = facts /\ txn = <<>>
    OBVIOUS
  <2>1. txn = <<>>
    BY DEF Memory
  <2>2. mem \subseteq Facts /\ facts \subseteq Facts
    BY DEF TypeOK
  <2>3. \A f \in Facts : f \in facts <=> f \in mem
    BY <1>1, <2>1, ReplayOne
  <2> QED BY <2>1, <2>2, <2>3
<1> QED BY <1>2, <1>3

(***************************************************************************)
(* Files, logs and committed contents left alone.                          *)
(***************************************************************************)
LEMMA DiskKept ==
    ASSUME OwnRecords, Recoverable, UNCHANGED <<file, wal, twal, facts>>
    PROVE  OwnRecords' /\ Recoverable'
  BY DEF OwnRecords, Recoverable, InWal

(***************************************************************************)
(* A direct write.                                                         *)
(***************************************************************************)
LEMMA WriteStep ==
    ASSUME TypeOK, WriterInv, NEW rec \in FactRec, DirectWrite(rec)
    PROVE  WriterInv'
<1> DEFINE q == RelOf[rec.f]
<1>0. OwnRecords /\ Recoverable /\ Memory /\ Window
  BY DEF WriterInv
<1>1. /\ rec.f \in Facts /\ q \in Rels
      /\ wal \in [Rels -> Seq(FactRec)]
      /\ \A r \in Rels : wal[r] \in Seq(FactRec)
  BY RelOfAssumption DEF FactRec, TypeOK
<1>2. pc = "idle" /\ ~Applying /\ ~Touches(twal, rec.f)
  BY DEF DirectWrite, Applying
<1>3. mem = facts /\ txn = <<>>
  BY <1>0, <1>2, MemoryIsCommitted
<1>4. /\ wal' = [wal EXCEPT ![q] = Append(@, rec)]
      /\ facts' = mem'
      /\ \A f \in Facts : f \in mem' <=> IF rec.f = f THEN rec.op = "add" ELSE f \in mem
      /\ UNCHANGED <<window, saved, txn, file, twal, rpc>>
  <2>1. rec.op = "add" => mem' = mem \cup {rec.f}
    BY DEF DirectWrite
  <2>2. rec.op # "add" => mem' = mem \ {rec.f}
    BY DEF DirectWrite
  <2>3. \A f \in Facts : f \in mem' <=> IF rec.f = f THEN rec.op = "add" ELSE f \in mem
    BY <2>1, <2>2
  <2> QED BY <2>3 DEF DirectWrite, CommitFacts, reader
<1>5. \/ pc' = "idle"
      \/ pc' = "wait" /\ back' = "idle"
  BY DEF DirectWrite, MaybeCompact
<1>6. \A r \in Rels : wal'[r] = IF r = q THEN Append(wal[r], rec) ELSE wal[r]
  BY <1>1, <1>4
<1>7. OwnRecords'
  <2> SUFFICES ASSUME NEW r \in Rels, NEW i \in 1..Len(wal'[r]) PROVE RelOf[wal'[r][i].f] = r
    BY DEF OwnRecords
  <2>1. CASE r # q
    BY <1>0, <1>6, <2>1 DEF OwnRecords
  <2>2. CASE r = q
    <3>1. wal'[r] = Append(wal[r], rec)
      BY <1>6, <2>2
    <3>2. CASE i = Len(wal[r]) + 1
      BY <1>1, <2>2, <3>1, <3>2
    <3>3. CASE i # Len(wal[r]) + 1
      <4>1. i \in 1..Len(wal[r]) /\ wal'[r][i] = wal[r][i]
        BY <1>1, <3>1, <3>3
      <4> QED BY <1>0, <4>1 DEF OwnRecords
    <3> QED BY <3>2, <3>3
  <2> QED BY <2>1, <2>2
<1>8. Recoverable'
  <2> SUFFICES ASSUME NEW f \in Facts
               PROVE  f \in facts' <=> IF Touches(twal, f) THEN LastIsAdd(twal, f)
                                       ELSE f \in Replay(file, wal'[RelOf[f]])
    BY <1>4 DEF Recoverable, InWal
  <2>1. RelOf[f] \in Rels
    BY RelOfAssumption
  <2>2. f \in facts' <=> IF rec.f = f THEN rec.op = "add" ELSE f \in facts
    BY <1>3, <1>4
  <2>3. f \in facts <=> IF Touches(twal, f) THEN LastIsAdd(twal, f) ELSE InWal(f)
    BY <1>0 DEF Recoverable
  <2>4. f \in Replay(file, wal'[RelOf[f]]) <=> IF rec.f = f THEN rec.op = "add" ELSE InWal(f)
    <3>1. CASE RelOf[f] # q
      BY <1>6, <2>1, <3>1 DEF InWal
    <3>2. CASE RelOf[f] = q
      <4>1. PICK log \in Seq(FactRec) : log = wal[q] /\ wal'[q] = Append(log, rec)
        BY <1>1, <1>6
      <4>2. /\ Touches(Append(log, rec), f) <=> (Touches(log, f) \/ rec.f = f)
            /\ LastIsAdd(Append(log, rec), f) <=>
                  IF rec.f = f THEN rec.op = "add" ELSE LastIsAdd(log, f)
        BY AppendRecord
      <4>3. f \in Replay(file, Append(log, rec)) <=>
              IF rec.f = f THEN rec.op = "add" ELSE f \in Replay(file, log)
        BY <4>2, ReplayOne
      <4> QED BY <3>2, <4>1, <4>3 DEF InWal
    <3> QED BY <3>1, <3>2
  <2> QED BY <1>2, <2>2, <2>3, <2>4
<1>9. Memory'
  <2>1. mem' \subseteq Facts
    BY <1>1 DEF DirectWrite, TypeOK
  <2>2. facts' = Replay(mem', txn')
    BY <1>3, <1>4, <2>1, ReplayEmpty
  <2> QED BY <1>3, <1>4, <2>2, ReplayOne DEF Memory
<1>10. Window' /\ Recovery'
  BY <1>0, <1>2, <1>4, <1>5 DEF Window, Recovery
<1> QED BY <1>7, <1>8, <1>9, <1>10 DEF WriterInv

(***************************************************************************)
(* A commit, and its application in memory.                                *)
(***************************************************************************)
LEMMA CommitStep ==
    ASSUME TypeOK, WriterInv, NEW ops \in Txns, Commit(ops)
    PROVE  WriterInv'
<1>0. OwnRecords /\ Recoverable /\ Memory /\ Window
  BY DEF WriterInv
<1>1. pc = "idle" /\ ~Applying
  BY DEF Commit, Applying
<1>2. mem = facts /\ txn = <<>>
  BY <1>0, <1>1, MemoryIsCommitted
<1>3. /\ pc' = "apply" /\ txn' = ops /\ facts' = Replay(facts, ops)
      /\ twal' = twal \o ops \o <<CommitRec>>
      /\ UNCHANGED <<window, saved, mem, file, wal, rpc>>
  BY DEF Commit, CommitFacts, reader
<1>4. \A f \in Facts :
         /\ Touches(twal', f) <=> Touches(twal, f) \/ Touches(ops, f)
         /\ LastIsAdd(twal', f) <=> IF Touches(ops, f) THEN LastIsAdd(ops, f)
                                    ELSE LastIsAdd(twal, f)
  BY <1>3, TxnAppended
<1>5. OwnRecords'
  BY <1>0, <1>3 DEF OwnRecords
<1>6. Recoverable'
  <2> SUFFICES ASSUME NEW f \in Facts
               PROVE  f \in facts' <=> IF Touches(twal', f) THEN LastIsAdd(twal', f) ELSE InWal(f)
    BY <1>3 DEF Recoverable, InWal
  <2>1. f \in facts' <=> LastIsAdd(ops, f) \/ (f \in facts /\ ~Touches(ops, f))
    BY <1>3, ReplayOne
  <2>2. f \in facts <=> IF Touches(twal, f) THEN LastIsAdd(twal, f) ELSE InWal(f)
    BY <1>0 DEF Recoverable
  <2> QED BY <1>4, <2>1, <2>2, ReplayOne
<1>7. Memory'
  BY <1>2, <1>3, <1>4 DEF Memory, Applying
<1>8. Window' /\ Recovery'
  BY <1>0, <1>1, <1>3 DEF Window, Recovery
<1> QED BY <1>5, <1>6, <1>7, <1>8 DEF WriterInv

\* Applying a logged commit in memory (dl_txn_commit) keeps the invariant of the writer.
LEMMA ApplyStep ==
    ASSUME TypeOK, WriterInv, Apply
    PROVE  WriterInv'
<1>0. OwnRecords /\ Recoverable /\ Memory /\ Window
  BY DEF WriterInv
<1>1. pc = "apply" /\ txn # <<>> /\ txn \in Seq(FactRec) /\ mem \in SUBSET Facts
  BY DEF Apply, TypeOK
<1>2. /\ mem' = IF Head(txn).op = "add" THEN mem \cup {Head(txn).f} ELSE mem \ {Head(txn).f}
      /\ txn' = Tail(txn)
      /\ UNCHANGED <<window, saved, file, wal, twal, facts, rpc>>
      /\ pc' = "apply" \/ (pc' = "wait" /\ back' = "apply")
  BY DEF Apply, MaybeCompact, disk, reader
<1>3. OwnRecords' /\ Recoverable'
  BY <1>0, <1>2, DiskKept
<1>4. Memory'
  <2>1. Replay(mem, txn) = Replay(mem', Tail(txn)) /\ \A f : Touches(Tail(txn), f) => Touches(txn, f)
    BY <1>1, <1>2, ReplayHead
  <2> QED BY <1>0, <1>1, <1>2, <2>1 DEF Memory, Applying
<1>5. Window' /\ Recovery'
  BY <1>0, <1>1, <1>2 DEF Window, Recovery
<1> QED BY <1>3, <1>4, <1>5 DEF WriterInv

(***************************************************************************)
(* The recovery of a database by dl_open.                                  *)
(***************************************************************************)
LEMMA OpenStep ==
    ASSUME TypeOK, WriterInv, Open
    PROVE  WriterInv' /\ mem' = facts
<1>0. OwnRecords /\ Recoverable /\ Memory /\ Window
  BY DEF WriterInv
<1>1. pc = "down" /\ txn = <<>> /\ ~window /\ saved = {}
  BY <1>0 DEF Open, Applying, Memory, Window
<1>2. /\ pc' = "wait" /\ back' = "replay" /\ todo' = RoTouched
      /\ UNCHANGED <<window, saved, txn, file, wal, twal, facts, rpc>>
  BY DEF Open, disk, reader, history, RoTouched
<1>3. OwnRecords' /\ Recoverable'
  BY <1>0, <1>2, DiskKept
<1>4. mem' = facts
  <2>1. PICK walled : /\ walled = {f \in Facts : InWal(f)}
                      /\ mem' = Replay(walled, twal)
    BY DEF Open, InWal
  <2>2. \A f \in Facts : f \in mem' <=> LastIsAdd(twal, f) \/ (InWal(f) /\ ~Touches(twal, f))
    BY <2>1, ReplayOne
  <2>3. \A f \in Facts : f \in mem' <=> f \in facts
    BY <1>0, <2>2, ReplayOne DEF Recoverable
  <2>4. mem' \subseteq Facts /\ facts \subseteq Facts
    BY <2>1, ReplayOne DEF TypeOK
  <2> QED BY <2>3, <2>4
<1>5. Memory'
  <2>1. facts \in SUBSET Facts
    BY DEF TypeOK
  <2>2. facts' = Replay(mem', txn')
    BY <1>1, <1>2, <1>4, <2>1, ReplayEmpty
  <2> QED BY <1>1, <1>2, <2>2, ReplayOne DEF Memory
<1>6. Window' /\ Recovery'
  BY <1>0, <1>1, <1>2 DEF Window, Recovery, RoTouched
<1> QED BY <1>3, <1>4, <1>5, <1>6 DEF WriterInv

(***************************************************************************)
(* A compaction: the file, then the log.                                   *)
(***************************************************************************)
LEMMA SaveStep ==
    ASSUME TypeOK, WriterInv, CompactSave
    PROVE  WriterInv'
<1>0. OwnRecords /\ Recoverable /\ Memory /\ Window /\ Recovery
  BY DEF WriterInv
<1>1. pc = "sweep" /\ window /\ saved = {}
  BY <1>0 DEF CompactSave, Window
<1>2. PICK q \in todo : /\ file' = (file \ FactsOf(q)) \cup (mem \cap FactsOf(q))
                        /\ saved' = {q}
                        /\ todo' = todo \ {q}
  BY DEF CompactSave
<1>3. UNCHANGED <<pc, back, window, mem, txn, wal, twal, rpc, facts>>
  BY DEF CompactSave, reader, history
<1>4. \A f \in Facts : f \in file' <=> IF RelOf[f] = q THEN f \in mem ELSE f \in file
  BY <1>2 DEF FactsOf
<1>5. OwnRecords'
  BY <1>0, <1>3 DEF OwnRecords
<1>6. Recoverable'
  <2> SUFFICES ASSUME NEW f \in Facts
               PROVE  f \in facts <=> IF Touches(twal, f) THEN LastIsAdd(twal, f)
                                      ELSE f \in Replay(file', wal[RelOf[f]])
    BY <1>3 DEF Recoverable, InWal
  <2>1. ~Touches(twal, f) => (f \in mem <=> f \in facts)
    BY <1>0, <1>1, MemoryIsCommitted
  <2>2. f \in facts <=> IF Touches(twal, f) THEN LastIsAdd(twal, f) ELSE InWal(f)
    BY <1>0 DEF Recoverable
  <2>3. /\ InWal(f) <=> LastIsAdd(wal[RelOf[f]], f) \/ (f \in file /\ ~Touches(wal[RelOf[f]], f))
        /\ f \in Replay(file', wal[RelOf[f]]) <=>
              LastIsAdd(wal[RelOf[f]], f) \/ (f \in file' /\ ~Touches(wal[RelOf[f]], f))
    BY ReplayOne DEF InWal
  <2> QED BY <1>4, <2>1, <2>2, <2>3, ReplayOne
<1>7. Memory'
  BY <1>0, <1>3 DEF Memory, Applying
<1>8. Window'
  BY <1>0, <1>1, <1>2, <1>3, <1>4 DEF Window
<1>9. Recovery'
  <2> SUFFICES ASSUME back = "replay", NEW r \in RoTouched, r \notin todo'
               PROVE  /\ \A f \in FactsOf(r) : f \in file' <=> f \in mem
                      /\ r \in saved' \/ wal[r] = <<>>
    BY <1>3 DEF Recovery, RoTouched
  <2>1. CASE r = q
    BY <1>2, <1>4, <2>1 DEF FactsOf
  <2>2. CASE r # q
    BY <1>0, <1>1, <1>2, <1>4, <2>2 DEF Recovery, FactsOf
  <2> QED BY <2>1, <2>2
<1> QED BY <1>5, <1>6, <1>7, <1>8, <1>9 DEF WriterInv

\* The second half of rel_compact, dropping the WAL, keeps the invariant of the writer.
LEMMA TruncateStep ==
    ASSUME TypeOK, WriterInv, CompactTruncate
    PROVE  WriterInv'
<1>0. OwnRecords /\ Recoverable /\ Memory /\ Window /\ Recovery
  BY DEF WriterInv
<1>1. pc = "sweep" /\ window
  BY <1>0 DEF CompactTruncate, Window
<1>2. /\ \A r \in Rels : wal'[r] = IF r \in saved THEN <<>> ELSE wal[r]
      /\ saved' = {}
      /\ UNCHANGED <<pc, back, window, mem, todo, txn, file, twal, rpc, facts>>
  BY DEF CompactTruncate, reader, history
<1>3. OwnRecords'
  BY <1>0, <1>2 DEF OwnRecords
<1>4. Recoverable'
  <2> SUFFICES ASSUME NEW f \in Facts
               PROVE  f \in facts <=> IF Touches(twal, f) THEN LastIsAdd(twal, f)
                                      ELSE f \in Replay(file, wal'[RelOf[f]])
    BY <1>2 DEF Recoverable, InWal
  <2>0. RelOf[f] \in Rels
    BY RelOfAssumption
  <2>1. ~Touches(twal, f) => (f \in mem <=> f \in facts)
    BY <1>0, <1>1, MemoryIsCommitted
  <2>2. f \in facts <=> IF Touches(twal, f) THEN LastIsAdd(twal, f) ELSE InWal(f)
    BY <1>0 DEF Recoverable
  <2>3. f \in Replay(file, <<>>) <=> f \in file
    BY ReplayOne
  <2>4. RelOf[f] \in saved => (f \in file <=> f \in mem)
    BY <1>0 DEF Window
  <2> QED BY <1>2, <2>0, <2>1, <2>2, <2>3, <2>4 DEF InWal
<1>5. Memory'
  BY <1>0, <1>2 DEF Memory, Applying
<1>6. Window'
  BY <1>0, <1>2 DEF Window
<1>7. Recovery'
  <2> SUFFICES ASSUME back = "replay", NEW r \in RoTouched, r \notin todo
               PROVE  /\ \A f \in FactsOf(r) : f \in file <=> f \in mem
                      /\ wal'[r] = <<>>
    BY <1>2 DEF Recovery, RoTouched
  <2> QED BY <1>0, <1>1, <1>2 DEF Recovery, RoTouched
<1> QED BY <1>3, <1>4, <1>5, <1>6, <1>7 DEF WriterInv

(***************************************************************************)
(* The end of the window; after dl_open it also empties txn.wal, whose     *)
(* facts are in the files by then.                                         *)
(***************************************************************************)
LEMMA WindowEndStep ==
    ASSUME TypeOK, WriterInv, CompactEnd
    PROVE  WriterInv'
<1>0. OwnRecords /\ Recoverable /\ Memory /\ Window /\ Recovery
  BY DEF WriterInv
<1>1. pc = "sweep" /\ window /\ saved = {} /\ todo = {}
  BY <1>0 DEF CompactEnd, Window
<1>2. /\ window' = FALSE /\ back' = "idle"
      /\ twal' = IF back = "replay" THEN <<>> ELSE twal
      /\ UNCHANGED <<todo, saved, txn, file, wal, facts, rpc>>
  BY DEF CompactEnd, reader, history
<1>3. /\ back = "close" => pc' = "down"
      /\ back # "close" => mem' = mem
      /\ back = "replay" => pc' = "idle"
      /\ back \in {"idle", "apply"} => pc' = back
      /\ pc' \in {"down", "idle", "apply"}
  BY DEF CompactEnd, TypeOK
<1>4. OwnRecords'
  BY <1>0, <1>2 DEF OwnRecords
<1>5. Recoverable'
  <2>1. CASE back # "replay"
    BY <1>0, <1>2, <2>1 DEF Recoverable, InWal
  <2>2. CASE back = "replay"
    <3> SUFFICES ASSUME NEW f \in Facts PROVE f \in facts <=> InWal(f)
      BY <1>2, <2>2, ReplayOne DEF Recoverable, InWal
    <3>1. mem = facts
      BY <1>0, <1>1, <2>2, MemoryIsCommitted DEF Applying
    <3>2. CASE ~Touches(twal, f)
      BY <1>0, <3>2 DEF Recoverable
    <3>3. CASE Touches(twal, f)
      <4>1. RelOf[f] \in RoTouched \ todo /\ f \in FactsOf(RelOf[f])
        BY <1>1, <3>3, RelOfAssumption DEF RoTouched, FactsOf
      <4>2. (f \in file <=> f \in mem) /\ wal[RelOf[f]] = <<>>
        BY <1>0, <1>1, <2>2, <4>1 DEF Recovery
      <4> QED BY <3>1, <4>2, ReplayOne DEF InWal
    <3> QED BY <3>2, <3>3
  <2> QED BY <2>1, <2>2
<1>6. Memory'
  <2>1. pc' # "down" => facts' = Replay(mem', txn')
    BY <1>0, <1>1, <1>2, <1>3 DEF Memory
  <2>2. ~Applying' => txn' = <<>>
    BY <1>0, <1>1, <1>2, <1>3 DEF Memory, Applying, TypeOK
  <2>3. back = "replay" => txn = <<>>
    BY <1>0, <1>1 DEF Memory, Applying
  <2>4. \A f \in Facts : Touches(txn', f) => Touches(twal', f)
    BY <1>0, <1>2, <2>3, ReplayOne DEF Memory
  <2> QED BY <2>1, <2>2, <2>4 DEF Memory
<1>7. Window' /\ Recovery'
  BY <1>0, <1>1, <1>2, <1>3 DEF Window, Recovery
<1> QED BY <1>4, <1>5, <1>6, <1>7 DEF WriterInv

(***************************************************************************)
(* The writer's side of the invariant is kept by every step.               *)
(***************************************************************************)
LEMMA WriterStep ==
    ASSUME TypeOK, WriterInv, [Next]_vars
    PROVE  WriterInv'
<1>0. OwnRecords /\ Recoverable /\ Memory /\ Window /\ Recovery
  BY DEF WriterInv
<1>1. ASSUME NEW rec \in FactRec, DirectWrite(rec) PROVE WriterInv'
  BY <1>1, WriteStep
<1>2. ASSUME NEW ops \in Txns, Commit(ops) PROVE WriterInv'
  BY <1>2, CommitStep
<1>3. CASE Open \/ Apply
  BY <1>3, OpenStep, ApplyStep
<1>4. CASE CompactSave \/ CompactTruncate \/ CompactEnd
  BY <1>4, SaveStep, TruncateStep, WindowEndStep
<1>5. CASE EndApply \/ Close \/ CompactBegin
  <2>1. UNCHANGED <<mem, saved, txn, file, wal, twal, facts, rpc>>
    BY <1>5 DEF EndApply, Close, CompactBegin, disk, reader, history
  <2>2. OwnRecords' /\ Recoverable'
    BY <1>0, <2>1, DiskKept
  <2>3. CASE EndApply
    <3>1. pc = "apply" /\ txn = <<>> /\ pc' = "idle" /\ UNCHANGED window
      BY <2>3 DEF EndApply
    <3>2. Memory' /\ Window' /\ Recovery'
      BY <1>0, <2>1, <3>1 DEF Memory, Applying, Window, Recovery
    <3> QED BY <2>2, <3>2 DEF WriterInv
  <2>4. CASE Close
    <3>1. pc = "idle" /\ pc' = "wait" /\ back' = "close" /\ UNCHANGED window
      BY <2>4 DEF Close
    <3>2. Memory' /\ Window' /\ Recovery'
      BY <1>0, <2>1, <3>1 DEF Memory, Applying, Window, Recovery
    <3> QED BY <2>2, <3>2 DEF WriterInv
  <2>5. CASE CompactBegin
    <3>1. /\ pc = "wait" /\ pc' = "sweep" /\ window' = TRUE /\ UNCHANGED <<back, todo>>
          /\ \A p \in Readers : rpc[p] # "open"
      BY <2>5 DEF CompactBegin
    <3>2. Memory' /\ Window'
      BY <1>0, <2>1, <3>1 DEF Memory, Applying, Window
    <3>3. Recovery'
      BY <1>0, <2>1, <3>1 DEF Recovery, RoTouched
    <3> QED BY <2>2, <3>2, <3>3 DEF WriterInv
  <2> QED BY <1>5, <2>3, <2>4, <2>5
<1>6. CASE Kill
  <2>1. /\ pc' = "down" /\ window' = FALSE /\ saved' = {} /\ txn' = <<>>
        /\ UNCHANGED <<file, wal, twal, facts, rpc>>
    BY <1>6 DEF Kill, disk, reader, history
  <2>2. OwnRecords' /\ Recoverable'
    BY <1>0, <2>1, DiskKept
  <2>3. Memory' /\ Window' /\ Recovery'
    BY <2>1, ReplayOne DEF Memory, Window, Recovery
  <2> QED BY <2>2, <2>3 DEF WriterInv
<1>7. ASSUME UNCHANGED <<pc, back, window, mem, todo, saved, txn, file, wal, twal, facts>>,
             \A p \in Readers : rpc'[p] = "open" => rpc[p] = "open" \/ ~window
      PROVE  WriterInv'
  <2>1. OwnRecords' /\ Recoverable'
    BY <1>0, <1>7, DiskKept
  <2>2. Memory' /\ Window' /\ Recovery'
    BY <1>0, <1>7 DEF Memory, Applying, Window, Recovery, RoTouched
  <2> QED BY <2>1, <2>2 DEF WriterInv
<1>8. ASSUME NEW p \in Readers, RoOpen(p) \/ RoOpened(p) \/ RoClose(p) PROVE WriterInv'
  <2>1. /\ UNCHANGED <<pc, back, window, mem, todo, saved, txn, file, wal, twal, facts>>
        /\ \A q \in Readers : rpc'[q] = "open" => rpc[q] = "open" \/ ~window
    BY <1>8 DEF RoOpen, RoOpened, RoClose, writer, disk, history, TypeOK
  <2> QED BY <1>7, <2>1
<1>9. ASSUME NEW p \in Readers, NEW r \in Rels,
             RoWalOpen(p, r) \/ RoLoad(p, r) \/ RoReplay(p, r) \/ RoTouch(p, r)
      PROVE  WriterInv'
  <2>1. UNCHANGED <<pc, back, window, mem, todo, saved, txn, file, wal, twal, facts, rpc>>
    BY <1>9 DEF RoWalOpen, RoLoad, RoReplay, RoTouch, writer, disk, history
  <2> QED BY <1>7, <2>1
<1>10. CASE UNCHANGED vars
  BY <1>7, <1>10 DEF vars
<1> QED
  BY <1>1, <1>2, <1>3, <1>4, <1>5, <1>6, <1>8, <1>9, <1>10 DEF Next

-----------------------------------------------------------------------------
(***************************************************************************)
(* What a handle would show now, fact by fact.                             *)
(***************************************************************************)
LEMMA ContentsOf ==
    ASSUME NEW p \in Readers, NEW f
    PROVE  /\ f \in RoContents(p) <=> f \in rmem[p] \/ (f \in file /\ rst[p][RelOf[f]] = "deferred")
           /\ f \in RoContents(p)' <=> f \in rmem'[p] \/ (f \in file' /\ rst'[p][RelOf[f]] = "deferred")
  BY DEF RoContents

(***************************************************************************)
(* Reader p is left alone by a step that keeps files, txn.wal and the      *)
(* committed contents, and either has no writer's memory after it or keeps *)
(* it, or has just recovered it.  txn.wal may also change when p is not    *)
(* opening.                                                                *)
(***************************************************************************)
LEMMA LeftAlone ==
    ASSUME NEW p \in Readers, ReaderOk(p), UNCHANGED <<file, facts>>,
           twal' = twal \/ rpc[p] # "open",
           pc' = "down" \/ (pc # "down" /\ mem' = mem) \/ mem' = facts,
           rpc'[p] = rpc[p], rst'[p] = rst[p], rmem'[p] = rmem[p],
           since'[p] = since[p], direct'[p] = direct[p]
    PROVE  ReaderOk(p)'
<1>1. Moments(p)' /\ Unread(p)'
  BY DEF ReaderOk, Moments, Unread
<1>2. Opening(p)'
  <2> SUFFICES ASSUME rpc[p] = "open" PROVE Opening(p)'
    BY DEF Opening
  <2>1. \A f : f \in RoContents(p)' <=> f \in RoContents(p)
    BY ContentsOf
  <2>2. Opening(p) /\ twal' = twal
    BY DEF ReaderOk
  <2>3. \A r \in Rels : OpenRead(p, r) => OpenRead(p, r)'
    BY <2>1, <2>2 DEF OpenRead
  <2> QED BY <2>2, <2>3 DEF Opening
<1>3. Live(p)'
  <2> SUFFICES ASSUME rpc[p] = "live", NEW r \in Rels
               PROVE  /\ rst'[p][r] \in {"deferred", "loaded"}
                      /\ rst'[p][r] = "loaded" => LiveRead(p, r)'
                      /\ rst'[p][r] = "deferred" => LiveTouch(p, r)'
    BY DEF Live
  <2>1. Live(p) /\ Moments(p)
    BY DEF ReaderOk
  <2>2. rst'[p][r] \in {"deferred", "loaded"} /\ (rst'[p][r] = "loaded" => LiveRead(p, r)')
    BY <2>1 DEF Live, LiveRead
  <2>3. rst'[p][r] = "deferred" => LiveTouch(p, r)'
    <3> SUFFICES ASSUME rst[p][r] = "deferred" PROVE LiveTouch(p, r)'
      OBVIOUS
    <3>1. LiveTouch(p, r) /\ facts \in since[p]
      BY <2>1 DEF Live, Moments
    <3>2. \E s \in since'[p] : SameIn(r, file', s)
      BY <3>1 DEF LiveTouch
    <3>3. pc' # "down" => \E s \in since'[p] : SameIn(r, mem', s)
      BY <3>1 DEF LiveTouch, SameIn
    <3> QED BY <3>2, <3>3 DEF LiveTouch, SameIn
  <2> QED BY <2>2, <2>3
<1> QED BY <1>1, <1>2, <1>3 DEF ReaderOk

(***************************************************************************)
(* A live reader whose moments grow, while the file of no relation changes *)
(* and the writer's memory is one of the moments.                          *)
(***************************************************************************)
LEMMA LiveGrows ==
    ASSUME NEW p \in Readers, Live(p), rpc[p] = "live",
           rpc'[p] = rpc[p], rst'[p] = rst[p], rmem'[p] = rmem[p], direct'[p] = direct[p],
           file' = file, since[p] \subseteq since'[p],
           (pc # "down" /\ mem' = mem) \/ mem' \in since'[p]
    PROVE  Live(p)'
<1> SUFFICES ASSUME NEW r \in Rels
             PROVE  /\ rst'[p][r] \in {"deferred", "loaded"}
                    /\ rst'[p][r] = "loaded" => LiveRead(p, r)'
                    /\ rst'[p][r] = "deferred" => LiveTouch(p, r)'
  BY DEF Live
<1>1. rst'[p][r] \in {"deferred", "loaded"}
  BY DEF Live
<1>2. rst'[p][r] = "loaded" => LiveRead(p, r)'
  <2> SUFFICES ASSUME rst[p][r] = "loaded" PROVE LiveRead(p, r)'
    OBVIOUS
  <2>1. PICK s, t \in since[p] : \A f \in FactsOf(r) :
           f \in rmem[p] <=> f \in (IF f \in direct[p] THEN s ELSE t)
    BY DEF Live, LiveRead
  <2>2. s \in since'[p] /\ t \in since'[p]
    BY <2>1
  <2> QED BY <2>1, <2>2 DEF LiveRead
<1>3. rst'[p][r] = "deferred" => LiveTouch(p, r)'
  <2> SUFFICES ASSUME rst[p][r] = "deferred" PROVE LiveTouch(p, r)'
    OBVIOUS
  <2>1. LiveTouch(p, r)
    BY DEF Live
  <2>2. \E s \in since'[p] : SameIn(r, file', s)
    BY <2>1 DEF LiveTouch
  <2>3. \E s \in since'[p] : SameIn(r, mem', s)
    BY <2>1 DEF LiveTouch, SameIn
  <2> QED BY <2>2, <2>3 DEF LiveTouch, SameIn
<1> QED BY <1>1, <1>2, <1>3

(***************************************************************************)
(* The writer's steps that readers notice: a direct write, a commit, its   *)
(* application, and a saved file.                                          *)
(***************************************************************************)
LEMMA WriteSeen ==
    ASSUME TypeOK, WriterInv, NEW rec \in FactRec, DirectWrite(rec),
           NEW p \in Readers, ReaderOk(p)
    PROVE  ReaderOk(p)'
<1>0. Moments(p) /\ Unread(p) /\ Opening(p) /\ Live(p)
  BY DEF ReaderOk
<1>1. mem = facts
  BY MemoryIsCommitted DEF WriterInv, DirectWrite, Applying
<1>2. /\ facts' = mem'
      /\ since'[p] = IF rpc[p] = "none" THEN {} ELSE since[p] \cup {facts'}
      /\ direct'[p] = IF rpc[p] = "open" THEN direct[p] \cup {rec.f} ELSE direct[p]
      /\ UNCHANGED <<file, twal, rpc, rst, rmem>>
  BY DEF DirectWrite, CommitFacts, reader
<1>3. \A f : f # rec.f => (f \in facts' <=> f \in facts)
  BY <1>1, <1>2 DEF DirectWrite
<1>4. Moments(p)' /\ Unread(p)'
  BY <1>0, <1>2 DEF Moments, Unread
<1>5. Opening(p)'
  <2> SUFFICES ASSUME rpc[p] = "open" PROVE Opening(p)'
    BY <1>2 DEF Opening
  <2>1. \A f : f \in RoContents(p)' <=> f \in RoContents(p)
    BY <1>2, ContentsOf
  <2>2. since[p] \subseteq since'[p] /\ direct'[p] = direct[p] \cup {rec.f}
    BY <1>2
  <2>3. ASSUME NEW r \in Rels, OpenRead(p, r) PROVE OpenRead(p, r)'
    <3>1. \E s \in since'[p] : \A f \in FactsOf(r) :
             ~Touches(twal, f) => (f \in RoContents(p) <=> f \in s)
      BY <2>2, <2>3 DEF OpenRead
    <3>2. \A f \in FactsOf(r) \ direct'[p] :
             ~Touches(twal, f) => (f \in RoContents(p) <=> f \in facts')
      BY <1>3, <2>2, <2>3 DEF OpenRead
    <3> QED BY <1>2, <2>1, <3>1, <3>2 DEF OpenRead
  <2>4. \A f \in direct'[p] : ~Touches(twal, f)
    BY <1>0, <2>2 DEF Opening, DirectWrite
  <2> QED BY <1>0, <1>2, <2>3, <2>4 DEF Opening
<1>6. Live(p)'
  <2>1. CASE rpc[p] = "live"
    BY <1>0, <1>2, <2>1, LiveGrows
  <2> QED BY <1>2, <2>1 DEF Live
<1> QED BY <1>4, <1>5, <1>6 DEF ReaderOk

\* A commit leaves what the readers hold explained: their views may now show it.
LEMMA CommitSeen ==
    ASSUME TypeOK, WriterInv, NEW ops \in Txns, Commit(ops),
           NEW p \in Readers, ReaderOk(p)
    PROVE  ReaderOk(p)'
<1>0. Moments(p) /\ Unread(p) /\ Opening(p) /\ Live(p)
  BY DEF ReaderOk
<1>1. /\ pc = "idle"
      /\ facts' = Replay(facts, ops)
      /\ twal' = twal \o ops \o <<CommitRec>>
      /\ since'[p] = IF rpc[p] = "none" THEN {} ELSE since[p] \cup {facts'}
      /\ direct'[p] = IF rpc[p] = "open" THEN {f \in direct[p] : ~Touches(ops, f)}
                                         ELSE direct[p]
      /\ UNCHANGED <<mem, file, rpc, rst, rmem>>
  BY DEF Commit, CommitFacts, reader
<1>2. \A f \in Facts : Touches(twal', f) <=> Touches(twal, f) \/ Touches(ops, f)
  BY <1>1, TxnAppended
<1>3. \A f \in Facts : ~Touches(ops, f) => (f \in facts' <=> f \in facts)
  BY <1>1, ReplayOne
<1>4. Moments(p)' /\ Unread(p)'
  BY <1>0, <1>1 DEF Moments, Unread
<1>5. Opening(p)'
  <2> SUFFICES ASSUME rpc[p] = "open" PROVE Opening(p)'
    BY <1>1 DEF Opening
  <2>1. \A f : f \in RoContents(p)' <=> f \in RoContents(p)
    BY <1>1, ContentsOf
  <2>2. since[p] \subseteq since'[p] /\ direct'[p] = {f \in direct[p] : ~Touches(ops, f)}
    BY <1>1
  <2>3. ASSUME NEW r \in Rels, OpenRead(p, r) PROVE OpenRead(p, r)'
    <3>0. FactsOf(r) \subseteq Facts
      BY DEF FactsOf
    <3>1. \E s \in since'[p] : \A f \in FactsOf(r) :
             ~Touches(twal', f) => (f \in RoContents(p) <=> f \in s)
      BY <1>2, <2>2, <2>3, <3>0 DEF OpenRead
    <3>2. \A f \in FactsOf(r) \ direct'[p] :
             ~Touches(twal', f) => (f \in RoContents(p) <=> f \in facts')
      BY <1>2, <1>3, <2>2, <2>3, <3>0 DEF OpenRead
    <3> QED BY <2>1, <3>1, <3>2 DEF OpenRead
  <2>4. \A f \in direct'[p] : ~Touches(twal', f)
    BY <1>0, <1>2, <2>2 DEF Opening, TypeOK
  <2> QED BY <1>0, <1>1, <2>3, <2>4 DEF Opening
<1>6. Live(p)'
  <2>1. CASE rpc[p] = "live"
    BY <1>0, <1>1, <2>1, LiveGrows
  <2> QED BY <1>1, <2>1 DEF Live
<1> QED BY <1>4, <1>5, <1>6 DEF ReaderOk

\* Applying it in memory is nothing a reader can see.
LEMMA ApplySeen ==
    ASSUME Apply, NEW p \in Readers, ReaderOk(p)
    PROVE  ReaderOk(p)'
<1>0. Moments(p) /\ Unread(p) /\ Opening(p) /\ Live(p)
  BY DEF ReaderOk
<1>1. /\ pc = "apply"
      /\ since'[p] = IF rpc[p] = "live" THEN since[p] \cup {mem'} ELSE since[p]
      /\ UNCHANGED <<file, twal, rpc, rst, rmem, facts, direct>>
  BY DEF Apply, disk, reader
<1>2. Moments(p)' /\ Unread(p)'
  BY <1>0, <1>1 DEF Moments, Unread
<1>3. Opening(p)'
  <2> SUFFICES ASSUME rpc[p] = "open" PROVE Opening(p)'
    BY <1>1 DEF Opening
  <2>1. \A f : f \in RoContents(p)' <=> f \in RoContents(p)
    BY <1>1, ContentsOf
  <2>2. \A r \in Rels : OpenRead(p, r) => OpenRead(p, r)'
    BY <1>1, <2>1 DEF OpenRead
  <2> QED BY <1>0, <1>1, <2>2 DEF Opening
<1>4. Live(p)'
  <2>1. CASE rpc[p] = "live"
    BY <1>0, <1>1, <2>1, LiveGrows
  <2> QED BY <1>1, <2>1 DEF Live
<1> QED BY <1>2, <1>3, <1>4 DEF ReaderOk

\* Saving a DAFSA file changes it only inside the mutation window, when no open is loading.
LEMMA SaveSeen ==
    ASSUME WriterInv, CompactSave, NEW p \in Readers, ReaderOk(p)
    PROVE  ReaderOk(p)'
<1>0. Moments(p) /\ Unread(p) /\ Live(p)
  BY DEF ReaderOk
<1>1. pc = "sweep" /\ rpc[p] # "open"
  BY DEF WriterInv, Window, CompactSave
<1>2. UNCHANGED <<pc, mem, rpc, rst, rmem, facts, since, direct>>
  BY DEF CompactSave, reader, history
<1>3. PICK q : \A f \in Facts : f \in file' <=> IF RelOf[f] = q THEN f \in mem ELSE f \in file
  BY DEF CompactSave, FactsOf
<1>4. Moments(p)' /\ Unread(p)' /\ Opening(p)'
  BY <1>0, <1>1, <1>2 DEF Moments, Unread, Opening
<1>5. Live(p)'
  <2> SUFFICES ASSUME rpc[p] = "live", NEW r \in Rels
               PROVE  /\ rst[p][r] \in {"deferred", "loaded"}
                      /\ rst[p][r] = "loaded" => LiveRead(p, r)'
                      /\ rst[p][r] = "deferred" => LiveTouch(p, r)'
    BY <1>2 DEF Live
  <2>1. rst[p][r] \in {"deferred", "loaded"} /\ (rst[p][r] = "loaded" => LiveRead(p, r)')
    BY <1>0, <1>2 DEF Live, LiveRead
  <2>2. ASSUME rst[p][r] = "deferred" PROVE LiveTouch(p, r)'
    <3>1. LiveTouch(p, r)
      BY <1>0, <2>2 DEF Live
    <3>2. /\ \E s \in since[p] : SameIn(r, file, s)
          /\ \E s \in since[p] : SameIn(r, mem, s)
      BY <1>1, <3>1 DEF LiveTouch
    <3>3. \A f \in FactsOf(r) : f \in file' <=> f \in (IF r = q THEN mem ELSE file)
      BY <1>3 DEF FactsOf
    <3>4. \E s \in since[p] : SameIn(r, file', s)
      BY <3>2, <3>3 DEF SameIn
    <3> QED BY <1>2, <3>2, <3>4 DEF LiveTouch, SameIn
  <2> QED BY <2>1, <2>2
<1> QED BY <1>4, <1>5 DEF ReaderOk

(***************************************************************************)
(* The steps of a reader, seen by itself.                                  *)
(***************************************************************************)
LEMMA RoOpenSeen ==
    ASSUME TypeOK, NEW p \in Readers, ReaderOk(p), RoOpen(p)
    PROVE  ReaderOk(p)'
<1>1. /\ rpc[p] = "none" /\ rpc'[p] = "open" /\ since'[p] = {facts}
      /\ UNCHANGED <<rst, rmem, facts, direct>>
  BY DEF RoOpen, TypeOK
<1>2. direct[p] = {} /\ \A r \in Rels : rst[p][r] = "unopened"
  BY <1>1 DEF ReaderOk, Moments
<1> QED BY <1>1, <1>2 DEF ReaderOk, Moments, Unread, Opening, Live

\* A closed handle holds nothing.
LEMMA RoCloseSeen ==
    ASSUME TypeOK, NEW p \in Readers, RoClose(p)
    PROVE  ReaderOk(p)'
<1>1. /\ rpc'[p] = "none" /\ rmem'[p] = {} /\ direct'[p] = {}
      /\ rst'[p] = [r \in Rels |-> "unopened"]
  BY DEF RoClose, TypeOK
<1> QED BY <1>1 DEF ReaderOk, Moments, Unread, Opening, Live

(***************************************************************************)
(* The steps of an open leave the relations they are not about alone.      *)
(***************************************************************************)
LEMMA OtherRelation ==
    ASSUME NEW p \in Readers, NEW r \in Rels,
           UNCHANGED <<file, twal, facts, since, direct>>, rst'[p][r] = rst[p][r],
           \A f \in FactsOf(r) : f \in rmem'[p] <=> f \in rmem[p]
    PROVE  /\ OpenRead(p, r) => OpenRead(p, r)'
           /\ LiveRead(p, r) => LiveRead(p, r)'
<1>1. \A f \in FactsOf(r) : f \in RoContents(p)' <=> f \in RoContents(p)
  BY ContentsOf DEF FactsOf
<1>2. OpenRead(p, r) => OpenRead(p, r)'
  BY <1>1 DEF OpenRead
<1>3. LiveRead(p, r) => LiveRead(p, r)'
  BY DEF LiveRead
<1> QED BY <1>2, <1>3

\* The WAL of a relation decides how it is opened: with records left, its file is loaded at once.
LEMMA RoWalOpenSeen ==
    ASSUME TypeOK, WriterInv, NEW p \in Readers, ReaderOk(p), NEW r \in Rels, RoWalOpen(p, r)
    PROVE  ReaderOk(p)'
<1>0. Moments(p) /\ Unread(p) /\ Opening(p)
  BY DEF ReaderOk
<1>1. /\ rpc[p] = "open" /\ rst[p][r] = "unopened"
      /\ UNCHANGED <<file, wal, twal, rpc, rmem, facts, since, direct>>
  BY DEF RoWalOpen, disk, history
<1>2. \A q \in Rels : rst'[p][q] = IF q # r THEN rst[p][q]
                                   ELSE IF wal[r] # <<>> THEN "sized" ELSE "deferred"
  BY DEF RoWalOpen, TypeOK
<1>3. \A f \in FactsOf(r) : f \notin rmem[p]
  BY <1>0, <1>1 DEF Unread, FactsOf
<1>4. rmem[p] \subseteq Facts
  BY DEF TypeOK
<1>5. Moments(p)' /\ Unread(p)' /\ Live(p)'
  <2>1. Moments(p)' /\ Live(p)'
    BY <1>0, <1>1 DEF Moments, Live
  <2>2. Unread(p)'
    BY <1>0, <1>1, <1>2, <1>3, <1>4, RelOfAssumption DEF Unread, FactsOf
  <2> QED BY <2>1, <2>2
<1>6. ASSUME wal[r] = <<>> PROVE OpenRead(p, r)'
  <2>1. ASSUME NEW f \in FactsOf(r), ~Touches(twal, f)
        PROVE  f \in RoContents(p)' <=> f \in facts
    <3>1. f \in Facts /\ RelOf[f] = r
      BY DEF FactsOf
    <3>2. f \in RoContents(p)' <=> f \in file
      BY <1>1, <1>2, <1>3, <1>6, <3>1, ContentsOf
    <3>3. InWal(f) <=> f \in file
      BY <1>6, <3>1, ReplayOne DEF InWal
    <3>4. InWal(f) <=> f \in facts
      BY <2>1, <3>1 DEF WriterInv, Recoverable
    <3> QED BY <3>2, <3>3, <3>4
  <2>2. facts \in since[p]
    BY <1>0, <1>1 DEF Moments
  <2> QED BY <1>1, <2>1, <2>2 DEF OpenRead
<1>7. Opening(p)'
  <2>1. ASSUME NEW q \in Rels
        PROVE  /\ rst'[p][q] = "based" => \A f \in FactsOf(q) : f \in rmem[p] <=> f \in file
               /\ rst'[p][q] \in {"deferred", "loaded"} => OpenRead(p, q)'
    <3>1. CASE q = r
      BY <1>2, <1>6, <3>1
    <3>2. CASE q # r
      <4>1. OpenRead(p, q) => OpenRead(p, q)'
        BY <1>1, <1>2, <3>2, OtherRelation
      <4> QED BY <1>0, <1>1, <1>2, <3>2, <4>1 DEF Opening
    <3> QED BY <3>1, <3>2
  <2> QED BY <1>0, <1>1, <2>1 DEF Opening
<1> QED BY <1>5, <1>7 DEF ReaderOk

(***************************************************************************)
(* Only a reader inside its open has a relation between two steps.         *)
(***************************************************************************)
LEMMA HalfReadOpens ==
    ASSUME TypeOK, NEW p \in Readers, ReaderOk(p), NEW r \in Rels, rst[p][r] \in {"sized", "based"}
    PROVE  rpc[p] = "open"
<1>1. rpc[p] \in {"none", "open", "live"}
  BY DEF TypeOK
<1> QED BY <1>1 DEF ReaderOk, Moments, Live

\* Loading the file of a relation, inside the window of the open.
LEMMA RoLoadSeen ==
    ASSUME TypeOK, NEW p \in Readers, ReaderOk(p), NEW r \in Rels, RoLoad(p, r)
    PROVE  ReaderOk(p)'
<1>0. Moments(p) /\ Unread(p) /\ Opening(p)
  BY DEF ReaderOk
<1>1. /\ rst[p][r] = "sized" /\ rmem'[p] = rmem[p] \cup (file \cap FactsOf(r))
      /\ UNCHANGED <<file, wal, twal, rpc, facts, since, direct>>
  BY DEF RoLoad, disk, history, TypeOK
<1>2. rpc[p] = "open"
  BY <1>1, HalfReadOpens
<1>3. \A q \in Rels : rst'[p][q] = IF q # r THEN rst[p][q] ELSE "based"
  BY DEF RoLoad, TypeOK
<1>4. \A f \in FactsOf(r) : f \in rmem'[p] <=> f \in file
  BY <1>0, <1>1 DEF Unread, FactsOf
<1>5. \A q \in Rels : q # r => \A f \in FactsOf(q) : f \in rmem'[p] <=> f \in rmem[p]
  BY <1>1 DEF FactsOf
<1>6. Moments(p)' /\ Unread(p)' /\ Live(p)'
  <2>1. Moments(p)' /\ Live(p)'
    BY <1>0, <1>1, <1>2 DEF Moments, Live
  <2>2. rmem[p] \subseteq Facts
    BY DEF TypeOK
  <2>3. Unread(p)'
    BY <1>0, <1>1, <1>3, <2>2, RelOfAssumption DEF Unread, FactsOf
  <2> QED BY <2>1, <2>3
<1>7. Opening(p)'
  <2>1. ASSUME NEW q \in Rels
        PROVE  /\ rst'[p][q] = "based" => \A f \in FactsOf(q) : f \in rmem'[p] <=> f \in file
               /\ rst'[p][q] \in {"deferred", "loaded"} => OpenRead(p, q)'
    <3>1. CASE q = r
      BY <1>3, <1>4, <3>1
    <3>2. CASE q # r
      <4>1. OpenRead(p, q) => OpenRead(p, q)'
        BY <1>1, <1>3, <1>5, <3>2, OtherRelation
      <4> QED BY <1>0, <1>2, <1>3, <1>5, <3>2, <4>1 DEF Opening
    <3> QED BY <3>1, <3>2
  <2> QED BY <1>0, <1>1, <1>2, <2>1 DEF Opening
<1> QED BY <1>6, <1>7 DEF ReaderOk

\* Replaying its WAL over the loaded file gives contents the writer had since the open began.
LEMMA RoReplaySeen ==
    ASSUME TypeOK, WriterInv, NEW p \in Readers, ReaderOk(p), NEW r \in Rels, RoReplay(p, r)
    PROVE  ReaderOk(p)'
<1>0. Moments(p) /\ Unread(p) /\ Opening(p)
  BY DEF ReaderOk
<1>1. /\ rst[p][r] = "based" /\ rmem'[p] = Replay(rmem[p], wal[r])
      /\ UNCHANGED <<file, wal, twal, rpc, facts, since, direct>>
  BY DEF RoReplay, disk, history, TypeOK
<1>2. rpc[p] = "open"
  BY <1>1, HalfReadOpens
<1>3. \A q \in Rels : rst'[p][q] = IF q # r THEN rst[p][q] ELSE "loaded"
  BY DEF RoReplay, TypeOK
<1>4. \A f \in Facts : f \in rmem'[p] <=>
                         LastIsAdd(wal[r], f) \/ (f \in rmem[p] /\ ~Touches(wal[r], f))
  BY <1>1, ReplayOne
<1>5. \A f \in Facts : RelOf[f] # r => ~Touches(wal[r], f) /\ ~LastIsAdd(wal[r], f)
  BY DEF WriterInv, OwnRecords, Touches, LastIsAdd
<1>6. \A q \in Rels : q # r => \A f \in FactsOf(q) : f \in rmem'[p] <=> f \in rmem[p]
  BY <1>4, <1>5 DEF FactsOf
<1>7. Moments(p)' /\ Unread(p)' /\ Live(p)'
  <2>1. Moments(p)' /\ Live(p)'
    BY <1>0, <1>1, <1>2 DEF Moments, Live
  <2>2. rmem'[p] \subseteq Facts
    BY <1>1, ReplayOne
  <2>3. Unread(p)'
    BY <1>0, <1>3, <1>6, <2>2, RelOfAssumption DEF Unread, FactsOf
  <2> QED BY <2>1, <2>3
<1>8. OpenRead(p, r)'
  <2>1. ASSUME NEW f \in FactsOf(r), ~Touches(twal, f)
        PROVE  f \in RoContents(p)' <=> f \in facts
    <3>1. f \in Facts /\ RelOf[f] = r
      BY DEF FactsOf
    <3>2. f \in RoContents(p)' <=> f \in rmem'[p]
      BY <1>3, <3>1, ContentsOf
    <3>3. f \in rmem[p] <=> f \in file
      BY <1>0, <1>1, <1>2 DEF Opening
    <3>4. f \in rmem'[p] <=> InWal(f)
      BY <1>4, <3>1, <3>3, ReplayOne DEF InWal
    <3>5. InWal(f) <=> f \in facts
      BY <2>1, <3>1 DEF WriterInv, Recoverable
    <3> QED BY <3>2, <3>4, <3>5
  <2>2. facts \in since[p]
    BY <1>0, <1>2 DEF Moments
  <2> QED BY <1>1, <2>1, <2>2 DEF OpenRead
<1>9. Opening(p)'
  <2>1. ASSUME NEW q \in Rels
        PROVE  /\ rst'[p][q] = "based" => \A f \in FactsOf(q) : f \in rmem'[p] <=> f \in file
               /\ rst'[p][q] \in {"deferred", "loaded"} => OpenRead(p, q)'
    <3>1. CASE q = r
      BY <1>3, <1>8, <3>1
    <3>2. CASE q # r
      <4>1. OpenRead(p, q) => OpenRead(p, q)'
        BY <1>1, <1>3, <1>6, <3>2, OtherRelation
      <4> QED BY <1>0, <1>2, <1>3, <1>6, <3>2, <4>1 DEF Opening
    <3> QED BY <3>1, <3>2
  <2> QED BY <1>0, <1>1, <1>2, <2>1 DEF Opening
<1> QED BY <1>7, <1>9 DEF ReaderOk

(***************************************************************************)
(* The end of an open: what txn.wal touches is as committed, and the rest  *)
(* as the open found it.                                                   *)
(***************************************************************************)
LEMMA RoOpenedReads ==
    ASSUME TypeOK, WriterInv, NEW p \in Readers, RoOpened(p)
    PROVE  /\ \A r \in Rels : rst'[p][r] = IF r \in RoTouched THEN "loaded" ELSE rst[p][r]
           /\ rmem'[p] \subseteq Facts
           /\ \A f \in Facts : Touches(twal, f) =>
                 /\ RelOf[f] \in RoTouched
                 /\ f \in rmem'[p] <=> f \in facts
           /\ \A f \in Facts : ~Touches(twal, f) =>
                 (f \in rmem'[p] <=>
                     \/ f \in rmem[p]
                     \/ f \in file /\ RelOf[f] \in RoTouched /\ rst[p][RelOf[f]] = "deferred")
<1>1. PICK loading, loaded :
         /\ loading = {r \in RoTouched : rst[p][r] = "deferred"}
         /\ loaded = {f \in file : RelOf[f] \in loading}
         /\ rmem' = [rmem EXCEPT ![p] = Replay(@ \cup loaded, twal)]
  BY DEF RoOpened
<1>2. rmem'[p] = Replay(rmem[p] \cup loaded, twal)
  BY <1>1 DEF TypeOK
<1>3. \A r \in Rels : rst'[p][r] = IF r \in RoTouched THEN "loaded" ELSE rst[p][r]
  BY DEF RoOpened, TypeOK
<1>4. \A f \in Facts : f \in rmem'[p] <=>
         LastIsAdd(twal, f) \/ (f \in rmem[p] \cup loaded /\ ~Touches(twal, f))
  BY <1>2, ReplayOne
<1>5. \A f \in Facts : Touches(twal, f) =>
         RelOf[f] \in RoTouched /\ (f \in rmem'[p] <=> f \in facts)
  BY <1>4, RelOfAssumption DEF WriterInv, Recoverable, RoTouched, FactsOf
<1>6. \A f \in Facts : ~Touches(twal, f) =>
         (f \in rmem'[p] <=>
             \/ f \in rmem[p]
             \/ f \in file /\ RelOf[f] \in RoTouched /\ rst[p][RelOf[f]] = "deferred")
  BY <1>1, <1>4, ReplayOne
<1>7. rmem'[p] \subseteq Facts
  BY <1>2, ReplayOne
<1> QED BY <1>3, <1>5, <1>6, <1>7

\* At the end of the open every loaded relation shows the committed contents.
LEMMA RoOpenedSeen ==
    ASSUME TypeOK, WriterInv, NEW p \in Readers, ReaderOk(p), RoOpened(p)
    PROVE  ReaderOk(p)'
<1>0. Moments(p) /\ Unread(p) /\ Opening(p)
  BY DEF ReaderOk
<1>1. /\ rpc[p] = "open" /\ rpc'[p] = "live"
      /\ \A r \in Rels : rst[p][r] \in {"deferred", "loaded"}
      /\ UNCHANGED <<pc, mem, file, twal, facts, since, direct>>
  BY DEF RoOpened, writer, disk, history, TypeOK
<1>2. \A r \in Rels : rst'[p][r] = IF r \in RoTouched THEN "loaded" ELSE rst[p][r]
  BY RoOpenedReads
<1>3. rmem'[p] \subseteq Facts
  BY RoOpenedReads
<1>4. \A f \in Facts : Touches(twal, f) => RelOf[f] \in RoTouched /\ (f \in rmem'[p] <=> f \in facts)
  BY RoOpenedReads
<1>5. \A f \in Facts : ~Touches(twal, f) =>
         (f \in rmem'[p] <=>
             \/ f \in rmem[p]
             \/ f \in file /\ RelOf[f] \in RoTouched /\ rst[p][RelOf[f]] = "deferred")
  BY RoOpenedReads
<1>6. facts \in since[p]
  BY <1>0, <1>1 DEF Moments
<1>7. Moments(p)' /\ Opening(p)'
  BY <1>1, <1>6 DEF Moments, Opening
<1>8. Unread(p)'
  <2> SUFFICES ASSUME NEW f \in rmem'[p], rst'[p][RelOf[f]] \in {"unopened", "sized", "deferred"}
               PROVE  FALSE
    BY DEF Unread
  <2>1. f \in Facts /\ RelOf[f] \in Rels
    BY <1>3, RelOfAssumption
  <2>2. RelOf[f] \notin RoTouched /\ rst[p][RelOf[f]] \in {"unopened", "sized", "deferred"}
    BY <1>2, <2>1
  <2>3. f \in rmem[p]
    BY <1>4, <1>5, <2>1, <2>2
  <2> QED BY <1>0, <2>2, <2>3 DEF Unread
<1>9. Live(p)'
  <2> SUFFICES ASSUME NEW r \in Rels
               PROVE  /\ rst'[p][r] \in {"deferred", "loaded"}
                      /\ rst'[p][r] = "loaded" => LiveRead(p, r)'
                      /\ rst'[p][r] = "deferred" => LiveTouch(p, r)'
    BY DEF Live
  <2>0. rst[p][r] \in {"deferred", "loaded"} /\ OpenRead(p, r)
    BY <1>0, <1>1 DEF Opening
  <2>1. PICK s \in since[p] : \A f \in FactsOf(r) :
           ~Touches(twal, f) => (f \in RoContents(p) <=> f \in s)
    BY <2>0 DEF OpenRead
  <2>2. \A f \in FactsOf(r) : f \notin direct[p] /\ ~Touches(twal, f)
                                => (f \in RoContents(p) <=> f \in facts)
    BY <2>0 DEF OpenRead
  <2>3. \A f \in direct[p] : ~Touches(twal, f)
    BY <1>0, <1>1 DEF Opening
  <2>4. ASSUME rst'[p][r] = "loaded" PROVE LiveRead(p, r)'
    <3>1. ASSUME NEW f \in FactsOf(r)
          PROVE  f \in rmem'[p] <=> f \in (IF f \in direct[p] THEN s ELSE facts)
      <4>1. f \in Facts /\ RelOf[f] = r
        BY DEF FactsOf
      <4>2. CASE Touches(twal, f)
        BY <1>4, <2>3, <4>1, <4>2
      <4>3. CASE ~Touches(twal, f)
        <5>1. f \in RoContents(p) <=> f \in rmem[p] \/ (f \in file /\ rst[p][r] = "deferred")
          BY <4>1, ContentsOf
        <5>2. rst[p][r] = "deferred" => r \in RoTouched
          BY <1>2, <2>4
        <5>3. f \in rmem'[p] <=> f \in RoContents(p)
          BY <1>5, <4>1, <4>3, <5>1, <5>2
        <5> QED BY <2>1, <2>2, <4>3, <5>3
      <4> QED BY <4>2, <4>3
    <3> QED BY <1>1, <1>6, <3>1 DEF LiveRead
  <2>5. ASSUME rst'[p][r] = "deferred" PROVE LiveTouch(p, r)'
    <3>1. rst[p][r] = "deferred" /\ r \notin RoTouched
      BY <1>2, <2>5
    <3>2. \A f \in FactsOf(r) : f \in Facts /\ RelOf[f] = r /\ ~Touches(twal, f)
      BY <3>1 DEF RoTouched, FactsOf
    <3>3. \A f \in FactsOf(r) : f \notin rmem[p]
      BY <1>0, <3>1, <3>2 DEF Unread
    <3>4. \A f \in FactsOf(r) : f \in RoContents(p) <=> f \in file
      BY <3>1, <3>2, <3>3, ContentsOf
    <3>5. SameIn(r, file, s)
      BY <2>1, <3>2, <3>4 DEF SameIn
    <3>6. pc # "down" => SameIn(r, mem, facts)
      BY <3>2, MemoryIsCommitted DEF WriterInv, SameIn
    <3> QED BY <1>1, <1>6, <3>5, <3>6 DEF LiveTouch, SameIn
  <2> QED BY <1>2, <2>0, <2>4, <2>5
<1> QED BY <1>7, <1>8, <1>9 DEF ReaderOk

(***************************************************************************)
(* The first touch of a deferred relation.                                 *)
(***************************************************************************)
LEMMA RoTouchSeen ==
    ASSUME TypeOK, NEW p \in Readers, ReaderOk(p), NEW r \in Rels, RoTouch(p, r)
    PROVE  ReaderOk(p)'
<1>0. Moments(p) /\ Unread(p) /\ Live(p)
  BY DEF ReaderOk
<1>1. /\ rpc[p] = "live" /\ rst[p][r] = "deferred"
      /\ rmem'[p] = rmem[p] \cup (file \cap FactsOf(r))
      /\ UNCHANGED <<pc, mem, file, wal, twal, rpc, facts, since, direct>>
  BY DEF RoTouch, writer, disk, history, TypeOK
<1>2. \A q \in Rels : rst'[p][q] = IF q # r THEN rst[p][q] ELSE "loaded"
  BY DEF RoTouch, TypeOK
<1>3. \A f \in FactsOf(r) : f \in rmem'[p] <=> f \in file
  BY <1>0, <1>1 DEF Unread, FactsOf
<1>4. Moments(p)' /\ Opening(p)'
  BY <1>0, <1>1 DEF Moments, Opening
<1>5. Unread(p)'
  <2>1. rmem[p] \subseteq Facts
    BY DEF TypeOK
  <2> QED BY <1>0, <1>1, <1>2, <2>1, RelOfAssumption DEF Unread, FactsOf
<1>6. LiveRead(p, r)'
  <2>1. PICK s \in since[p] : SameIn(r, file, s)
    BY <1>0, <1>1 DEF Live, LiveTouch
  <2>2. \A f \in FactsOf(r) : f \in rmem'[p] <=> f \in (IF f \in direct[p] THEN s ELSE s)
    BY <1>3, <2>1 DEF SameIn
  <2> QED BY <1>1, <2>2 DEF LiveRead
<1>7. Live(p)'
  <2> SUFFICES ASSUME NEW q \in Rels
               PROVE  /\ rst'[p][q] \in {"deferred", "loaded"}
                      /\ rst'[p][q] = "loaded" => LiveRead(p, q)'
                      /\ rst'[p][q] = "deferred" => LiveTouch(p, q)'
    BY DEF Live
  <2>1. CASE q = r
    BY <1>2, <1>6, <2>1
  <2>2. CASE q # r
    <3>1. \A f \in FactsOf(q) : f \in rmem'[p] <=> f \in rmem[p]
      BY <1>1, <2>2 DEF FactsOf
    <3>2. LiveRead(p, q) => LiveRead(p, q)'
      BY <1>1, <1>2, <2>2, <3>1, OtherRelation
    <3>3. LiveTouch(p, q) => LiveTouch(p, q)'
      BY <1>1 DEF LiveTouch, SameIn
    <3> QED BY <1>0, <1>1, <1>2, <2>2, <3>2, <3>3 DEF Live
  <2> QED BY <2>1, <2>2
<1> QED BY <1>4, <1>5, <1>7 DEF ReaderOk

(***************************************************************************)
(* The readers' side of the invariant is kept by every step.               *)
(***************************************************************************)
LEMMA ReaderStep ==
    ASSUME RInv, [Next]_vars, NEW p \in Readers
    PROVE  ReaderOk(p)'
<1>0. TypeOK /\ WriterInv /\ ReaderOk(p)
  BY DEF RInv, ReaderInv
<1>1. CASE Open
  <2>1. mem' = facts
    BY <1>0, <1>1, OpenStep
  <2> QED BY <1>0, <1>1, <2>1, LeftAlone DEF Open, disk, reader, history
<1>2. ASSUME NEW rec \in FactRec, DirectWrite(rec) PROVE ReaderOk(p)'
  BY <1>0, <1>2, WriteSeen
<1>3. ASSUME NEW ops \in Txns, Commit(ops) PROVE ReaderOk(p)'
  BY <1>0, <1>3, CommitSeen
<1>4. CASE Apply
  BY <1>0, <1>4, ApplySeen
<1>5. CASE EndApply \/ Close \/ CompactBegin \/ CompactTruncate
  <2>1. UNCHANGED <<mem, file, twal, rpc, rst, rmem, facts, since, direct>>
    BY <1>5 DEF EndApply, Close, CompactBegin, CompactTruncate, disk, reader, history
  <2>2. pc # "down"
    BY <1>0, <1>5
    DEF EndApply, Close, CompactBegin, CompactTruncate, WriterInv, Window
  <2> QED BY <1>0, <2>1, <2>2, LeftAlone
<1>6. CASE CompactSave
  BY <1>0, <1>6, SaveSeen
<1>7. CASE CompactEnd
  <2>1. UNCHANGED <<file, rpc, rst, rmem, facts, since, direct>>
    BY <1>7 DEF CompactEnd, reader, history
  <2>2. rpc[p] # "open" /\ pc = "sweep"
    BY <1>0, <1>7 DEF CompactEnd, WriterInv, Window
  <2>3. pc' = "down" \/ mem' = mem
    BY <1>7 DEF CompactEnd
  <2> QED BY <1>0, <2>1, <2>2, <2>3, LeftAlone
<1>8. CASE Kill
  BY <1>0, <1>8, LeftAlone DEF Kill, disk, reader, history
<1>9. ASSUME NEW q \in Readers, RoOpen(q) \/ RoOpened(q) \/ RoClose(q) PROVE ReaderOk(p)'
  <2>1. CASE q = p
    BY <1>0, <1>9, <2>1, RoOpenSeen, RoOpenedSeen, RoCloseSeen
  <2>2. CASE q # p
    <3>1. UNCHANGED <<pc, mem, file, twal, facts>>
      BY <1>9 DEF RoOpen, RoOpened, RoClose, writer, disk, history
    <3>2. /\ rpc'[p] = rpc[p] /\ rst'[p] = rst[p] /\ rmem'[p] = rmem[p]
          /\ since'[p] = since[p] /\ direct'[p] = direct[p]
      BY <1>0, <1>9, <2>2 DEF RoOpen, RoOpened, RoClose, history, TypeOK
    <3> QED BY <1>0, <3>1, <3>2, LeftAlone
  <2> QED BY <2>1, <2>2
<1>10. ASSUME NEW q \in Readers, NEW r \in Rels,
              RoWalOpen(q, r) \/ RoLoad(q, r) \/ RoReplay(q, r) \/ RoTouch(q, r)
       PROVE  ReaderOk(p)'
  <2>1. CASE q = p
    BY <1>0, <1>10, <2>1, RoWalOpenSeen, RoLoadSeen, RoReplaySeen, RoTouchSeen
  <2>2. CASE q # p
    <3>1. UNCHANGED <<pc, mem, file, twal, facts, rpc, since, direct>>
      BY <1>10 DEF RoWalOpen, RoLoad, RoReplay, RoTouch, writer, disk, history
    <3>2. rst'[p] = rst[p] /\ rmem'[p] = rmem[p]
      BY <1>0, <1>10, <2>2 DEF RoWalOpen, RoLoad, RoReplay, RoTouch, TypeOK
    <3> QED BY <1>0, <3>1, <3>2, LeftAlone
  <2> QED BY <2>1, <2>2
<1>11. CASE UNCHANGED vars
  BY <1>0, <1>11, LeftAlone DEF vars
<1> QED
  BY <1>1, <1>2, <1>3, <1>4, <1>5, <1>6, <1>7, <1>8, <1>9, <1>10, <1>11 DEF Next

-----------------------------------------------------------------------------
(***************************************************************************)
(* The invariant holds in every behaviour of a writer and its read-only    *)
(* handles.                                                                *)
(***************************************************************************)
THEOREM ReaderInvariant == Spec => []RInv
<1>1. Init => RInv
  BY ReaderInit
<1>2. RInv /\ [Next]_vars => RInv'
  <2> SUFFICES ASSUME RInv, [Next]_vars PROVE RInv'
    OBVIOUS
  <2>1. TypeOK'
    BY ReaderTypes
  <2>2. WriterInv'
    BY WriterStep DEF RInv
  <2>3. ReaderInv'
    BY ReaderStep DEF ReaderInv
  <2> QED BY <2>1, <2>2, <2>3 DEF RInv
<1> QED BY <1>1, <1>2, PTL DEF Spec

(***************************************************************************)
(* The state of the writer, its files and its readers keeps its types.     *)
(***************************************************************************)
THEOREM ReaderTypeCorrect == Spec => []TypeOK
<1>1. RInv => TypeOK
  BY DEF RInv
<1> QED BY <1>1, ReaderInvariant, PTL

(***************************************************************************)
(* A relation a live reader has loaded, by its open or at the first touch, *)
(* shows contents the writer had since the open began, whatever writes,    *)
(* commits, compactions, closes and kills happened meanwhile.              *)
(***************************************************************************)
THEOREM ReadsAreReal == Spec => []ReadsRealState
<1>1. RInv => ReadsRealState
  <2> SUFFICES ASSUME RInv, NEW p \in Readers, NEW r \in Rels,
                      rpc[p] = "live", rst[p][r] = "loaded"
               PROVE  \E s, t \in since[p] : \A f \in FactsOf(r) :
                         f \in rmem[p] <=> f \in (IF f \in direct[p] THEN s ELSE t)
    BY DEF ReadsRealState
  <2>1. Live(p)
    BY DEF RInv, ReaderInv, ReaderOk
  <2> QED BY <2>1 DEF Live, LiveRead
<1> QED BY <1>1, ReaderInvariant, PTL

(***************************************************************************)
(* The end of dl_open_ro: over all relations together the handle shows the *)
(* committed contents of that moment, the facts written directly during    *)
(* the open aside.                                                         *)
(***************************************************************************)
LEMMA ReadyIsCommitted ==
    ASSUME TypeOK, WriterInv, NEW p \in Readers, ReaderOk(p), RoOpened(p)
    PROVE  facts \in since[p] /\ RoContents(p)' \ direct[p] = facts \ direct[p]
<1>0. Moments(p) /\ Opening(p)
  BY DEF ReaderOk
<1>1. /\ rpc[p] = "open" /\ file' = file
      /\ \A r \in Rels : rst[p][r] \in {"deferred", "loaded"}
  BY DEF RoOpened, disk
<1>2. \A r \in Rels : rst'[p][r] = IF r \in RoTouched THEN "loaded" ELSE rst[p][r]
  BY RoOpenedReads
<1>3. rmem'[p] \subseteq Facts /\ file \subseteq Facts /\ facts \subseteq Facts
  BY RoOpenedReads DEF TypeOK
<1>4. ASSUME NEW f \in Facts \ direct[p] PROVE f \in RoContents(p)' <=> f \in facts
  <2>1. RelOf[f] \in Rels /\ f \in FactsOf(RelOf[f]) /\ f \notin direct[p]
    BY RelOfAssumption DEF FactsOf
  <2>2. f \in RoContents(p)' <=> f \in rmem'[p] \/ (f \in file /\ rst'[p][RelOf[f]] = "deferred")
    BY <1>1, ContentsOf
  <2>3. CASE Touches(twal, f)
    <3>1. RelOf[f] \in RoTouched /\ (f \in rmem'[p] <=> f \in facts)
      BY <2>3, RoOpenedReads
    <3> QED BY <1>2, <2>1, <2>2, <3>1
  <2>4. CASE ~Touches(twal, f)
    <3>1. f \in rmem'[p] <=> \/ f \in rmem[p]
                             \/ f \in file /\ RelOf[f] \in RoTouched /\ rst[p][RelOf[f]] = "deferred"
      BY <2>4, RoOpenedReads
    <3>2. f \in RoContents(p) <=> f \in rmem[p] \/ (f \in file /\ rst[p][RelOf[f]] = "deferred")
      BY ContentsOf
    <3>3. f \in RoContents(p)' <=> f \in RoContents(p)
      BY <1>2, <2>1, <2>2, <3>1, <3>2
    <3>4. OpenRead(p, RelOf[f])
      BY <1>0, <1>1, <2>1 DEF Opening
    <3>5. f \in RoContents(p) <=> f \in facts
      BY <2>1, <2>4, <3>4 DEF OpenRead
    <3> QED BY <3>3, <3>5
  <2> QED BY <2>3, <2>4
<1>5. RoContents(p)' \subseteq Facts
  BY <1>1, <1>3, ContentsOf
<1>6. facts \in since[p]
  BY <1>0, <1>1 DEF Moments
<1> QED BY <1>3, <1>4, <1>5, <1>6

(***************************************************************************)
(* An open that returns has seen each transaction entirely or not at all,  *)
(* over all relations together.                                            *)
(***************************************************************************)
THEOREM OpensAreAtomic == Spec => OpenIsAtomic
<1>1. RInv /\ [Next]_vars =>
        [\A p \in Readers :
            rpc[p] = "open" /\ rpc'[p] = "live" =>
                \E s \in since[p] : RoContents(p)' \ direct[p] = s \ direct[p]]_vars
  <2> SUFFICES ASSUME RInv, Next, NEW p \in Readers, rpc[p] = "open", rpc'[p] = "live"
               PROVE  \E s \in since[p] : RoContents(p)' \ direct[p] = s \ direct[p]
    OBVIOUS
  <2>0. TypeOK /\ WriterInv /\ ReaderOk(p)
    BY DEF RInv, ReaderInv
  <2>1. RoOpened(p)
    <3>1. rpc' # rpc
      OBVIOUS
    <3>2. ~(Open \/ Apply \/ EndApply \/ Close \/ CompactBegin \/ CompactSave
              \/ CompactTruncate \/ CompactEnd \/ Kill)
      BY <3>1 DEF Open, Apply, EndApply, Close, CompactBegin, CompactSave,
                  CompactTruncate, CompactEnd, Kill, reader
    <3>3. /\ \A rec \in FactRec : ~DirectWrite(rec)
          /\ \A ops \in Txns : ~Commit(ops)
      BY <3>1 DEF DirectWrite, Commit, reader
    <3>4. \A q \in Readers, r \in Rels :
             ~(RoWalOpen(q, r) \/ RoLoad(q, r) \/ RoReplay(q, r) \/ RoTouch(q, r))
      BY <3>1 DEF RoWalOpen, RoLoad, RoReplay, RoTouch
    <3>5. PICK q \in Readers : RoOpen(q) \/ RoOpened(q) \/ RoClose(q)
      BY <3>2, <3>3, <3>4 DEF Next
    <3>6. RoOpened(q) /\ q = p
      BY <2>0, <3>5 DEF RoOpen, RoOpened, RoClose, TypeOK
    <3> QED BY <3>6
  <2>2. facts \in since[p] /\ RoContents(p)' \ direct[p] = facts \ direct[p]
    BY <2>0, <2>1, ReadyIsCommitted
  <2> QED BY <2>2
<1> QED BY <1>1, ReaderInvariant, PTL DEF Spec, OpenIsAtomic

-----------------------------------------------------------------------------
(***************************************************************************)
(* The locks under the window.  ReaderOpen takes the mutation window as    *)
(* one step that no open reader overlaps; DirLock is how two byte-range    *)
(* locks, retries and nested windows bring that about.  What follows is    *)
(* about DirLock, for any set of processes that keep to one handle per     *)
(* directory per process, and any number of attempts before a reader's     *)
(* deadline.                                                               *)
(*                                                                         *)
(* OneWriter and WindowExclusive speak of handles; the inductive invariant *)
(* ties every handle to the lock it believes it has (Backed), which close  *)
(* and death could take away, and states what fcntl guarantees about the   *)
(* locks themselves (Disjoint).                                            *)
(***************************************************************************)

(***************************************************************************)
(* The states of the handles, but for the number of attempts so far.       *)
(***************************************************************************)
HandlesTyped ==
    /\ rw \in [Procs -> {"none", "queued", "idle", "wait", "mutate"}]
    /\ depth \in [Procs -> 0..2]
    /\ nested \in [Procs -> BOOLEAN]
    /\ closing \in [Procs -> BOOLEAN]
    /\ ro \in [Procs -> {"none", "try", "open", "live"}]
    /\ excl \subseteq Procs
    /\ winX \subseteq Procs
    /\ winS \subseteq Procs

(***************************************************************************)
(* Every handle has the lock its state stands for.                         *)
(***************************************************************************)
Backed ==
    \A p \in Procs :
        /\ Holds(p) => p \in excl
        /\ rw[p] = "mutate" => p \in winX
        /\ ro[p] = "open" => p \in winS

(***************************************************************************)
(* fcntl: an exclusive lock is the only lock on its byte.                  *)
(***************************************************************************)
Disjoint ==
    /\ \A p, q \in excl : p = q
    /\ \A p \in winX, q \in winX \cup winS : p = q

(***************************************************************************)
(* The window depth is 1, or 2 inside the inner window.                    *)
(***************************************************************************)
Depth ==
    \A p \in Procs : rw[p] = "mutate" =>
        depth[p] \in {1, 2} /\ (~nested[p] => depth[p] = 1)

(***************************************************************************)
(* One handle per directory per process.                                   *)
(***************************************************************************)
OneHandle == \A p \in Procs : ro[p] = "none" \/ rw[p] = "none"

(***************************************************************************)
(* And no lock outlives what it was taken for.                             *)
(***************************************************************************)
NoneStale ==
    /\ \A p \in excl : Holds(p)
    /\ \A p \in winX : rw[p] = "mutate"

LInv == HandlesTyped /\ Backed /\ Disjoint /\ Depth /\ OneHandle /\ NoneStale

-----------------------------------------------------------------------------
(***************************************************************************)
(* Initially nobody has a handle or a lock.                                *)
(***************************************************************************)
LEMMA LocksStart == LockInit => LInv
  BY DEF LockInit, LInv, HandlesTyped, Backed, Holds, Disjoint, Depth, OneHandle,
         NoneStale

(***************************************************************************)
(* A step of a read-write handle keeps the invariant.                      *)
(***************************************************************************)
LEMMA RwPreserves ==
    ASSUME LInv, NEW p \in Procs, RwStep(p)
    PROVE  LInv'
<1> USE DEF LInv, HandlesTyped, Backed, Holds, Disjoint, Depth, OneHandle, NoneStale,
            rwVars, roVars, locks
<1>1. CASE OpenRw(p)
  BY <1>1 DEF OpenRw, ExclFree
<1>2. CASE Grant(p)
  BY <1>2 DEF Grant, ExclFree
<1>3. ASSUME NEW close \in BOOLEAN, MutWindowBegin(p, close)
      PROVE  LInv'
  <2>1. closing' \in [Procs -> BOOLEAN] /\ UNCHANGED <<ro, tries, excl>> /\ rw[p] = "idle"
    BY <1>3 DEF MutWindowBegin
  <2>2. CASE WriteFree(p)
    <3>1. EnterWindow(p)
      BY <1>3, <2>2 DEF MutWindowBegin
    <3> QED BY <2>1, <2>2, <3>1 DEF EnterWindow, WriteFree
  <2>3. CASE ~WriteFree(p)
    <3>1. rw' = [rw EXCEPT ![p] = "wait"] /\ UNCHANGED <<depth, nested, winX, winS>>
      BY <1>3, <2>3 DEF MutWindowBegin
    <3> QED BY <2>1, <3>1
  <2> QED BY <2>2, <2>3
<1>4. CASE WindowGrant(p)
  BY <1>4 DEF WindowGrant, EnterWindow, WriteFree
<1>5. CASE MutWindowNest(p)
  BY <1>5 DEF MutWindowNest
<1>6. CASE MutWindowEnd(p)
  BY <1>6 DEF MutWindowEnd
<1>7. CASE CloseRw(p)
  BY <1>7 DEF CloseRw, DropAll
<1> QED BY <1>1, <1>2, <1>3, <1>4, <1>5, <1>6, <1>7 DEF RwStep

(***************************************************************************)
(* A step of a read-only handle, or a death, keeps the invariant.          *)
(***************************************************************************)
LEMMA RoPreserves ==
    ASSUME LInv, NEW p \in Procs, RoStep(p) \/ Die(p)
    PROVE  LInv'
<1> USE DEF LInv, HandlesTyped, Backed, Holds, Disjoint, Depth, OneHandle, NoneStale,
            rwVars, roVars, locks
<1>1. CASE OpenRo(p)
  BY <1>1 DEF OpenRo
<1>2. CASE RoLock(p)
  BY <1>2 DEF RoLock, ReadFree
<1>3. CASE RoRetry(p)
  BY <1>3 DEF RoRetry
<1>4. CASE RoTimeout(p)
  BY <1>4 DEF RoTimeout, DropAll
<1>5. CASE RoReady(p)
  BY <1>5 DEF RoReady
<1>6. CASE CloseRo(p)
  BY <1>6 DEF CloseRo, DropAll
<1>7. CASE Die(p)
  BY <1>7 DEF Die, DropAll
<1> QED BY <1>1, <1>2, <1>3, <1>4, <1>5, <1>6, <1>7 DEF RoStep

(***************************************************************************)
(* The inductive invariant holds throughout.                               *)
(***************************************************************************)
THEOREM LockInvariant == LockSpec => []LInv
<1>1. LInv /\ [LockNext]_lockVars => LInv'
  <2> SUFFICES ASSUME LInv, [LockNext]_lockVars PROVE LInv'
    OBVIOUS
  <2>1. CASE UNCHANGED lockVars
    BY <2>1 DEF lockVars, LInv, HandlesTyped, Backed, Holds, Disjoint, Depth, OneHandle,
                NoneStale
  <2>2. CASE LockNext
    BY <2>2, RwPreserves, RoPreserves DEF LockNext
  <2> QED BY <2>1, <2>2
<1> QED BY <1>1, LocksStart, PTL DEF LockSpec

(***************************************************************************)
(* At most one read-write handle per directory, for any number of          *)
(* processes that open, queue, close and die in any order.                 *)
(***************************************************************************)
THEOREM SingleWriter == LockSpec => []OneWriter
<1>1. LInv => OneWriter
  BY DEF LInv, Backed, Disjoint, OneWriter
<1> QED BY <1>1, LockInvariant, PTL

(***************************************************************************)
(* No mutation window, nested or not, overlaps the open of a reader in     *)
(* another process.                                                        *)
(***************************************************************************)
THEOREM WindowKeepsReadersOut == LockSpec => []WindowExclusive
<1>1. LInv => WindowExclusive
  BY DEF LInv, Backed, Disjoint, WindowExclusive
<1> QED BY <1>1, LockInvariant, PTL

-----------------------------------------------------------------------------
(***************************************************************************)
(* The steps of a read-write handle, as dl.h has them.                     *)
(***************************************************************************)
LEMMA RwRefines ==
    ASSUME LInv, NEW p \in Procs, RwStep(p)
    PROVE  Contract!Next \/ UNCHANGED Contract!vars
<1> USE DEF LInv, HandlesTyped, Backed, Holds, Disjoint, Depth, OneHandle, NoneStale,
            rwVars, roVars, locks
<1>1. CASE OpenRw(p)
  <2>1. Contract!OpenRw(p)
    BY <1>1 DEF OpenRw, ExclFree, Contract!OpenRw, Contract!Idle
  <2> QED BY <2>1 DEF Contract!Next
<1>2. CASE Grant(p)
  <2>1. Contract!OpenRw(p)
    BY <1>2 DEF Grant, ExclFree, Contract!OpenRw, Contract!Idle
  <2> QED BY <2>1 DEF Contract!Next
<1>3. ASSUME NEW close \in BOOLEAN, MutWindowBegin(p, close)
      PROVE  Contract!Next \/ UNCHANGED Contract!vars
  <2>1. UNCHANGED <<ro, tries, excl>> /\ rw[p] = "idle"
    BY <1>3 DEF MutWindowBegin
  <2>2. CASE WriteFree(p)
    <3>1. EnterWindow(p)
      BY <1>3, <2>2 DEF MutWindowBegin
    <3>2. Contract!Replace(p)
      BY <2>1, <2>2, <3>1 DEF EnterWindow, WriteFree, Contract!Replace
    <3> QED BY <3>2 DEF Contract!Next
  <2>3. CASE ~WriteFree(p)
    <3>1. rw' = [rw EXCEPT ![p] = "wait"]
      BY <1>3, <2>3 DEF MutWindowBegin
    <3> QED BY <2>1, <3>1 DEF Contract!vars
  <2> QED BY <2>2, <2>3
<1>4. CASE WindowGrant(p)
  <2>1. Contract!Replace(p)
    BY <1>4 DEF WindowGrant, EnterWindow, WriteFree, Contract!Replace
  <2> QED BY <2>1 DEF Contract!Next
<1>5. CASE MutWindowNest(p)
  BY <1>5 DEF MutWindowNest, Contract!vars
<1>6. CASE MutWindowEnd(p)
  <2>1. CASE depth[p] = 1
    <3>1. Contract!ReplaceEnd(p)
      BY <1>6, <2>1 DEF MutWindowEnd, Contract!ReplaceEnd
    <3> QED BY <3>1 DEF Contract!Next
  <2>2. CASE depth[p] # 1
    BY <1>6, <2>2 DEF MutWindowEnd, Contract!vars
  <2> QED BY <2>1, <2>2
<1>7. CASE CloseRw(p)
  <2>1. Contract!Gone(p)
    BY <1>7 DEF CloseRw, DropAll, Contract!Gone
  <2> QED BY <2>1 DEF Contract!Next
<1> QED BY <1>1, <1>2, <1>3, <1>4, <1>5, <1>6, <1>7 DEF RwStep

(***************************************************************************)
(* The steps of a read-only handle and a death, as dl.h has them.          *)
(***************************************************************************)
LEMMA RoRefines ==
    ASSUME LInv, NEW p \in Procs, RoStep(p) \/ Die(p)
    PROVE  Contract!Next \/ UNCHANGED Contract!vars
<1> USE DEF LInv, HandlesTyped, Backed, Holds, Disjoint, OneHandle, NoneStale,
            rwVars, roVars, locks
<1>1. CASE OpenRo(p)
  <2>1. Contract!OpenRo(p)
    BY <1>1 DEF OpenRo, Contract!OpenRo, Contract!Idle
  <2> QED BY <2>1 DEF Contract!Next
<1>2. CASE RoLock(p)
  <2>1. Contract!Enter(p)
    BY <1>2 DEF RoLock, ReadFree, Contract!Enter
  <2> QED BY <2>1 DEF Contract!Next
<1>3. CASE RoRetry(p)
  BY <1>3 DEF RoRetry, Contract!vars
<1>4. CASE RoTimeout(p)
  <2>1. Contract!Refuse(p)
    BY <1>4 DEF RoTimeout, ReadFree, DropAll, Contract!Refuse
  <2> QED BY <2>1 DEF Contract!Next
<1>5. CASE RoReady(p)
  <2>1. Contract!Ready(p)
    BY <1>5 DEF RoReady, Contract!Ready
  <2> QED BY <2>1 DEF Contract!Next
<1>6. CASE CloseRo(p)
  <2>1. Contract!Gone(p)
    BY <1>6 DEF CloseRo, DropAll, Contract!Gone
  <2> QED BY <2>1 DEF Contract!Next
<1>7. CASE Die(p)
  <2>1. Contract!Gone(p)
    BY <1>7 DEF Die, DropAll, Contract!Gone
  <2> QED BY <2>1 DEF Contract!Next
<1> QED BY <1>1, <1>2, <1>3, <1>4, <1>5, <1>6, <1>7 DEF RoStep

(***************************************************************************)
(* The two locks, the retries and the nested windows implement the         *)
(* concurrency model dl.h describes, for any number of processes.          *)
(***************************************************************************)
THEOREM LocksKeepContract == LockSpec => KeepsLockContract
<1>1. LockInit => Contract!Init
  BY DEF LockInit, Holds, Contract!Init
<1>2. LInv /\ [LockNext]_lockVars => [Contract!Next]_(Contract!vars)
  <2> SUFFICES ASSUME LInv, [LockNext]_lockVars PROVE [Contract!Next]_(Contract!vars)
    OBVIOUS
  <2>1. CASE UNCHANGED lockVars
    BY <2>1 DEF lockVars, Holds, Contract!vars
  <2>2. CASE LockNext
    BY <2>2, RwRefines, RoRefines DEF LockNext
  <2> QED BY <2>1, <2>2
<1> QED BY <1>1, <1>2, LockInvariant, PTL DEF LockSpec, KeepsLockContract,
                                              Contract!Spec

=============================================================================
