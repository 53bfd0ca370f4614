--------------------------- MODULE RelationProofs ---------------------------
(***************************************************************************)
(* Safety of the storage of a relation, for any set of facts, any log      *)
(* bound and any workload features.                                        *)
(*                                                                         *)
(* The inductive invariant says how memory, file and log hang together:    *)
(* which handle states exist (Handle), where the acknowledged contents     *)
(* are (Contents), that the log still adds every overlay fact (OverlayLog) *)
(* and that a saved file is complete while its log awaits truncation       *)
(* (SavedFile).                                                            *)
(***************************************************************************)
EXTENDS RelationStore, WalProofs

(***************************************************************************)
(* Only an owned relation is dirty, holds an overlay or is inside a        *)
(* compaction; a relation that was not loaded has no log to miss.          *)
(***************************************************************************)
Handle ==
    /\ dirty \/ pc # "idle" \/ ov # {} => state = "owned"
    /\ state \in {"deferred", "view"} => wal = <<>>

(***************************************************************************)
(* The acknowledged contents are DAFSA and overlay, or the file.           *)
(***************************************************************************)
Contents ==
    /\ state = "owned" => base \cup ov = facts
    /\ state \in {"deferred", "view"} => file = facts

(***************************************************************************)
(* The last record about an overlay fact adds it.                          *)
(***************************************************************************)
OverlayLog == \A f \in ov : LastIsAdd(wal, f)

(***************************************************************************)
(* Between the two halves of a compaction the file holds everything.       *)
(***************************************************************************)
SavedFile == pc \in {"saved", "closeSaved"} => ov = {} /\ file = facts

IInv ==
    /\ TypeOK
    /\ Handle
    /\ Contents
    /\ OverlayLog
    /\ SavedFile
    /\ KillSafe

-----------------------------------------------------------------------------
(***************************************************************************)
(* Replaying any log yields facts.                                         *)
(***************************************************************************)
LEMMA ReplayType == \A c, l : Replay(c, l) \in SUBSET Facts
  BY DEF Replay

(***************************************************************************)
(* A new database directory is well typed.                                 *)
(***************************************************************************)
LEMMA TypeInit == Init => TypeOK
<1> SUFFICES ASSUME Init PROVE TypeOK
  OBVIOUS
<1>1. wal \in Seq(FactRec) /\ synced \in 0..Len(wal)
  BY DEF Init
<1>2. may \subseteq SUBSET Facts
  BY DEF Init
<1> QED BY <1>1, <1>2 DEF Init, TypeOK

(***************************************************************************)
(* The type invariant is inductive by itself.                              *)
(***************************************************************************)
LEMMA TypeStep == TypeOK /\ [Next]_vars => TypeOK'
<1> SUFFICES ASSUME TypeOK, [Next]_vars
             PROVE  TypeOK'
  OBVIOUS
<1> USE DEF TypeOK
<1>1. CASE Open
  <2>1. Replay(file, wal) \in SUBSET Facts
    BY ReplayType
  <2> QED BY <1>1, <2>1 DEF Open, diskVars
<1>2. CASE Lookup
  BY <1>2 DEF Lookup, diskVars, history
<1>3. CASE Enumerate
  BY <1>3 DEF Enumerate, diskVars, history
<1>4. ASSUME NEW f \in Facts, AddFact(f)
      PROVE  TypeOK'
  <2>1. AddRec(f) \in FactRec
    BY DEF AddRec, FactRec
  <2>2. wal' \in Seq(FactRec) /\ synced' \in 0..Len(wal')
    BY <1>4, <2>1 DEF AddFact
  <2> QED BY <1>4, <2>2 DEF AddFact, Acknowledge, Owned
<1>5. ASSUME NEW f \in Facts, DeleteFact(f)
      PROVE  TypeOK'
  <2>1. DelRec(f) \in FactRec
    BY DEF DelRec, FactRec
  <2>2. wal' \in Seq(FactRec) /\ synced' \in 0..Len(wal')
    BY <1>5, <2>1 DEF DeleteFact
  <2> QED BY <1>5, <2>2 DEF DeleteFact, Acknowledge, Owned
<1>6. ASSUME NEW rows \in SUBSET Facts, LoadFacts(rows)
      PROVE  TypeOK'
  <2>1. base' \subseteq Facts /\ facts' \subseteq Facts /\ stale' \subseteq Facts
    BY <1>6, ReplayType DEF LoadFacts, Owned
  <2>2. may' \subseteq SUBSET Facts
    BY <1>6, <2>1 DEF LoadFacts
  <2>3. early' \in BOOLEAN /\ dirty' \in BOOLEAN
    BY <1>6 DEF LoadFacts
  <2>4. UNCHANGED <<ov, pc, wal, synced>> /\ file' \subseteq Facts /\ state' = "owned"
    BY <1>6, <2>1 DEF LoadFacts
  <2> QED BY <2>1, <2>2, <2>3, <2>4
<1>7. CASE Consolidate
  <2>1. dirty' \in BOOLEAN
    BY <1>7 DEF Consolidate
  <2>2. may' \subseteq SUBSET Facts /\ synced' \in 0..Len(wal')
    BY <1>7 DEF Consolidate
  <2> QED BY <1>7, <2>1, <2>2 DEF Consolidate
<1>8. CASE BeginClose
  <2>1. may' \subseteq SUBSET Facts /\ synced' \in 0..Len(wal')
    BY <1>8 DEF BeginClose
  <2> QED BY <1>8, <2>1 DEF BeginClose
<1>9. CASE CompactSave
  BY <1>9 DEF CompactSave
<1>10. CASE CompactTruncate
  <2>1. may' \subseteq SUBSET Facts
    BY <1>10 DEF CompactTruncate
  <2>2. wal' \in Seq(FactRec) /\ synced' \in 0..Len(wal')
    BY <1>10 DEF CompactTruncate
  <2> QED BY <1>10, <2>1, <2>2 DEF CompactTruncate, EndCompact
<1>11. CASE CompactFail
  BY <1>11 DEF CompactFail, EndCompact, diskVars, history
<1>12. CASE Kill
  BY <1>12 DEF Kill, Crashed, diskVars, history
<1>13. CASE PowerLoss
  <2>1. PICK n \in synced..Len(wal) : /\ wal' = Prefix(wal, n)
                                      /\ synced' = n
                                      /\ facts' = Replay(file, wal')
    BY <1>13 DEF PowerLoss
  <2>2. wal' \in Seq(FactRec) /\ synced' \in 0..Len(wal')
    BY <2>1, PrefixType
  <2>3. facts' \subseteq Facts
    BY <2>1, ReplayType
  <2>4. may' \subseteq SUBSET Facts
    BY <1>13, <2>3 DEF PowerLoss
  <2> QED BY <1>13, <2>2, <2>3, <2>4 DEF PowerLoss, Crashed
<1>14. CASE UNCHANGED vars
  BY <1>14 DEF vars
<1> QED BY <1>1, <1>2, <1>3, <1>4, <1>5, <1>6, <1>7, <1>8, <1>9, <1>10,
           <1>11, <1>12, <1>13, <1>14 DEF Next

(***************************************************************************)
(* The type invariant: every operation of a relation, compaction, close    *)
(* and unclean stop keeps its state well formed; in particular the fsync'd *)
(* position never passes the end of the log.                               *)
(***************************************************************************)
THEOREM TypeCorrect == Spec => []TypeOK
  BY TypeInit, TypeStep, PTL DEF Spec

-----------------------------------------------------------------------------
(***************************************************************************)
(* Replaying a log over other contents of the same facts: where the old    *)
(* contents replay to g, so do all contents that have g, and where they    *)
(* do not, contents without g do not either.                               *)
(***************************************************************************)
LEMMA ReplayOver ==
    ASSUME NEW log, NEW old, NEW new, NEW g \in Facts
    PROVE  /\ g \in Replay(old, log) /\ g \in new => g \in Replay(new, log)
           /\ g \notin Replay(old, log) /\ g \notin new => g \notin Replay(new, log)
  BY DEF Replay

(***************************************************************************)
(* A new database directory satisfies the inductive invariant.             *)
(***************************************************************************)
LEMMA InvInit == Init => IInv
<1> SUFFICES ASSUME Init PROVE IInv
  OBVIOUS
<1>1. TypeOK
  BY TypeInit
<1>2. Handle /\ Contents /\ OverlayLog /\ SavedFile
  BY DEF Init, Handle, Contents, OverlayLog, SavedFile
<1>3. KillSafe
  BY ReplayEmpty DEF Init, KillSafe
<1> QED BY <1>1, <1>2, <1>3 DEF IInv

(***************************************************************************)
(* Every step keeps the inductive invariant.                               *)
(***************************************************************************)
LEMMA InvStep == IInv /\ [Next]_vars => IInv'
<1> SUFFICES ASSUME IInv, [Next]_vars
             PROVE  IInv'
  OBVIOUS
<1> USE DEF IInv
<1>0. TypeOK'
  BY TypeStep
<1>1. CASE Open
  <2>1. Handle' /\ OverlayLog' /\ SavedFile'
    BY <1>1 DEF Open, diskVars, Handle, OverlayLog, SavedFile
  <2>2. Contents'
    BY <1>1, ReplayEmpty DEF Open, diskVars, Contents, TypeOK
  <2>3. KillSafe'
    BY <1>1 DEF Open, diskVars, KillSafe
  <2> QED BY <1>0, <2>1, <2>2, <2>3
<1>2. CASE Lookup
  <2>1. Handle' /\ OverlayLog' /\ SavedFile'
    BY <1>2 DEF Lookup, diskVars, history, Handle, OverlayLog, SavedFile
  <2>2. Contents'
    BY <1>2 DEF Lookup, diskVars, history, Handle, Contents
  <2>3. KillSafe'
    BY <1>2 DEF Lookup, diskVars, history, KillSafe
  <2> QED BY <1>0, <2>1, <2>2, <2>3
<1>3. CASE Enumerate
  <2>1. Handle' /\ OverlayLog' /\ SavedFile'
    BY <1>3 DEF Enumerate, diskVars, history, Handle, OverlayLog, SavedFile
  <2>2. Contents'
    BY <1>3 DEF Enumerate, diskVars, history, Contents
  <2>3. KillSafe'
    BY <1>3 DEF Enumerate, diskVars, history, KillSafe
  <2> QED BY <1>0, <2>1, <2>2, <2>3
<1>4. ASSUME NEW f \in Facts, AddFact(f)
      PROVE  IInv'
  <2>1. AddRec(f) \in FactRec /\ AddRec(f).f = f /\ AddRec(f).op = "add"
    BY DEF AddRec, FactRec
  <2>2. Handle' /\ SavedFile'
    BY <1>4 DEF AddFact, Handle, SavedFile
  <2>3. Contents'
    BY <1>4 DEF AddFact, Acknowledge, Owned, Handle, Contents, TypeOK
  <2>4. OverlayLog'
    BY <1>4, <2>1, AppendRecord DEF AddFact, OverlayLog, TypeOK
  <2>5. KillSafe'
    <3>1. wal' = Logged(wal, AddRec(f)) /\ file' = file
      BY <1>4 DEF AddFact, Logged
    <3>2. file \in SUBSET Facts /\ wal \in Seq(FactRec)
      BY DEF TypeOK
    <3>3. Replay(file, Logged(wal, AddRec(f))) = Replay(file, wal) \cup {f}
      BY <3>2, ReplayAppend
    <3>4. facts' = facts \cup {f} /\ stale' = stale
      BY <1>4 DEF AddFact, Acknowledge
    <3> QED BY <3>1, <3>3, <3>4 DEF KillSafe
  <2> QED BY <1>0, <2>2, <2>3, <2>4, <2>5
<1>5. ASSUME NEW f \in Facts, DeleteFact(f)
      PROVE  IInv'
  <2>1. Handle' /\ OverlayLog' /\ SavedFile'
    BY <1>5 DEF DeleteFact, Handle, OverlayLog, SavedFile
  <2>2. Contents'
    BY <1>5 DEF DeleteFact, Acknowledge, Owned, Handle, Contents, TypeOK
  <2>3. KillSafe'
    <3>1. Replay(file', wal') = Replay(file, wal) \ {f}
      <4>1. wal' = Logged(wal, DelRec(f)) /\ file' = file
        BY <1>5 DEF DeleteFact, Logged
      <4>2. file \in SUBSET Facts /\ wal \in Seq(FactRec)
        BY DEF TypeOK
      <4>3. Replay(file, Logged(wal, DelRec(f))) = Replay(file, wal) \ {f}
        BY <4>2, ReplayAppend
      <4> QED BY <4>1, <4>3
    <3>2. facts' = facts \ {f} /\ stale' = stale
      BY <1>5 DEF DeleteFact, Acknowledge
    <3> QED BY <3>1, <3>2 DEF KillSafe
  <2> QED BY <1>0, <2>1, <2>2, <2>3
<1>6. ASSUME NEW rows \in SUBSET Facts, LoadFacts(rows)
      PROVE  IInv'
  <2>1. Handle' /\ OverlayLog' /\ SavedFile'
    BY <1>6 DEF LoadFacts, Handle, OverlayLog, SavedFile
  <2>2. Contents'
    BY <1>6 DEF LoadFacts, Owned, Handle, Contents, TypeOK
  <2>3. KillSafe'
    <3>1. CASE file' = file /\ stale' = stale \cup rows
      BY <1>6, <3>1 DEF LoadFacts, KillSafe
    <3>2. CASE file' = base' /\ stale' = stale \cup (rows \ Replay(rows, wal))
      <4>1. base' = Owned \cup rows /\ wal' = wal /\ facts' = facts \cup rows
        BY <1>6 DEF LoadFacts
      <4>2. Owned \cup ov = facts
        BY <1>6 DEF LoadFacts, Owned, Handle, Contents, TypeOK
      <4>3. ASSUME NEW g \in Facts, g \notin stale'
            PROVE  g \in Replay(file', wal') <=> g \in facts'
        <5>1. g \notin stale /\ (g \in rows => g \in Replay(rows, wal))
          BY <3>2, <4>3
        <5>2. g \in Replay(file, wal) <=> g \in facts
          BY <5>1 DEF KillSafe
        <5>3. CASE g \in rows
          BY <3>2, <4>1, <5>1, <5>3, ReplayOver
        <5>4. CASE g \notin rows /\ g \in Owned
          BY <3>2, <4>1, <4>2, <5>2, <5>4, ReplayOver
        <5>5. CASE g \notin rows /\ g \in ov
          BY <4>1, <4>2, <5>5 DEF OverlayLog, Replay
        <5>6. CASE g \notin rows /\ g \notin facts
          BY <3>2, <4>1, <4>2, <5>2, <5>6, ReplayOver
        <5> QED BY <4>2, <5>3, <5>4, <5>5, <5>6
      <4> QED BY <1>0, <4>3, ReplayType DEF KillSafe, TypeOK
    <3> QED BY <1>6, <3>1, <3>2 DEF LoadFacts
  <2> QED BY <1>0, <2>1, <2>2, <2>3
<1>7. CASE Consolidate
  <2>1. Handle' /\ OverlayLog' /\ SavedFile'
    BY <1>7 DEF Consolidate, Handle, OverlayLog, SavedFile
  <2>2. Contents'
    BY <1>7 DEF Consolidate, Contents
  <2>3. KillSafe'
    BY <1>7 DEF Consolidate, KillSafe
  <2> QED BY <1>0, <2>1, <2>2, <2>3
<1>8. CASE BeginClose
  <2>1. Handle' /\ OverlayLog' /\ SavedFile'
    BY <1>8 DEF BeginClose, Handle, OverlayLog, SavedFile
  <2>2. Contents'
    BY <1>8 DEF BeginClose, Contents
  <2>3. KillSafe'
    BY <1>8 DEF BeginClose, KillSafe
  <2> QED BY <1>0, <2>1, <2>2, <2>3
<1>9. CASE CompactSave
  <2>1. base \cup ov = facts
    BY <1>9 DEF CompactSave, Handle, Contents
  <2>2. Handle' /\ OverlayLog' /\ SavedFile' /\ Contents'
    BY <1>9, <2>1 DEF CompactSave, Handle, OverlayLog, SavedFile, Contents
  <2>3. KillSafe'
    <3>1. file' = facts /\ UNCHANGED <<wal, facts, stale>>
      BY <1>9, <2>1 DEF CompactSave
    <3>2. \A g \in Facts : g \notin stale => (g \in Replay(facts, wal) <=> g \in facts)
      BY ReplayOver DEF KillSafe
    <3> QED BY <3>1, <3>2, ReplayType DEF KillSafe, TypeOK
  <2> QED BY <1>0, <2>2, <2>3
<1>10. CASE CompactTruncate
  <2>1. Handle' /\ OverlayLog' /\ SavedFile'
    BY <1>10 DEF CompactTruncate, EndCompact, Handle, OverlayLog, SavedFile
  <2>2. Contents'
    BY <1>10 DEF CompactTruncate, EndCompact, Handle, Contents, TypeOK
  <2>3. KillSafe'
    BY <1>10, ReplayEmpty DEF CompactTruncate, SavedFile, KillSafe, TypeOK
  <2> QED BY <1>0, <2>1, <2>2, <2>3
<1>11. CASE CompactFail
  <2>1. Handle' /\ OverlayLog' /\ SavedFile'
    BY <1>11 DEF CompactFail, EndCompact, diskVars, history, Handle, OverlayLog, SavedFile
  <2>2. Contents'
    BY <1>11 DEF CompactFail, EndCompact, diskVars, history, Handle, Contents, TypeOK
  <2>3. KillSafe'
    BY <1>11 DEF CompactFail, diskVars, history, KillSafe
  <2> QED BY <1>0, <2>1, <2>2, <2>3
<1>12. CASE Kill
  <2>1. Handle' /\ OverlayLog' /\ SavedFile' /\ Contents'
    BY <1>12 DEF Kill, Crashed, Handle, OverlayLog, SavedFile, Contents
  <2>2. KillSafe'
    BY <1>12 DEF Kill, diskVars, history, KillSafe
  <2> QED BY <1>0, <2>1, <2>2
<1>13. CASE PowerLoss
  <2>1. Handle' /\ OverlayLog' /\ SavedFile' /\ Contents'
    BY <1>13 DEF PowerLoss, Crashed, Handle, OverlayLog, SavedFile, Contents
  <2>2. KillSafe'
    BY <1>13 DEF PowerLoss, KillSafe
  <2> QED BY <1>0, <2>1, <2>2
<1>14. CASE UNCHANGED vars
  BY <1>0, <1>14 DEF vars, Handle, Contents, OverlayLog, SavedFile, KillSafe
<1> QED BY <1>1, <1>2, <1>3, <1>4, <1>5, <1>6, <1>7, <1>8, <1>9, <1>10,
           <1>11, <1>12, <1>13, <1>14 DEF Next

(***************************************************************************)
(* The inductive invariant holds throughout.                               *)
(***************************************************************************)
THEOREM StorageInvariant == Spec => []IInv
  BY InvInit, InvStep, PTL DEF Spec

(***************************************************************************)
(* Every read - through a view, a deferred load or the overlay - answers   *)
(* from exactly the acknowledged contents, whatever the workload.          *)
(***************************************************************************)
THEOREM ReadsCurrent == Spec => []ReadsAreCurrent
<1>1. IInv => ReadsAreCurrent
  BY DEF IInv, TypeOK, Handle, Contents, ReadsAreCurrent, Visible
<1> QED BY <1>1, StorageInvariant, PTL

(***************************************************************************)
(* Killing the process at any point of any call loses and invents nothing: *)
(* the files and the WAL replay to the acknowledged contents, except for   *)
(* facts that were bulk loaded over WAL records that delete them.          *)
(***************************************************************************)
THEOREM KillRecovers == Spec => []KillSafe
<1>1. IInv => KillSafe
  BY DEF IInv
<1> QED BY <1>1, StorageInvariant, PTL

-----------------------------------------------------------------------------
(***************************************************************************)
(* A step that keeps the file, the log, its fsync'd position and the       *)
(* histories cannot disturb PowerSafe.                                     *)
(***************************************************************************)
LEMMA PowerFrame ==
    ASSUME PowerSafe, UNCHANGED <<file, wal, synced, may, stale, early>>
    PROVE  PowerSafe'
  BY DEF PowerSafe

(***************************************************************************)
(* When everything is fsync'd the only cut is the whole log.               *)
(***************************************************************************)
LEMMA PowerSynced ==
    ASSUME TypeOK', synced' = Len(wal'),
           \E m \in may' : Replay(file', wal') \ stale' = m \ stale'
    PROVE  PowerSafe'
<1>1. \A n \in synced'..Len(wal') : Prefix(wal', n) = wal'
  BY PrefixWhole DEF TypeOK
<1> QED BY <1>1 DEF PowerSafe

(***************************************************************************)
(* An acknowledged write adds one record to the log and one member to may; *)
(* every shorter cut is one the log allowed before.                        *)
(***************************************************************************)
LEMMA PowerAppend ==
    ASSUME IInv, PowerSafe, IInv', NEW rec \in FactRec,
           wal' = Append(wal, rec), may' = may \cup {facts'},
           UNCHANGED <<file, synced, stale, early>>
    PROVE  PowerSafe'
<1> SUFFICES ASSUME ~early, NEW n \in synced..Len(wal')
             PROVE  \E m \in may' : Replay(file, Prefix(wal', n)) \ stale = m \ stale
  BY DEF PowerSafe
<1>1. Len(wal') = Len(wal) + 1 /\ wal \in Seq(FactRec) /\ synced \in 0..Len(wal)
  BY DEF IInv, TypeOK
<1>2. CASE n \in synced..Len(wal)
  <2>1. Prefix(wal', n) = Prefix(wal, n)
    BY <1>1, <1>2, PrefixOfAppend
  <2> QED BY <1>2, <2>1 DEF PowerSafe
<1>3. CASE n = Len(wal')
  <2>1. Prefix(wal', n) = wal'
    BY <1>3, PrefixWhole DEF IInv, TypeOK
  <2>2. Replay(file', wal') \ stale' = facts' \ stale'
    BY DEF IInv, KillSafe
  <2> QED BY <2>1, <2>2
<1> QED BY <1>1, <1>2, <1>3

(***************************************************************************)
(* Every step keeps PowerSafe, given the storage invariant.                *)
(***************************************************************************)
LEMMA PowerStep == IInv /\ PowerSafe /\ [Next]_vars => PowerSafe'
<1> SUFFICES ASSUME IInv, PowerSafe, [Next]_vars
             PROVE  PowerSafe'
  OBVIOUS
<1>0. IInv' /\ TypeOK /\ TypeOK'
  BY InvStep DEF IInv
<1>1. CASE Open
  BY <1>1, PowerFrame DEF Open, diskVars
<1>2. CASE Lookup
  BY <1>2, PowerFrame DEF Lookup, diskVars, history
<1>3. CASE Enumerate
  BY <1>3, PowerFrame DEF Enumerate, diskVars, history
<1>4. ASSUME NEW f \in Facts, AddFact(f)
      PROVE  PowerSafe'
  <2>1. AddRec(f) \in FactRec
    BY DEF AddRec, FactRec
  <2> QED BY <1>0, <1>4, <2>1, PowerAppend DEF AddFact, Acknowledge
<1>5. ASSUME NEW f \in Facts, DeleteFact(f)
      PROVE  PowerSafe'
  <2>1. DelRec(f) \in FactRec
    BY DEF DelRec, FactRec
  <2> QED BY <1>0, <1>5, <2>1, PowerAppend DEF DeleteFact, Acknowledge
<1>6. ASSUME NEW rows \in SUBSET Facts, LoadFacts(rows)
      PROVE  PowerSafe'
  <2>1. CASE file' = file /\ may' = may \cup {facts'} /\ stale' = stale \cup rows
    <3>1. UNCHANGED <<wal, synced>>
      BY <1>6 DEF LoadFacts
    <3>3. early' = early \/ early' = (early \/ synced < Len(wal))
      BY <1>6 DEF LoadFacts
    <3>4. ~early' => ~early
      BY <3>3, Zenon
    <3>2. \A S, m : S \ stale = m \ stale => S \ stale' = m \ stale'
      BY <2>1
    <3> QED BY <2>1, <3>1, <3>2, <3>4 DEF PowerSafe
  <2>2. CASE /\ early' = (early \/ synced < Len(wal))
             /\ may' = {m \cup rows : m \in may}
             /\ stale' = stale \cup (rows \ Replay(rows, wal))
    <3>1. UNCHANGED <<wal, synced>> /\ facts' = facts \cup rows
      BY <1>6 DEF LoadFacts
    <3>2. CASE early'
      BY <3>2 DEF PowerSafe
    <3>3. CASE ~early'
      <4>0. ~early /\ ~(synced < Len(wal))
        BY <2>2, <3>3, Zenon
      <4>1. ~early /\ synced = Len(wal)
        BY <1>0, <4>0 DEF TypeOK
      <4>2. PICK m \in may : Replay(file, wal) \ stale = m \ stale
        BY <1>0, <4>1, PrefixWhole DEF PowerSafe, TypeOK
      <4>3. facts \ stale = m \ stale
        BY <4>2 DEF IInv, KillSafe
      <4>4. (m \cup rows) \ stale' = facts' \ stale'
        BY <2>2, <3>1, <4>3
      <4>5. Replay(file', wal') \ stale' = facts' \ stale'
        BY <1>0 DEF IInv, KillSafe
      <4>6. m \cup rows \in may'
        BY <2>2
      <4> QED BY <1>0, <3>1, <4>1, <4>4, <4>5, <4>6, PowerSynced
    <3> QED BY <3>2, <3>3
  <2> QED BY <1>6, <2>1, <2>2 DEF LoadFacts
<1>7. CASE Consolidate \/ BeginClose
  <2>1. synced' = Len(wal') /\ may' = {facts'}
    BY <1>7 DEF Consolidate, BeginClose
  <2>2. Replay(file', wal') \ stale' = facts' \ stale'
    BY <1>0 DEF IInv, KillSafe
  <2> QED BY <1>0, <2>1, <2>2, PowerSynced
<1>8. CASE CompactSave
  <2>1. UNCHANGED <<wal, synced, facts, may, stale>> /\ early' = (early \/ synced < Len(wal))
    BY <1>8 DEF CompactSave
  <2>2. CASE early'
    BY <2>2 DEF PowerSafe
  <2>3. CASE ~early'
    <3>0. ~early /\ ~(synced < Len(wal))
      BY <2>1, <2>3, Zenon
    <3>1. ~early /\ synced = Len(wal)
      BY <1>0, <3>0 DEF TypeOK
    <3>2. PICK m \in may : Replay(file, wal) \ stale = m \ stale
      BY <1>0, <3>1, PrefixWhole DEF PowerSafe, TypeOK
    <3>3. Replay(file', wal') \ stale' = m \ stale
      BY <1>0, <2>1, <3>2 DEF IInv, KillSafe
    <3> QED BY <1>0, <2>1, <3>1, <3>3, PowerSynced
  <2> QED BY <2>2, <2>3
<1>9. CASE CompactTruncate
  <2>1. synced' = Len(wal') /\ may' = {facts'}
    BY <1>9 DEF CompactTruncate
  <2>2. Replay(file', wal') \ stale' = facts' \ stale'
    BY <1>0 DEF IInv, KillSafe
  <2> QED BY <1>0, <2>1, <2>2, PowerSynced
<1>10. CASE CompactFail
  BY <1>10, PowerFrame DEF CompactFail, diskVars, history
<1>11. CASE Kill
  BY <1>11, PowerFrame DEF Kill, diskVars, history
<1>12. CASE PowerLoss
  <2>1. PICK n \in synced..Len(wal) : wal' = Prefix(wal, n) /\ synced' = n
    BY <1>12 DEF PowerLoss
  <2>2. synced' = Len(wal')
    BY <1>0, <2>1, PrefixType DEF TypeOK
  <2>3. facts' \in may' /\ Replay(file', wal') = facts'
    BY <1>12 DEF PowerLoss
  <2> QED BY <1>0, <2>2, <2>3, PowerSynced
<1>13. CASE UNCHANGED vars
  BY <1>13, PowerFrame DEF vars
<1> QED BY <1>1, <1>2, <1>3, <1>4, <1>5, <1>6, <1>7, <1>8, <1>9, <1>10,
           <1>11, <1>12, <1>13 DEF Next

(***************************************************************************)
(* A power loss leaves contents the relation had at or after the last      *)
(* cycle boundary, wherever it cuts the log, as long as no save has run    *)
(* ahead of an unsynced log (the durability contract of relation.zig).     *)
(***************************************************************************)
THEOREM PowerLossRecovers == Spec => []PowerSafe
<1>1. Init => PowerSafe
  <2> SUFFICES ASSUME Init PROVE PowerSafe
    OBVIOUS
  <2>1. \A n \in synced..Len(wal) : Prefix(wal, n) = <<>>
    BY DEF Init, Prefix
  <2> QED BY <2>1, ReplayEmpty DEF Init, PowerSafe
<1> QED BY <1>1, InvInit, InvStep, PowerStep, PTL DEF Spec

-----------------------------------------------------------------------------
(***************************************************************************)
(* The storage of a relation implements FactStore.  Two more facts are     *)
(* needed: a handle that dl_close will not compact has nothing to save     *)
(* (Clean), and a power loss always has contents to fall back on (Left).   *)
(***************************************************************************)

(***************************************************************************)
(* An open relation that is not dirty is what its file says.               *)
(***************************************************************************)
Clean == state # "closed" /\ ~dirty => wal = <<>> /\ file = facts /\ ov = {}

Left == may # {}

PInv == IInv /\ PowerSafe /\ Clean /\ Left

(***************************************************************************)
(* The state of FactStore: what a read sees, or would see after an open.   *)
(***************************************************************************)
Seen == IF state = "closed" THEN Replay(file, wal) ELSE Visible

Uncovered == IF early THEN Facts ELSE stale

(***************************************************************************)
(* Initially the relation is closed and empty.                             *)
(***************************************************************************)
LEMMA CleanInit == Init => Clean /\ Left
  BY DEF Init, Clean, Left

(***************************************************************************)
(* Every step keeps the two facts.                                         *)
(***************************************************************************)
LEMMA CleanStep == IInv /\ Clean /\ Left /\ [Next]_vars => Clean' /\ Left'
<1> SUFFICES ASSUME IInv, Clean, Left, [Next]_vars
             PROVE  Clean' /\ Left'
  OBVIOUS
<1> USE DEF Clean, Left
<1>0. TypeOK /\ Handle /\ Contents /\ SavedFile /\ TypeOK'
  BY TypeStep DEF IInv
<1>1. CASE Open
  <2>1. wal = <<>> => Replay(file, wal) = file
    BY <1>0, ReplayEmpty DEF TypeOK
  <2> QED BY <1>1, <2>1 DEF Open, diskVars
<1>2. CASE Lookup \/ Enumerate
  BY <1>2, <1>0 DEF Lookup, Enumerate, diskVars, history, Handle
<1>3. ASSUME NEW f \in Facts, AddFact(f) \/ DeleteFact(f)
      PROVE  Clean' /\ Left'
  BY <1>3 DEF AddFact, DeleteFact, Acknowledge
<1>4. ASSUME NEW rows \in SUBSET Facts, LoadFacts(rows)
      PROVE  Clean' /\ Left'
  <2>1. dirty'
    BY <1>4 DEF LoadFacts
  <2>2. may' = {m \cup rows : m \in may} \/ may' = may \cup {facts'}
    BY <1>4 DEF LoadFacts
  <2> QED BY <2>1, <2>2
<1>5. CASE Consolidate
  <2>1. UNCHANGED <<state, wal, file, facts>> /\ ov' = {} /\ may' = {facts} /\ (~dirty' => ~dirty)
    BY <1>5, Zenon DEF Consolidate
  <2> QED BY <2>1
<1>6. CASE BeginClose
  <2>1. CASE dirty
    BY <1>6, <2>1 DEF BeginClose
  <2>2. CASE ~dirty
    BY <1>6, <2>2 DEF BeginClose
  <2> QED BY <2>1, <2>2
<1>7. CASE CompactSave
  <2>1. UNCHANGED <<state, dirty, wal, facts, may>> /\ ov' = {} /\ state = "owned" /\ file' = base \cup ov
    BY <1>0, <1>7 DEF CompactSave, Handle
  <2> QED BY <1>0, <2>1 DEF Contents
<1>8. CASE CompactTruncate
  <2>1. wal' = <<>> /\ UNCHANGED <<file, facts>> /\ may' = {facts} /\ ov' = {} /\ file = facts
    BY <1>0, <1>8 DEF CompactTruncate, EndCompact, SavedFile
  <2> QED BY <2>1
<1>9. CASE CompactFail
  <2>1. state' = "closed" \/ UNCHANGED <<state, dirty>>
    BY <1>9 DEF CompactFail, EndCompact
  <2>2. UNCHANGED <<wal, file, facts, may>> /\ ov' = {}
    BY <1>9 DEF CompactFail, EndCompact, diskVars, history
  <2> QED BY <2>1, <2>2
<1>10. CASE Kill \/ PowerLoss
  BY <1>10 DEF Kill, PowerLoss, Crashed, diskVars, history
<1>11. CASE UNCHANGED vars
  BY <1>11 DEF vars
<1> QED BY <1>1, <1>2, <1>3, <1>4, <1>5, <1>6, <1>7, <1>8, <1>9, <1>10, <1>11 DEF Next

(***************************************************************************)
(* What is seen through an open handle is what was acknowledged.           *)
(***************************************************************************)
LEMMA SeenIsCurrent == IInv /\ state # "closed" => Seen = facts
  BY DEF IInv, TypeOK, Handle, Contents, Seen, Visible

(***************************************************************************)
(* What would be seen after a stop agrees with it outside the exceptions.  *)
(***************************************************************************)
LEMMA SeenAfterStop ==
    IInv => /\ Seen \in SUBSET Facts
            /\ facts \in SUBSET Facts
            /\ Replay(file, wal) \ Uncovered = facts \ Uncovered
<1> SUFFICES ASSUME IInv
             PROVE  /\ Seen \in SUBSET Facts
                    /\ facts \in SUBSET Facts
                    /\ Replay(file, wal) \ Uncovered = facts \ Uncovered
  OBVIOUS
<1>1. TypeOK /\ Replay(file, wal) \ stale = facts \ stale /\ Replay(file, wal) \in SUBSET Facts
  BY ReplayType DEF IInv, KillSafe
<1>2. Seen \in SUBSET Facts /\ facts \in SUBSET Facts
  BY <1>1 DEF Seen, Visible, TypeOK
<1>3. CASE early
  BY <1>1, <1>2, <1>3 DEF Uncovered
<1>4. CASE ~early
  BY <1>1, <1>2, <1>4 DEF Uncovered
<1> QED BY <1>1, <1>2, <1>3, <1>4

(***************************************************************************)
(* A step of the storage is a step of FactStore, or changes none of its    *)
(* variables.                                                              *)
(***************************************************************************)
LEMMA StepRefines ==
    ASSUME PInv, PInv', [Next]_vars
    PROVE  [Promise!Next]_(Promise!vars)
<1>0. /\ IInv /\ IInv' /\ TypeOK /\ TypeOK' /\ Clean /\ Left /\ PowerSafe
      /\ Handle /\ Contents /\ SavedFile
  BY DEF PInv, IInv
<1>a. /\ state # "closed" => Seen = facts
      /\ state' # "closed" => Seen' = facts'
      /\ state = "closed" => Seen = Replay(file, wal)
      /\ state' = "closed" => Seen' = Replay(file', wal')
  <2>1. (IInv /\ state # "closed" => Seen = facts)'
    BY SeenIsCurrent, PTL
  <2> QED BY <1>0, <2>1, SeenIsCurrent DEF Seen
<1>b. /\ Seen \in SUBSET Facts /\ Seen' \in SUBSET Facts
      /\ facts \in SUBSET Facts /\ facts' \in SUBSET Facts
      /\ Replay(file, wal) \ Uncovered = facts \ Uncovered
  <2>1. (IInv => Seen \in SUBSET Facts /\ facts \in SUBSET Facts)'
    BY SeenAfterStop, PTL
  <2> QED BY <1>0, <2>1, SeenAfterStop
<1>c. /\ (UNCHANGED <<stale, early>> => Uncovered' = Uncovered)
      /\ stale \in SUBSET Facts
  BY <1>0 DEF Uncovered, TypeOK
<1> DEFINE Stutter == UNCHANGED <<Seen, may, Uncovered>>
<1>s. ASSUME Stutter PROVE UNCHANGED Promise!vars
  BY <1>s DEF Promise!vars, Seen, Uncovered
<1>1. CASE Open
  <2>1. state = "closed" /\ state' # "closed" /\ facts' = Replay(file, wal)
        /\ UNCHANGED <<may, stale, early>>
    BY <1>1 DEF Open
  <2> QED BY <1>a, <1>c, <1>s, <2>1
<1>2. CASE Lookup \/ Enumerate
  <2>1. state # "closed" /\ state' # "closed" /\ UNCHANGED history
    BY <1>2 DEF Lookup, Enumerate
  <2> QED BY <1>a, <1>c, <1>s, <2>1 DEF history
<1>3. ASSUME NEW f \in Facts, AddFact(f)
      PROVE  Promise!Next
  <2>1. /\ state # "closed" /\ state' # "closed" /\ f \notin Visible
        /\ facts' = facts \cup {f} /\ may' = may \cup {facts'} /\ UNCHANGED <<stale, early>>
    BY <1>3 DEF AddFact, Acknowledge
  <2>2. f \notin Seen
    BY <2>1 DEF Seen
  <2>3. Promise!AddFact(f)
    BY <1>a, <1>c, <2>1, <2>2 DEF Promise!AddFact, Seen, Uncovered
  <2> QED BY <2>3 DEF Promise!Next
<1>4. ASSUME NEW f \in Facts, DeleteFact(f)
      PROVE  Promise!Next
  <2>1. /\ state # "closed" /\ state' # "closed" /\ f \in Visible
        /\ facts' = facts \ {f} /\ may' = may \cup {facts'} /\ UNCHANGED <<stale, early>>
    BY <1>4 DEF DeleteFact, Acknowledge
  <2>2. f \in Seen
    BY <2>1 DEF Seen
  <2>3. Promise!DeleteFact(f)
    BY <1>a, <1>c, <2>1, <2>2 DEF Promise!DeleteFact, Seen, Uncovered
  <2> QED BY <2>3 DEF Promise!Next
<1>5. ASSUME NEW rows \in SUBSET Facts, LoadFacts(rows)
      PROVE  Promise!Next
  <2>1. /\ state # "closed" /\ state' # "closed" /\ facts' = facts \cup rows
        /\ may' \in {{m \cup rows : m \in may}, may \cup {facts'}}
    BY <1>5 DEF LoadFacts
  <2>2. ~early' => ~early
    <3>1. early' = early \/ early' = (early \/ synced < Len(wal))
      BY <1>5 DEF LoadFacts
    <3> QED BY <3>1, Zenon
  <2>3. \E S \in SUBSET rows : stale' = stale \cup S
    BY <1>5 DEF LoadFacts
  <2>4. Uncovered' \in {Uncovered \cup S : S \in SUBSET rows} \cup {Facts}
    <3>1. CASE early'
      BY <3>1 DEF Uncovered
    <3>2. CASE ~early'
      BY <2>2, <2>3, <3>2 DEF Uncovered
    <3> QED BY <3>1, <3>2
  <2>5. Promise!LoadFacts(rows)
    BY <1>a, <2>1, <2>4 DEF Promise!LoadFacts, Seen, Uncovered
  <2> QED BY <2>5 DEF Promise!Next
<1> DEFINE Boundary == may' = {Seen} /\ Uncovered' \in SUBSET Uncovered /\ Seen' = Seen
<1>t. ASSUME Boundary PROVE Promise!Next
  BY <1>t DEF Promise!Next, Promise!CycleBoundary, Seen, Uncovered
<1>u. ~early' /\ stale' \in SUBSET stale => Uncovered' \in SUBSET Uncovered
  BY <1>c DEF Uncovered
<1>6. CASE Consolidate
  <2>1. state # "closed" /\ UNCHANGED <<state, facts, stale>> /\ may' = {facts} /\ early' = FALSE
    BY <1>6 DEF Consolidate
  <2> QED BY <1>a, <1>t, <1>u, <2>1
<1>7. CASE BeginClose
  <2>1. state # "closed" /\ UNCHANGED <<facts, stale, file, wal>> /\ may' = {facts} /\ early' = FALSE
    BY <1>7 DEF BeginClose
  <2>2. CASE state' # "closed"
    BY <1>a, <1>t, <1>u, <2>1, <2>2
  <2>3. CASE state' = "closed"
    <3>1. wal = <<>> /\ file = facts
      BY <1>7, <2>1, <2>3, <1>0 DEF BeginClose, Clean
    <3>2. Replay(file, wal) = facts
      BY <1>b, <3>1, ReplayEmpty
    <3> QED BY <1>a, <1>t, <1>u, <2>1, <2>3, <3>2
  <2> QED BY <2>2, <2>3
<1>8. CASE CompactSave
  <2>1. state # "closed" /\ UNCHANGED <<state, facts, may, stale>>
        /\ early' = (early \/ synced < Len(wal))
    BY <1>0, <1>8 DEF CompactSave, Handle
  <2>2. Uncovered' = Facts \/ Uncovered' = Uncovered
    <3>1. CASE early'
      BY <3>1 DEF Uncovered
    <3>2. CASE ~early'
      <4>1. ~early
        BY <2>1, <3>2, Zenon
      <4> QED BY <2>1, <3>2, <4>1 DEF Uncovered
    <3> QED BY <3>1, <3>2
  <2>3. CASE Uncovered' = Uncovered
    BY <1>a, <1>s, <2>1, <2>3
  <2>4. CASE Uncovered' = Facts
    <3>1. Promise!RunAhead
      BY <1>a, <2>1, <2>4 DEF Promise!RunAhead, Seen, Uncovered
    <3> QED BY <3>1 DEF Promise!Next
  <2> QED BY <2>2, <2>3, <2>4
<1>9. CASE CompactTruncate
  <2>1. /\ state # "closed" /\ UNCHANGED <<facts, file>> /\ wal' = <<>> /\ file = facts
        /\ may' = {facts} /\ early' = FALSE /\ stale' = {}
    BY <1>0, <1>9 DEF CompactTruncate, Handle, SavedFile
  <2>2. Replay(file', wal') = facts
    BY <1>b, <2>1, ReplayEmpty
  <2>3. Seen' = facts
    BY <1>a, <2>1, <2>2
  <2> QED BY <1>a, <1>t, <1>u, <2>1, <2>3
<1> DEFINE Stop == Seen' \ Uncovered = Seen \ Uncovered /\ UNCHANGED <<may, Uncovered>>
<1>v. ASSUME Stop PROVE Promise!Next
  BY <1>v, <1>b DEF Promise!Next, Promise!Die, Promise!Agree, Seen, Uncovered
<1>10. CASE CompactFail \/ Kill
  <2>1. state # "closed" /\ UNCHANGED <<file, wal, facts, may, stale, early>>
    BY <1>0, <1>10 DEF CompactFail, Kill, diskVars, history, Handle
  <2>2. Seen' = facts \/ Seen' = Replay(file, wal)
    BY <1>a, <2>1
  <2> QED BY <1>a, <1>b, <1>c, <1>v, <2>1, <2>2
<1>11. CASE PowerLoss
  <2>1. PICK n \in synced..Len(wal) : wal' = Prefix(wal, n) /\ facts' = Replay(file, wal')
    BY <1>11 DEF PowerLoss
  <2>2. state' = "closed" /\ UNCHANGED file /\ may' = {facts'} /\ stale' = {} /\ early' = FALSE
    BY <1>11 DEF PowerLoss, Crashed
  <2>3. Seen' = facts' /\ Uncovered' = {}
    BY <1>a, <2>1, <2>2 DEF Uncovered
  <2>4. \E m \in may : Seen' \ Uncovered = m \ Uncovered
    <3>1. CASE early
      <4>1. PICK m \in may : TRUE
        BY <1>0 DEF Left
      <4>2. m \in SUBSET Facts
        BY <1>0 DEF TypeOK
      <4> QED BY <1>b, <3>1, <4>1, <4>2 DEF Uncovered
    <3>2. CASE ~early
      BY <1>0, <2>1, <2>3, <3>2 DEF PowerSafe, Uncovered
    <3> QED BY <3>1, <3>2
  <2>5. Promise!LosePower
    BY <1>b, <2>2, <2>3, <2>4 DEF Promise!LosePower, Promise!Agree, Seen, Uncovered
  <2> QED BY <2>5 DEF Promise!Next
<1>12. CASE UNCHANGED vars
  BY <1>12 DEF vars, Promise!vars, Visible
<1> QED BY <1>1, <1>2, <1>3, <1>4, <1>5, <1>6, <1>7, <1>8, <1>9, <1>10, <1>11, <1>12 DEF Next

(***************************************************************************)
(* Every behaviour of the storage, its compactions, failing saves, kills   *)
(* and power losses included, is one of FactStore (the contract of         *)
(* dl_add_fact, dl_delete_fact, dl_load_facts and dl_consolidate).         *)
(***************************************************************************)
THEOREM StorageKeepsPromise == Spec => KeepsPromise
<1>1. Init => Promise!Init
  <2> SUFFICES ASSUME Init PROVE Promise!Init
    OBVIOUS
  <2>1. Replay({}, <<>>) = {}
    BY ReplayEmpty
  <2> QED BY <2>1 DEF Init, Promise!Init
<1>2. Spec => []PInv
  <2>1. Init => Clean /\ Left
    BY CleanInit
  <2>2. Spec => [](Clean /\ Left)
    BY <2>1, CleanStep, StorageInvariant, PTL DEF Spec
  <2> QED BY <2>2, StorageInvariant, PowerLossRecovers, PTL DEF PInv
<1>3. PInv /\ PInv' /\ [Next]_vars => [Promise!Next]_(Promise!vars)
  BY StepRefines
<1> QED BY <1>1, <1>2, <1>3, PTL DEF Spec, KeepsPromise, Promise!Spec

=============================================================================
