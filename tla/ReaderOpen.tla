---------------------------- MODULE ReaderOpen ----------------------------
(***************************************************************************)
(* Read-only handles beside a live writer: what dl_open_ro and the later   *)
(* reads of a handle see while the writer appends, commits, compacts,      *)
(* closes, is killed and re-opens.                                         *)
(*                                                                         *)
(* The mutation window is the one DirLock models: a compaction (dafsa_save *)
(* and WAL truncation) and the truncation of txn.wal run only while no     *)
(* reader is inside its open; appends and commits take no lock.            *)
(*                                                                         *)
(* The reader's open goes relation by relation: the size of the WAL        *)
(* decides between an eager load (DAFSA file, then WAL replay) and a       *)
(* deferred one; at the end the committed part of txn.wal is replayed and  *)
(* the window released.  A deferred relation is read from its file at the  *)
(* first touch, without the window.                                        *)
(***************************************************************************)
EXTENDS Wal

CONSTANTS Rels,      \* the relations
          RelOf,     \* the relation of each fact
          Readers,   \* the read-only handles
          Txns,      \* the operations transactions may consist of
          MaxWal,    \* bound: records in a per-relation WAL
          MaxTxnWal  \* bound: records in txn.wal when a commit starts

ASSUME RelOfAssumption == RelOf \in [Facts -> Rels]

ASSUME TxnsAssumption == Txns \subseteq Seq(FactRec)

ASSUME BoundsAssumption == MaxWal \in Nat /\ MaxTxnWal \in Nat

VARIABLES
    pc,     \* where the writer is; "down" when there is none
    back,   \* the pc to return to after the window
    window, \* the writer holds the mutation window
    mem,    \* the writer's in-memory contents
    dirty,  \* relations with r.dirty set
    todo,   \* relations to compact in this window
    saved,  \* relations saved whose WAL is not yet truncated
    txn,    \* operations of a commit still to be applied
    file,   \* contents of the DAFSA files
    wal,    \* the per-relation WALs
    twal,   \* txn.wal
    rpc,    \* "none", "open" (holding the window shared), "live"
    rst,    \* the read state of each relation of a reader
    rmem,   \* contents of the relations a reader has loaded
    facts,  \* history: the committed contents
    since,  \* history: committed contents since a reader's open began, and
            \* for a live reader also the writer's contents inside a commit
    direct  \* history: facts written directly while a reader was opening,
            \* and not by a transaction after that

writer == <<pc, back, window, mem, dirty, todo, saved, txn>>
disk == <<file, wal, twal>>
reader == <<rpc, rst, rmem>>
vars == <<pc, back, window, mem, dirty, todo, saved, txn, file, wal, twal,
          rpc, rst, rmem, facts, since, direct>>
history == <<facts, since, direct>>

TypeOK ==
    /\ pc \in {"down", "idle", "apply", "wait", "sweep"}
    /\ back \in {"replay", "idle", "apply", "close"}
    /\ window \in BOOLEAN
    /\ mem \subseteq Facts
    /\ dirty \subseteq Rels
    /\ todo \subseteq Rels
    /\ saved \subseteq Rels
    /\ txn \in Seq(FactRec)
    /\ file \subseteq Facts
    /\ wal \in [Rels -> Seq(FactRec)]
    /\ twal \in Seq(TxnRec)
    /\ rpc \in [Readers -> {"none", "open", "live"}]
    /\ rst \in [Readers -> [Rels -> {"unopened", "sized", "based", "deferred", "loaded"}]]
    /\ rmem \in [Readers -> SUBSET Facts]
    /\ facts \subseteq Facts
    /\ since \in [Readers -> SUBSET SUBSET Facts]
    /\ direct \in [Readers -> SUBSET Facts]

Init ==
    /\ pc = "down"
    /\ back = "idle"
    /\ window = FALSE
    /\ mem = {}
    /\ dirty = {}
    /\ todo = {}
    /\ saved = {}
    /\ txn = <<>>
    /\ file = {}
    /\ wal = [r \in Rels |-> <<>>]
    /\ twal = <<>>
    /\ rpc = [p \in Readers |-> "none"]
    /\ rst = [p \in Readers |-> [r \in Rels |-> "unopened"]]
    /\ rmem = [p \in Readers |-> {}]
    /\ facts = {}
    /\ since = [p \in Readers |-> {}]
    /\ direct = [p \in Readers |-> {}]

FactsOf(r) == {f \in Facts : RelOf[f] = r}

(***************************************************************************)
(* New committed contents, and their entry in the readers' histories.      *)
(***************************************************************************)
CommitFacts(contents) ==
    /\ facts' = contents
    /\ since' = [p \in Readers |->
                    IF rpc[p] = "none" THEN {} ELSE since[p] \cup {contents}]

-----------------------------------------------------------------------------
(***************************************************************************)
(* The writer.                                                             *)
(***************************************************************************)

(***************************************************************************)
(* dl_open: the per-relation WALs, then txn.wal, are replayed in memory;   *)
(* the relations txn.wal touches are compacted in a mutation window.       *)
(***************************************************************************)
Open ==
    /\ pc = "down"
    /\ LET walled == {f \in Facts : f \in Replay(file, wal[RelOf[f]])}
       IN  mem' = Replay(walled, twal)
    /\ dirty' = {r \in Rels : wal[r] # <<>> \/ \E f \in FactsOf(r) : Touches(twal, f)}
    /\ todo' = {r \in Rels : \E f \in FactsOf(r) : Touches(twal, f)}
    /\ pc' = "wait"
    /\ back' = "replay"
    /\ UNCHANGED <<window, saved, txn, disk, reader, history>>

(***************************************************************************)
(* The tail of addFactApply: an add may find the compaction threshold of   *)
(* its relation reached; the compaction waits for the mutation window.     *)
(***************************************************************************)
MaybeCompact(rec, return) ==
    \/ pc' = return /\ UNCHANGED <<back, todo>>
    \/ /\ rec.op = "add"
       /\ pc' = "wait"
       /\ back' = return
       /\ todo' = {RelOf[rec.f]}

(***************************************************************************)
(* dl_add_fact and dl_delete_fact.  Workload: no direct write of a fact    *)
(* that a transaction wrote since the writer's open, which the replay of   *)
(* txn.wal would undo (RecoveryExact in TxnStore).                         *)
(***************************************************************************)
DirectWrite(rec) ==
    /\ pc = "idle"
    /\ ~Touches(twal, rec.f)
    /\ rec.op = "add" <=> rec.f \notin mem
    /\ Len(wal[RelOf[rec.f]]) < MaxWal
    /\ wal' = [wal EXCEPT ![RelOf[rec.f]] = Append(@, rec)]
    /\ mem' = IF rec.op = "add" THEN mem \cup {rec.f} ELSE mem \ {rec.f}
    /\ dirty' = dirty \cup {RelOf[rec.f]}
    /\ MaybeCompact(rec, "idle")
    /\ CommitFacts(mem')
    /\ direct' = [p \in Readers |->
                     IF rpc[p] = "open" THEN direct[p] \cup {rec.f} ELSE direct[p]]
    /\ UNCHANGED <<window, saved, txn, file, twal, reader>>

(***************************************************************************)
(* dl_txn_commit up to the fsync of the COMMIT marker.  A reader replays   *)
(* only what a marker covers, so the records and their marker appear at    *)
(* once.                                                                   *)
(***************************************************************************)
Commit(ops) ==
    /\ pc = "idle"
    /\ ops # <<>>
    /\ Len(twal) < MaxTxnWal
    /\ twal' = twal \o ops \o <<CommitRec>>
    /\ txn' = ops
    /\ pc' = "apply"
    /\ CommitFacts(Replay(facts, ops))
    /\ direct' = [p \in Readers |->
                     IF rpc[p] = "open" THEN {f \in direct[p] : ~Touches(ops, f)}
                                        ELSE direct[p]]
    /\ UNCHANGED <<back, window, mem, dirty, todo, saved, file, wal, reader>>

(***************************************************************************)
(* The next operation applied in memory.                                   *)
(***************************************************************************)
Apply ==
    /\ pc = "apply"
    /\ txn # <<>>
    /\ LET rec == Head(txn)
       IN  /\ mem' = IF rec.op = "add" THEN mem \cup {rec.f} ELSE mem \ {rec.f}
           /\ dirty' = dirty \cup {RelOf[rec.f]}
           /\ MaybeCompact(rec, "apply")
    /\ txn' = Tail(txn)
    /\ since' = [p \in Readers |->
                    IF rpc[p] = "live" THEN since[p] \cup {mem'} ELSE since[p]]
    /\ UNCHANGED <<window, saved, disk, reader, facts, direct>>

EndApply ==
    /\ pc = "apply"
    /\ txn = <<>>
    /\ pc' = "idle"
    /\ UNCHANGED <<back, window, mem, dirty, todo, saved, txn, disk, reader, history>>

(***************************************************************************)
(* dl_close: the save sweep compacts the dirty relations in one window.    *)
(***************************************************************************)
Close ==
    /\ pc = "idle"
    /\ todo' = dirty
    /\ pc' = "wait"
    /\ back' = "close"
    /\ UNCHANGED <<window, mem, dirty, saved, txn, disk, reader, history>>

(***************************************************************************)
(* A mutation window that does not wait for opening readers.               *)
(***************************************************************************)
FaultyCompactBegin ==
    /\ pc = "wait"
    /\ window' = TRUE
    /\ pc' = "sweep"
    /\ UNCHANGED <<back, mem, dirty, todo, saved, txn, disk, reader, history>>

(***************************************************************************)
(* mutWindowBegin waits for the readers that are inside their open.        *)
(***************************************************************************)
CompactBegin ==
    /\ pc = "wait"
    /\ \A p \in Readers : rpc[p] # "open"
    /\ window' = TRUE
    /\ pc' = "sweep"
    /\ UNCHANGED <<back, mem, dirty, todo, saved, txn, disk, reader, history>>

(***************************************************************************)
(* rel_compact of one relation: dafsa_save, then the truncation.           *)
(***************************************************************************)
CompactSave ==
    /\ pc = "sweep"
    /\ saved = {}
    /\ \E r \in todo :
          /\ file' = (file \ FactsOf(r)) \cup (mem \cap FactsOf(r))
          /\ saved' = {r}
          /\ todo' = todo \ {r}
    /\ UNCHANGED <<pc, back, window, mem, dirty, txn, wal, twal, reader, history>>

CompactTruncate ==
    /\ saved # {}
    /\ wal' = [r \in Rels |-> IF r \in saved THEN <<>> ELSE wal[r]]
    /\ saved' = {}
    /\ UNCHANGED <<pc, back, window, mem, dirty, todo, txn, file, twal, reader, history>>

(***************************************************************************)
(* The end of the window: of the open (txn.wal is emptied), of a           *)
(* compaction, or of dl_close.                                             *)
(***************************************************************************)
CompactEnd ==
    /\ pc = "sweep"
    /\ todo = {}
    /\ saved = {}
    /\ window' = FALSE
    /\ twal' = IF back = "replay" THEN <<>> ELSE twal
    /\ pc' = CASE back = "close"  -> "down"
               [] back = "replay" -> "idle"
               [] OTHER           -> back
    /\ IF back = "close"
       THEN mem' = {} /\ dirty' = {}
       ELSE UNCHANGED <<mem, dirty>>
    /\ back' = "idle"
    /\ UNCHANGED <<todo, saved, txn, file, wal, reader, history>>

(***************************************************************************)
(* The writer is killed: its locks go, its files stay.                     *)
(***************************************************************************)
Kill ==
    /\ pc # "down"
    /\ pc' = "down"
    /\ back' = "idle"
    /\ window' = FALSE
    /\ mem' = {}
    /\ dirty' = {}
    /\ todo' = {}
    /\ saved' = {}
    /\ txn' = <<>>
    /\ UNCHANGED <<disk, reader, history>>

-----------------------------------------------------------------------------
(***************************************************************************)
(* The readers.                                                            *)
(***************************************************************************)

RoOpen(p) ==
    /\ rpc[p] = "none"
    /\ ~window
    /\ rpc' = [rpc EXCEPT ![p] = "open"]
    /\ since' = [since EXCEPT ![p] = {facts}]
    /\ UNCHANGED <<writer, disk, rst, rmem, facts, direct>>

(***************************************************************************)
(* No relation of p is between its WAL open and the end of its replay.     *)
(***************************************************************************)
Between(p) == \A r \in Rels : rst[p][r] \notin {"sized", "based"}

(***************************************************************************)
(* rel_open_readonly, one relation after the other: the WAL is opened and  *)
(* its size decides between the eager and the deferred load; eagerly, the  *)
(* DAFSA is loaded, then the WAL replayed over it.                         *)
(***************************************************************************)
RoWalOpen(p, r) ==
    /\ rpc[p] = "open"
    /\ Between(p)
    /\ rst[p][r] = "unopened"
    /\ rst' = [rst EXCEPT ![p][r] = IF wal[r] # <<>> THEN "sized" ELSE "deferred"]
    /\ UNCHANGED <<writer, disk, rpc, rmem, history>>

RoLoad(p, r) ==
    /\ rst[p][r] = "sized"
    /\ rmem' = [rmem EXCEPT ![p] = @ \cup (file \cap FactsOf(r))]
    /\ rst' = [rst EXCEPT ![p][r] = "based"]
    /\ UNCHANGED <<writer, disk, rpc, history>>

RoReplay(p, r) ==
    /\ rst[p][r] = "based"
    /\ rmem' = [rmem EXCEPT ![p] = Replay(@, wal[r])]
    /\ rst' = [rst EXCEPT ![p][r] = "loaded"]
    /\ UNCHANGED <<writer, disk, rpc, history>>

(***************************************************************************)
(* Relations txnReplayCb makes the reader own.                             *)
(***************************************************************************)
RoTouched == {r \in Rels : \E f \in FactsOf(r) : Touches(twal, f)}

(***************************************************************************)
(* A reader that does not replay txn.wal.                                  *)
(***************************************************************************)
FaultyRoOpened(p) ==
    /\ rpc[p] = "open"
    /\ \A r \in Rels : rst[p][r] \in {"deferred", "loaded"}
    /\ rpc' = [rpc EXCEPT ![p] = "live"]
    /\ UNCHANGED <<writer, disk, rst, rmem, history>>

(***************************************************************************)
(* The end of dl_open_ro: txn.wal is replayed over the relations, loading  *)
(* the deferred ones it touches, and the window is released.               *)
(***************************************************************************)
RoOpened(p) ==
    /\ rpc[p] = "open"
    /\ \A r \in Rels : rst[p][r] \in {"deferred", "loaded"}
    /\ LET loading == {r \in RoTouched : rst[p][r] = "deferred"}
           loaded  == {f \in file : RelOf[f] \in loading}
       IN  rmem' = [rmem EXCEPT ![p] = Replay(@ \cup loaded, twal)]
    /\ rst' = [rst EXCEPT ![p] = [r \in Rels |-> IF r \in RoTouched THEN "loaded" ELSE rst[p][r]]]
    /\ rpc' = [rpc EXCEPT ![p] = "live"]
    /\ UNCHANGED <<writer, disk, history>>

(***************************************************************************)
(* The first touch of a deferred relation: relEnsureReadable views or      *)
(* loads the file as it is now.  A later read that a view cannot serve     *)
(* loads the file once more; that second reading is no step here.          *)
(***************************************************************************)
RoTouch(p, r) ==
    /\ rpc[p] = "live"
    /\ rst[p][r] = "deferred"
    /\ rmem' = [rmem EXCEPT ![p] = @ \cup (file \cap FactsOf(r))]
    /\ rst' = [rst EXCEPT ![p][r] = "loaded"]
    /\ UNCHANGED <<writer, disk, rpc, history>>

RoClose(p) ==
    /\ rpc[p] = "live"
    /\ rpc' = [rpc EXCEPT ![p] = "none"]
    /\ rst' = [rst EXCEPT ![p] = [r \in Rels |-> "unopened"]]
    /\ rmem' = [rmem EXCEPT ![p] = {}]
    /\ since' = [since EXCEPT ![p] = {}]
    /\ direct' = [direct EXCEPT ![p] = {}]
    /\ UNCHANGED <<writer, disk, facts>>

Next ==
    \/ Open
    \/ \E rec \in FactRec : DirectWrite(rec)
    \/ \E ops \in Txns : Commit(ops)
    \/ Apply \/ EndApply
    \/ Close
    \/ CompactBegin \/ CompactSave \/ CompactTruncate \/ CompactEnd
    \/ Kill
    \/ \E p \in Readers :
          \/ RoOpen(p) \/ RoOpened(p) \/ RoClose(p)
          \/ \E r \in Rels : RoWalOpen(p, r) \/ RoLoad(p, r) \/ RoReplay(p, r) \/ RoTouch(p, r)

Spec == Init /\ [][Next]_vars

-----------------------------------------------------------------------------
(***************************************************************************)
(* Properties.                                                             *)
(***************************************************************************)

(***************************************************************************)
(* Every relation a live reader has loaded, eagerly or at first touch, has *)
(* contents the relation really had since the reader's open began: no      *)
(* acknowledged write is missing, no half-truncated WAL is replayed.  Two  *)
(* things are not promised.  A relation read at first touch may show the   *)
(* middle of a transaction, when a compaction saved the file while the     *)
(* commit was being applied.  And facts written directly while the reader  *)
(* was opening are as of the moment s its open came to the relation, the   *)
(* others as of the end t of the open, when txn.wal was replayed.          *)
(***************************************************************************)
ReadsRealState ==
    \A p \in Readers, r \in Rels :
        rpc[p] = "live" /\ rst[p][r] = "loaded" =>
            \E s, t \in since[p] : \A f \in FactsOf(r) :
                f \in rmem[p] <=> f \in (IF f \in direct[p] THEN s ELSE t)

(***************************************************************************)
(* What a reader would see if it touched all its deferred relations now.   *)
(***************************************************************************)
RoContents(p) == rmem[p] \cup {f \in file : rst[p][RelOf[f]] = "deferred"}

(***************************************************************************)
(* An open that returns has seen each transaction entirely or not at all:  *)
(* over all relations together its contents are ones the database had      *)
(* while it was opening, whatever commits and applies ran meanwhile.  Only *)
(* facts written directly during the open, and not by a transaction after  *)
(* that, may come from another moment: the relations are opened one after  *)
(* the other.                                                              *)
(***************************************************************************)
OpenIsAtomic ==
    [][\A p \in Readers :
          rpc[p] = "open" /\ rpc'[p] = "live" =>
              \E s \in since[p] : RoContents(p)' \ direct[p] = s \ direct[p]]_vars

=============================================================================
