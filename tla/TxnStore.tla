------------------------------- MODULE TxnStore -----------------------------
(***************************************************************************)
(* A database directory with several relations and the transaction WAL:    *)
(* direct writes, transactions (begin, buffer, rollback, commit), the      *)
(* throttled compaction, the cycle boundary, dl_close, unclean stops, and  *)
(* the open that replays the per-relation WALs first and the transaction   *)
(* WAL second.                                                             *)
(*                                                                         *)
(* A relation is its contents here: overlay and lazy read states are the   *)
(* subject of RelationStore.  rel_compact keeps its two halves, because the     *)
(* engine compacts several relations in a row and may stop between them.   *)
(***************************************************************************)
EXTENDS TxnOps

CONSTANTS Rels,      \* the relations
          NoRel,     \* no relation is being compacted
          RelOf,     \* the relation of each fact
          MaxWal,    \* bound: records in a per-relation WAL
          MaxTxn,    \* bound: operations of a transaction
          MaxTxnWal, \* bound: records in txn.wal when a commit starts
          Features   \* the optional behaviours of the workload

ASSUME RelOfAssumption == RelOf \in [Facts -> Rels] /\ NoRel \notin Rels

ASSUME BoundsAssumption == MaxWal \in Nat /\ MaxTxn \in Nat /\ MaxTxnWal \in Nat

(***************************************************************************)
(* "direct": adds and deletes outside transactions; "compact": throttled   *)
(* compactions; "iofail": failing appends, fsyncs and compactions.         *)
(***************************************************************************)
ASSUME FeaturesAssumption == Features \subseteq {"direct", "compact", "iofail"}

VARIABLES
    pc,      \* where the writer is; "down" when no handle is open
    mem,     \* the in-memory contents of all relations
    dirty,   \* the relations with r.dirty set
    txn,     \* the buffered operations of the open transaction
    swap,    \* the revision a dl_cas_revision under way has still to write, or 0
    pos,     \* the next buffered operation to log or to apply
    todo,    \* the relations still to compact in the current sweep
    cur,     \* the relation being compacted
    back,    \* the pc to return to after the compaction
    failed,  \* compact_failed of replayTxnWal
    file,    \* the contents of all DAFSA files
    wal,     \* the per-relation WAL files
    synced,  \* how many records of each are fsync'd
    twal,    \* the records of txn.wal
    tsynced, \* how many of them are fsync'd
    facts,   \* history: contents according to the acknowledged operations
    byTxn,   \* history: facts last written by an acknowledged commit
    stale    \* history: facts txn.wal and the acknowledgements disagree on

disk == <<file, wal, synced, twal, tsynced>>
history == <<facts, byTxn, stale>>
vars == <<pc, mem, dirty, txn, swap, pos, todo, cur, back, failed, file, wal, synced,
          twal, tsynced, facts, byTxn, stale>>

TypeOK ==
    /\ pc \in {"down", "replay", "idle", "cas", "txn", "append", "marker", "apply",
               "compact", "saved", "close"}
    /\ mem \subseteq Facts
    /\ dirty \subseteq Rels
    /\ txn \in Seq(TxnOp)
    /\ pos \in 1..(Len(Records(txn)) + 1)
    /\ swap \in Revisions /\ (swap # 0 <=> pc = "cas")
    /\ todo \subseteq Rels
    /\ cur \in Rels \cup {NoRel}
    /\ back \in {"idle", "apply", "replay", "close"}
    /\ failed \in BOOLEAN
    /\ file \subseteq Facts
    /\ wal \in [Rels -> Seq(FactRec)]
    /\ synced \in [Rels -> Nat]
    /\ \A r \in Rels : synced[r] <= Len(wal[r])
    /\ twal \in Seq(TxnRec)
    /\ tsynced \in 0..Len(twal)
    /\ facts \subseteq Facts
    /\ byTxn \subseteq Facts
    /\ stale \subseteq Facts

Init ==
    /\ pc = "down"
    /\ mem = {}
    /\ dirty = {}
    /\ txn = <<>>
    /\ swap = 0
    /\ pos = 1
    /\ todo = {}
    /\ cur = NoRel
    /\ back = "idle"
    /\ failed = FALSE
    /\ file = {}
    /\ wal = [r \in Rels |-> <<>>]
    /\ synced = [r \in Rels |-> 0]
    /\ twal = <<>>
    /\ tsynced = 0
    /\ facts = {}
    /\ byTxn = {}
    /\ stale = {}

-----------------------------------------------------------------------------
(***************************************************************************)
(* Recovery.                                                               *)
(***************************************************************************)

FactsOf(r) == {f \in Facts : RelOf[f] = r}

(***************************************************************************)
(* txnwalCommittedEnd: the end of the last COMMIT marker, 0 if none.       *)
(***************************************************************************)
CommittedEnd(log) ==
    CHOOSE n \in 0..Len(log) :
        /\ n = 0 \/ log[n].op = "commit"
        /\ \A k \in (n+1)..Len(log) : log[k].op # "commit"

Committed(log) == Prefix(log, CommittedEnd(log))

(***************************************************************************)
(* The contents after rel_open_writable has replayed every per-relation    *)
(* WAL w over the files.                                                   *)
(***************************************************************************)
ReplayWals(w) == {f \in Facts : f \in Replay(file, w[RelOf[f]])}

(***************************************************************************)
(* dlOpenCommon: the per-relation WALs are replayed as the relations are   *)
(* declared, the committed part of txn.wal after all of them.              *)
(***************************************************************************)
Recovered(w, t) == Replay(ReplayWals(w), Committed(t))

(***************************************************************************)
(* dl_open: replay, cut txn.wal after its last COMMIT, and compact every   *)
(* relation txn.wal touches.                                               *)
(***************************************************************************)
Open ==
    /\ pc = "down"
    /\ mem' = Recovered(wal, twal)
    /\ twal' = Committed(twal)
    /\ tsynced' = IF tsynced <= Len(twal') THEN tsynced ELSE Len(twal')
    /\ dirty' = {r \in Rels : wal[r] # <<>>
                    \/ ReplayWals(wal) \cap FactsOf(r) # mem' \cap FactsOf(r)}
    /\ todo' = {RelOf[f] : f \in Touched(twal')}
    /\ failed' = FALSE
    /\ pc' = "replay"
    /\ facts' = mem'
    /\ stale' = {}
    /\ UNCHANGED <<txn, swap, pos, cur, back, file, wal, synced, byTxn>>

(***************************************************************************)
(* Faulty variants (Faulty...) stand before the operation they vary; each  *)
(* makes a property below fail, none is part of Next.                      *)
(*                                                                         *)
(* A replay that empties txn.wal although a compaction failed.             *)
(***************************************************************************)
FaultyEndReplay ==
    /\ pc = "replay"
    /\ todo = {}
    /\ pc' = "idle"
    /\ twal' = <<>>
    /\ tsynced' = 0
    /\ UNCHANGED <<mem, dirty, txn, swap, pos, todo, cur, back, failed, file, wal,
                   synced, history>>

(***************************************************************************)
(* replayTxnWal after its compactions: txn.wal is emptied, or kept whole   *)
(* for the next open when a compaction failed.                             *)
(***************************************************************************)
EndReplay ==
    /\ pc = "replay"
    /\ todo = {}
    /\ pc' = "idle"
    /\ IF failed THEN UNCHANGED <<twal, tsynced>>
                 ELSE twal' = <<>> /\ tsynced' = 0
    /\ UNCHANGED <<mem, dirty, txn, swap, pos, todo, cur, back, failed, file, wal,
                   synced, history>>

-----------------------------------------------------------------------------
(***************************************************************************)
(* rel_compact, called from the replay and close sweeps and from adds.     *)
(***************************************************************************)

CompactNext ==
    /\ pc \in {"replay", "close"}
    /\ \E r \in todo :
          /\ cur' = r
          /\ todo' = todo \ {r}
    /\ back' = pc
    /\ pc' = "compact"
    /\ UNCHANGED <<mem, dirty, txn, swap, pos, failed, disk, history>>

CompactSave ==
    /\ pc = "compact"
    /\ file' = (file \ FactsOf(cur)) \cup (mem \cap FactsOf(cur))
    /\ pc' = "saved"
    /\ UNCHANGED <<mem, dirty, txn, swap, pos, todo, cur, back, failed, wal, synced,
                   twal, tsynced, history>>

CompactTruncate ==
    /\ pc = "saved"
    /\ wal' = [wal EXCEPT ![cur] = <<>>]
    /\ synced' = [synced EXCEPT ![cur] = 0]
    /\ pc' = back
    /\ back' = "idle"
    /\ cur' = NoRel
    /\ UNCHANGED <<mem, dirty, txn, swap, pos, todo, failed, file, twal, tsynced, history>>

CompactFail ==
    /\ "iofail" \in Features
    /\ pc \in {"compact", "saved"}
    /\ failed' = (failed \/ back = "replay")
    /\ pc' = back
    /\ back' = "idle"
    /\ cur' = NoRel
    /\ UNCHANGED <<mem, dirty, txn, swap, pos, todo, disk, history>>

(***************************************************************************)
(* The tail of addFactApply: every 64th call evaluates the compaction      *)
(* threshold of the relation.                                              *)
(***************************************************************************)
MaybeCompact(r, return) ==
    \/ pc' = return /\ UNCHANGED <<cur, back>>
    \/ /\ "compact" \in Features
       /\ pc' = "compact"
       /\ cur' = r
       /\ back' = return

-----------------------------------------------------------------------------
(***************************************************************************)
(* Direct writes: appended to the WAL of their relation, no fsync.         *)
(***************************************************************************)

DirectWrite(rec) ==
    /\ Len(wal[RelOf[rec.f]]) < MaxWal
    /\ mem' = IF rec.op = "add" THEN mem \cup {rec.f} ELSE mem \ {rec.f}
    /\ facts' = IF rec.op = "add" THEN facts \cup {rec.f} ELSE facts \ {rec.f}
    /\ wal' = [wal EXCEPT ![RelOf[rec.f]] = Append(@, rec)]
    /\ dirty' = dirty \cup {RelOf[rec.f]}
    /\ byTxn' = byTxn \ {rec.f}
    /\ stale' = IF Touches(Committed(twal), rec.f) THEN stale \cup {rec.f} ELSE stale
    /\ UNCHANGED <<txn, pos, todo, failed, file, synced, twal, tsynced>>

AddFact(f) ==
    /\ "direct" \in Features
    /\ pc = "idle"
    /\ f \notin mem
    /\ DirectWrite(AddRec(f))
    /\ MaybeCompact(RelOf[f], "idle")
    /\ UNCHANGED swap

DeleteFact(f) ==
    /\ "direct" \in Features
    /\ pc = "idle"
    /\ f \in mem
    /\ DirectWrite(DelRec(f))
    /\ UNCHANGED <<pc, swap, cur, back>>

(***************************************************************************)
(* dl_cas_revision: a conflict changes nothing; else the old row is logged *)
(* and removed, then the new one logged and added.                         *)
(***************************************************************************)
CasRevision(expected, next) ==
    /\ "direct" \in Features
    /\ pc = "idle"
    /\ expected # next /\ RevGet(mem) = expected
    /\ IF expected = 0
       THEN UNCHANGED <<mem, dirty, txn, pos, todo, failed, disk, history>>
       ELSE DirectWrite(DelRec(RevRows[expected]))
    /\ swap' = next
    /\ pc' = "cas"
    /\ UNCHANGED <<cur, back>>

CasWrite ==
    /\ pc = "cas"
    /\ DirectWrite(AddRec(RevRows[swap]))
    /\ MaybeCompact(RelOf[RevRows[swap]], "idle")
    /\ swap' = 0

-----------------------------------------------------------------------------
(***************************************************************************)
(* Transactions.                                                           *)
(***************************************************************************)

TxnBegin ==
    /\ pc = "idle"
    /\ pc' = "txn"
    /\ txn' = <<>>
    /\ pos' = 1
    /\ UNCHANGED <<mem, dirty, swap, todo, cur, back, failed, disk, history>>

(***************************************************************************)
(* dl_txn_add_fact, dl_txn_delete_fact, dl_txn_cas: buffered whatever the  *)
(* contents, but one compare-and-swap per entity.                          *)
(***************************************************************************)
TxnBufOp(o) ==
    /\ pc = "txn"
    /\ Len(txn) < MaxTxn
    /\ o.op = "cas" => \A i \in DOMAIN txn : txn[i].op # "cas"
    /\ txn' = Append(txn, o)
    /\ UNCHANGED <<pc, mem, dirty, swap, pos, todo, cur, back, failed, disk, history>>

(***************************************************************************)
(* txnAbort and txnDiscard: forget the buffer; what a failed commit has    *)
(* appended to txn.wal stays there.                                        *)
(***************************************************************************)
TxnDiscard == pc' = "idle" /\ txn' = <<>> /\ pos' = 1

TxnRollback ==
    /\ pc = "txn"
    /\ TxnDiscard
    /\ UNCHANGED <<mem, dirty, swap, todo, cur, back, failed, disk, history>>

(***************************************************************************)
(* dl_txn_commit of a non-empty buffer without a conflict: txnwal_open_rw  *)
(* drops whatever follows the last COMMIT marker.  (An empty one, and one  *)
(* whose revision is not the expected one, is TxnRollback.)                *)
(***************************************************************************)
TxnCommit ==
    /\ pc = "txn"
    /\ txn # <<>>
    /\ NoConflict(txn, mem)
    /\ Len(Committed(twal)) < MaxTxnWal
    /\ twal' = Committed(twal)
    /\ tsynced' = IF tsynced <= Len(twal') THEN tsynced ELSE Len(twal')
    /\ pc' = "append"
    /\ UNCHANGED <<mem, dirty, txn, swap, pos, todo, cur, back, failed, file, wal,
                   synced, history>>

TxnAppend ==
    /\ pc = "append"
    /\ pos <= Len(Records(txn))
    /\ twal' = Append(twal, Records(txn)[pos])
    /\ pos' = pos + 1
    /\ UNCHANGED <<pc, mem, dirty, txn, swap, todo, cur, back, failed, file, wal,
                   synced, tsynced, history>>

TxnMarker ==
    /\ pc = "append"
    /\ pos > Len(Records(txn))
    /\ twal' = Append(twal, CommitRec)
    /\ pc' = "marker"
    /\ UNCHANGED <<mem, dirty, txn, swap, pos, todo, cur, back, failed, file, wal,
                   synced, tsynced, history>>

(***************************************************************************)
(* An append that fails, or the fault hook before the marker.              *)
(***************************************************************************)
TxnAppendFail ==
    /\ "iofail" \in Features
    /\ pc = "append"
    /\ TxnDiscard
    /\ UNCHANGED <<mem, dirty, swap, todo, cur, back, failed, disk, history>>

(***************************************************************************)
(* A commit that is acknowledged without the fsync.                        *)
(***************************************************************************)
FaultyTxnSync ==
    /\ pc = "marker"
    /\ pc' = "apply"
    /\ pos' = 1
    /\ UNCHANGED <<mem, dirty, txn, swap, todo, cur, back, failed, disk, history>>

TxnSync ==
    /\ pc = "marker"
    /\ tsynced' = Len(twal)
    /\ pc' = "apply"
    /\ pos' = 1
    /\ UNCHANGED <<mem, dirty, txn, swap, todo, cur, back, failed, file, wal, synced,
                   twal, history>>

(***************************************************************************)
(* The fsync fails: the commit returns -1, the marker stays in the file.   *)
(***************************************************************************)
TxnSyncFail ==
    /\ "iofail" \in Features
    /\ pc = "marker"
    /\ stale' = stale \cup Touched(Records(txn))
    /\ byTxn' = byTxn \ Touched(Records(txn))
    /\ TxnDiscard
    /\ UNCHANGED <<mem, dirty, swap, todo, cur, back, failed, disk, facts>>

(***************************************************************************)
(* An apply that never applies the first buffered operation.               *)
(***************************************************************************)
FaultyTxnApply ==
    /\ pc = "apply"
    /\ pos <= Len(Records(txn))
    /\ LET rec == Records(txn)[pos]
       IN  mem' = CASE pos = 1        -> mem
                    [] rec.op = "add" -> mem \cup {rec.f}
                    [] OTHER          -> mem \ {rec.f}
    /\ pos' = pos + 1
    /\ UNCHANGED <<pc, dirty, txn, swap, todo, cur, back, failed, disk, history>>

(***************************************************************************)
(* One buffered operation applied in memory: deleteFactApply or            *)
(* addFactApply.  Nothing goes to the per-relation WAL.                    *)
(***************************************************************************)
TxnApply ==
    /\ pc = "apply"
    /\ pos <= Len(Records(txn))
    /\ LET rec == Records(txn)[pos]
       IN  /\ mem' = IF rec.op = "add" THEN mem \cup {rec.f} ELSE mem \ {rec.f}
           /\ dirty' = IF mem' # mem THEN dirty \cup {RelOf[rec.f]} ELSE dirty
           /\ IF rec.op = "add" THEN MaybeCompact(RelOf[rec.f], "apply")
                                ELSE UNCHANGED <<pc, cur, back>>
    /\ pos' = pos + 1
    /\ UNCHANGED <<txn, swap, todo, failed, disk, history>>

TxnDone ==
    /\ pc = "apply"
    /\ pos > Len(Records(txn))
    /\ facts' = Replay(facts, Records(txn))
    /\ byTxn' = byTxn \cup Touched(Records(txn))
    /\ stale' = stale \ Touched(Records(txn))
    /\ TxnDiscard
    /\ UNCHANGED <<mem, dirty, swap, todo, cur, back, failed, disk>>

-----------------------------------------------------------------------------
(***************************************************************************)
(* Cycle boundary, close and unclean stops.                                *)
(***************************************************************************)

SyncAllWals == synced' = [r \in Rels |-> Len(wal[r])]

Consolidate ==
    /\ pc = "idle"
    /\ SyncAllWals
    /\ UNCHANGED <<pc, mem, dirty, txn, swap, pos, todo, cur, back, failed, file, wal,
                   twal, tsynced, history>>

(***************************************************************************)
(* dl_close: drop an open transaction, fsync the WALs, compact the dirty   *)
(* relations.  txn.wal is left as it is.                                   *)
(***************************************************************************)
Close ==
    /\ pc \in {"idle", "txn"}
    /\ pc' = "close"
    /\ txn' = <<>>
    /\ pos' = 1
    /\ todo' = dirty
    /\ SyncAllWals
    /\ UNCHANGED <<mem, dirty, swap, cur, back, failed, file, wal, twal, tsynced, history>>

Forget ==
    /\ pc' = "down"
    /\ mem' = {}
    /\ dirty' = {}
    /\ txn' = <<>>
    /\ swap' = 0
    /\ pos' = 1
    /\ todo' = {}
    /\ back' = "idle"
    /\ failed' = FALSE
    /\ cur' = NoRel

EndClose ==
    /\ pc = "close"
    /\ todo = {}
    /\ Forget
    /\ UNCHANGED <<disk, history>>

(***************************************************************************)
(* The commit in flight has its marker in txn.wal.                         *)
(***************************************************************************)
InFlight == pc \in {"marker", "apply"} \/ (pc \in {"compact", "saved"} /\ back = "apply")

(***************************************************************************)
(* The contents a stop of the process at this point stands for.            *)
(***************************************************************************)
Expected == IF InFlight THEN Replay(facts, Records(txn)) ELSE facts

(***************************************************************************)
(* A kill counts the commit in flight as made once its marker is fsync'd;  *)
(* before that its facts are in doubt until the next open.                 *)
(***************************************************************************)
Kill ==
    /\ pc # "down"
    /\ Forget
    /\ facts' = Expected
    /\ byTxn' = CASE ~InFlight     -> byTxn
                  [] pc = "marker" -> byTxn \ Touched(Records(txn))
                  [] OTHER         -> byTxn \cup Touched(Records(txn))
    /\ stale' = IF InFlight THEN stale \ Touched(Records(txn)) ELSE stale
    /\ UNCHANGED disk

(***************************************************************************)
(* The ways a power loss can cut the logs.                                 *)
(***************************************************************************)
WalCuts == {w \in [Rels -> UNION {{Prefix(wal[r], n) : n \in synced[r]..Len(wal[r])} : r \in Rels}] :
               \A r \in Rels : \E n \in synced[r]..Len(wal[r]) : w[r] = Prefix(wal[r], n)}

TxnWalCuts == {Prefix(twal, n) : n \in tsynced..Len(twal)}

PowerLoss ==
    /\ Forget
    /\ wal' \in WalCuts
    /\ twal' \in TxnWalCuts
    /\ synced' = [r \in Rels |-> Len(wal'[r])]
    /\ tsynced' = Len(twal')
    /\ facts' = Recovered(wal', twal')
    /\ stale' = {}
    /\ UNCHANGED <<file, byTxn>>

Next ==
    \/ Open \/ EndReplay
    \/ CompactNext \/ CompactSave \/ CompactTruncate \/ CompactFail
    \/ \E f \in Plain : AddFact(f) \/ DeleteFact(f)
    \/ \E c \in CasOps : CasRevision(c.expected, c.next)
    \/ CasWrite
    \/ TxnBegin \/ TxnRollback \/ TxnCommit
    \/ \E o \in TxnOp : TxnBufOp(o)
    \/ TxnAppend \/ TxnMarker \/ TxnAppendFail
    \/ TxnSync \/ TxnSyncFail \/ TxnApply \/ TxnDone
    \/ Consolidate \/ Close \/ EndClose
    \/ Kill \/ PowerLoss

Spec == Init /\ [][Next]_vars

-----------------------------------------------------------------------------
(***************************************************************************)
(* Properties.                                                             *)
(***************************************************************************)

(***************************************************************************)
(* Killing the process at any point leaves a directory from which the next *)
(* open rebuilds the acknowledged contents: nothing of a commit whose      *)
(* marker is not in txn.wal, all of it once the marker is there, over all  *)
(* relations.  Facts written directly after a commit logged them, and      *)
(* facts of a commit whose fsync failed, are excepted.                     *)
(***************************************************************************)
TxnAtomic == Recovered(wal, twal) \ stale = Expected \ stale

(***************************************************************************)
(* A power loss cannot take back an acknowledged commit, and leaves all or *)
(* nothing of the one in flight, wherever it cuts the logs.                *)
(***************************************************************************)
TxnDurable ==
    \A w \in WalCuts, t \in TxnWalCuts :
        LET survives == Recovered(w, t)
            Agree(S, contents) == \A f \in S : f \in survives <=> f \in contents
        IN  \/ Agree(byTxn \ stale, facts)
            \/ InFlight /\ Agree((byTxn \cup Touched(Records(txn))) \ stale, Expected)

(***************************************************************************)
(* TxnAtomic without exceptions: what a re-open recovers is what the       *)
(* closed or killed handle acknowledged (dl.h, durability of dl_add_fact). *)
(***************************************************************************)
RecoveryExact == Recovered(wal, twal) = Expected

(***************************************************************************)
(* The contents a caller sees, or would see after opening the directory.   *)
(***************************************************************************)
Committing == pc \in {"append", "marker", "apply"} \/ (pc \in {"compact", "saved"} /\ back = "apply")

Seen == CASE pc = "down" -> Recovered(wal, twal) [] Committing -> facts [] OTHER -> mem

(***************************************************************************)
(* The revisions an entity has in some contents.                           *)
(***************************************************************************)
Shown(contents) == {n \in DOMAIN RevRows : RevRows[n] \in contents}

(***************************************************************************)
(* An entity never gets a second revision, whatever step is taken and      *)
(* wherever a process stops: the delete of the old row and the add of the  *)
(* new one, direct or in a transaction, are replayed together or in that   *)
(* order (dl_cas_revision, dl_txn_commit), and between the two records of  *)
(* a direct swap it has none.  Excepted are rows the two logs disagree on, *)
(* and a power loss that cuts a log: it can take the direct swap a durable *)
(* transaction was built on.                                               *)
(***************************************************************************)
OneRow == \A m, n \in Shown(Seen) : m = n /\ swap = 0

CutsLogs == pc' = "down" /\ <<wal, twal>>' # <<wal, twal>>

OneRevision ==
    [][/\ \A n \in DOMAIN RevRows : RevRows[n] \notin stale
       /\ ~CutsLogs
       /\ OneRow
       => OneRow']_vars

(***************************************************************************)
(* The store implements TxnContract: a commit is one step, taken when it   *)
(* returns; whatever happens in between, all or nothing of it is seen      *)
(* afterwards, and nothing else ever disappears.                           *)
(***************************************************************************)
Contract == INSTANCE TxnContract WITH
    up      <- pc # "down",
    facts   <- Seen,
    buf     <- [state |-> CASE pc = "txn" -> "open" [] Committing -> "committing" [] OTHER -> "none",
                ops |-> txn],
    durable <- byTxn,
    free    <- stale

KeepsTxnContract == Contract!Spec

=============================================================================
