------------------------------ MODULE RelationStore ------------------------
(***************************************************************************)
(* The storage of one extensional relation: the in-memory DAFSA and its    *)
(* hot-write overlay, the DAFSA file, the per-relation WAL, the lazy read  *)
(* states, bulk load, the cycle-boundary fsync, compaction, close, and     *)
(* what an unclean stop leaves behind.                                     *)
(*                                                                         *)
(* The DAFSA library is external: a DAFSA is the set of facts it accepts,  *)
(* dafsa_save replaces a file atomically and durably (tmp, fsync, rename), *)
(* a WAL append is a self-framed record that is durable only after an      *)
(* fsync, and a record cut by a crash is dropped as a whole.               *)
(*                                                                         *)
(* Two kinds of unclean stop: Kill loses the process but not the page      *)
(* cache, so the files keep every write; PowerLoss also cuts the WAL to    *)
(* some prefix that contains everything fsync'd.                           *)
(***************************************************************************)
EXTENDS Wal

CONSTANTS MaxWal,    \* bound: records in the WAL
          Features   \* the optional behaviours of the workload

ASSUME MaxWalAssumption == MaxWal \in Nat

(***************************************************************************)
(* "load": bulk CSV loads; "compact": the throttled compaction inside an   *)
(* add; "iofail": a failing dafsa_save or ftruncate.                       *)
(***************************************************************************)
ASSUME FeaturesAssumption == Features \subseteq {"load", "compact", "iofail"}

VARIABLES
    state,   \* Relation.state, or "closed" when no handle exists
    base,    \* r.base (= r.d): the in-memory DAFSA, meaningful when owned
    ov,      \* r.ov: facts added since the last consolidation
    dirty,   \* r.dirty
    pc,      \* where the writer is inside a multi-step call
    file,    \* contents of the DAFSA file
    wal,     \* records of the WAL file, page cache included
    synced,  \* how many of them are fsync'd
    facts,   \* history: contents according to the acknowledged operations
    may,     \* history: contents a power loss may legally leave
    stale,   \* history: facts for which the WAL and the file disagree
    early    \* history: the file was saved ahead of an unsynced WAL

memVars == <<state, base, ov, dirty, pc>>
diskVars == <<file, wal, synced>>
history == <<facts, may, stale, early>>
vars == <<state, base, ov, dirty, pc, file, wal, synced, facts, may, stale, early>>

(***************************************************************************)
(* pc: "idle"; "compact", "saved": rel_compact before dafsa_save and       *)
(* between dafsa_save and ftruncate, called from an add; "close" and       *)
(* "closeSaved": the same two points of the rel_compact of dl_close.       *)
(***************************************************************************)
TypeOK ==
    /\ state \in {"closed", "deferred", "view", "owned"}
    /\ base \subseteq Facts
    /\ ov \subseteq Facts
    /\ dirty \in BOOLEAN
    /\ pc \in {"idle", "compact", "saved", "close", "closeSaved"}
    /\ file \subseteq Facts
    /\ wal \in Seq(FactRec)
    /\ synced \in 0..Len(wal)
    /\ facts \subseteq Facts
    /\ may \subseteq SUBSET Facts
    /\ stale \subseteq Facts
    /\ early \in BOOLEAN

Init ==
    /\ state = "closed"
    /\ base = {}
    /\ ov = {}
    /\ dirty = FALSE
    /\ pc = "idle"
    /\ file = {}
    /\ wal = <<>>
    /\ synced = 0
    /\ facts = {}
    /\ may = {{}}
    /\ stale = {}
    /\ early = FALSE

-----------------------------------------------------------------------------
(***************************************************************************)
(* Reading.                                                                *)
(***************************************************************************)

(***************************************************************************)
(* relEnsureOwned: an owned relation keeps its DAFSA, a deferred or viewed *)
(* one is loaded from the file.                                            *)
(***************************************************************************)
Owned == IF state = "owned" THEN base ELSE file

(***************************************************************************)
(* What rel_exact and rel_prefix answer from: the view of the file, or the *)
(* DAFSA and the overlay.                                                  *)
(***************************************************************************)
Visible == IF state = "owned" THEN base \cup ov ELSE file

(***************************************************************************)
(* Faulty variants (Faulty...) stand before the operation they vary; each  *)
(* makes a property below fail, none is part of Next.                      *)
(*                                                                         *)
(* An open that always defers, as if the WAL were never consulted.         *)
(***************************************************************************)
FaultyOpen ==
    /\ state = "closed"
    /\ state' = "deferred"
    /\ facts' = Replay(file, wal)
    /\ UNCHANGED <<base, ov, dirty, pc, diskVars, may, stale, early>>

(***************************************************************************)
(* rel_open_writable: a WAL with records is replayed at once; an empty one *)
(* defers the load.  Replay never compacts, the relation is left dirty.    *)
(***************************************************************************)
Open ==
    /\ state = "closed"
    /\ IF wal # <<>>
       THEN /\ state' = "owned"
            /\ base' = Replay(file, wal)
            /\ dirty' = TRUE
       ELSE /\ state' = "deferred"
            /\ base' = {}
            /\ dirty' = FALSE
    /\ ov' = {}
    /\ pc' = "idle"
    /\ facts' = Replay(file, wal)
    /\ UNCHANGED <<diskVars, may, stale, early>>

(***************************************************************************)
(* A lookup (rel_exact) of a deferred relation: relEnsureReadable opens    *)
(* the zero-copy view, or loads the DAFSA when the file cannot be viewed   *)
(* or the WAL holds records.  A read that a view cannot serve turns it     *)
(* into an owned DAFSA of the same contents; that is no step here.         *)
(***************************************************************************)
Lookup ==
    /\ pc = "idle"
    /\ state = "deferred"
    /\ \/ /\ wal = <<>>
          /\ state' = "view"
          /\ UNCHANGED base
       \/ /\ state' = "owned"
          /\ base' = file
    /\ UNCHANGED <<ov, dirty, pc, diskVars, history>>

(***************************************************************************)
(* An enumeration (rel_prefix, rel_dafsa): ovConsolidateForRead folds the  *)
(* overlay into the DAFSA first.                                           *)
(***************************************************************************)
Enumerate ==
    /\ pc = "idle"
    /\ state = "owned"
    /\ ov # {}
    /\ base' = base \cup ov
    /\ ov' = {}
    /\ dirty' = TRUE
    /\ UNCHANGED <<state, pc, diskVars, history>>

-----------------------------------------------------------------------------
(***************************************************************************)
(* Writing.                                                                *)
(***************************************************************************)

(***************************************************************************)
(* The bookkeeping of an acknowledged, not yet synced, operation.          *)
(***************************************************************************)
Acknowledge(contents) ==
    /\ facts' = contents
    /\ may' = may \cup {contents}
    /\ UNCHANGED <<stale, early>>

(***************************************************************************)
(* dl_add_fact: a duplicate returns 0 and leaves no trace; otherwise the   *)
(* ADD record is appended (no fsync) and the fact enters the overlay.      *)
(* Every 64th add evaluates the compaction threshold, which may start a    *)
(* compaction inside the same call.                                        *)
(***************************************************************************)
AddFact(f) ==
    /\ pc = "idle"
    /\ state \in {"deferred", "view", "owned"}
    /\ f \notin Visible
    /\ Len(wal) < MaxWal
    /\ wal' = Append(wal, AddRec(f))
    /\ base' = Owned
    /\ ov' = ov \cup {f}
    /\ state' = "owned"
    /\ dirty' = TRUE
    /\ pc' \in {"idle"} \cup (IF "compact" \in Features THEN {"compact"} ELSE {})
    /\ Acknowledge(facts \cup {f})
    /\ UNCHANGED <<file, synced>>

(***************************************************************************)
(* A delete that forgets to fold the overlay.                              *)
(***************************************************************************)
FaultyDeleteFact(f) ==
    /\ pc = "idle"
    /\ state \in {"deferred", "view", "owned"}
    /\ f \in Visible
    /\ Len(wal) < MaxWal
    /\ wal' = Append(wal, DelRec(f))
    /\ base' = Owned \ {f}
    /\ state' = "owned"
    /\ dirty' = TRUE
    /\ Acknowledge(facts \ {f})
    /\ UNCHANGED <<ov, pc, file, synced>>

(***************************************************************************)
(* dl_delete_fact: an absent fact returns 0; otherwise the overlay is      *)
(* folded, the DEL record appended (no fsync) and the fact removed.        *)
(***************************************************************************)
DeleteFact(f) ==
    /\ pc = "idle"
    /\ state \in {"deferred", "view", "owned"}
    /\ f \in Visible
    /\ Len(wal) < MaxWal
    /\ wal' = Append(wal, DelRec(f))
    /\ base' = (Owned \cup ov) \ {f}
    /\ ov' = {}
    /\ state' = "owned"
    /\ dirty' = TRUE
    /\ Acknowledge(facts \ {f})
    /\ UNCHANGED <<pc, file, synced>>

(***************************************************************************)
(* dl_load_facts: the union of BASE (not the overlay) and the CSV rows     *)
(* replaces BASE and is saved to the DAFSA file, bypassing the WAL, which  *)
(* is neither synced nor truncated.  The result of the save is ignored.    *)
(* With the save failing this is also the load that returns an error once  *)
(* BASE is replaced, before it saves anything.                             *)
(***************************************************************************)
LoadFacts(rows) ==
    /\ "load" \in Features
    /\ pc = "idle"
    /\ state \in {"deferred", "view", "owned"}
    /\ base' = Owned \cup rows
    /\ state' = "owned"
    /\ dirty' = TRUE
    /\ facts' = facts \cup rows
    /\ \/ /\ file' = base'
          /\ may' = {m \cup rows : m \in may}
          /\ stale' = stale \cup (rows \ Replay(rows, wal))
          /\ early' = (early \/ synced < Len(wal))
       \/ /\ "iofail" \in Features
          /\ stale' = stale \cup rows
          /\ may' = may \cup {facts'}
          /\ UNCHANGED <<file, early>>
    /\ UNCHANGED <<ov, pc, wal, synced>>

-----------------------------------------------------------------------------
(***************************************************************************)
(* Cycle boundaries, compaction and close.                                 *)
(***************************************************************************)

(***************************************************************************)
(* A cycle boundary without the fsync.                                     *)
(***************************************************************************)
FaultyConsolidate ==
    /\ pc = "idle"
    /\ state \in {"deferred", "view", "owned"}
    /\ base' = base \cup ov
    /\ ov' = {}
    /\ may' = {facts}
    /\ UNCHANGED <<state, dirty, pc, diskVars, facts, stale, early>>

(***************************************************************************)
(* The cycle boundary of dl_consolidate and dl_publish_snapshot: fsync the *)
(* WAL, then fold the overlay.                                             *)
(***************************************************************************)
Consolidate ==
    /\ pc = "idle"
    /\ state \in {"deferred", "view", "owned"}
    /\ synced' = Len(wal)
    /\ base' = base \cup ov
    /\ ov' = {}
    /\ dirty' = (dirty \/ ov # {})
    /\ may' = {facts}
    /\ early' = FALSE
    /\ UNCHANGED <<state, pc, file, wal, facts, stale>>

(***************************************************************************)
(* dl_close up to the compaction sweep: fsync the WAL; only a dirty        *)
(* relation is compacted.                                                  *)
(***************************************************************************)
BeginClose ==
    /\ pc = "idle"
    /\ state \in {"deferred", "view", "owned"}
    /\ synced' = Len(wal)
    /\ may' = {facts}
    /\ early' = FALSE
    /\ IF dirty
       THEN pc' = "close" /\ UNCHANGED <<state, base, ov, dirty>>
       ELSE /\ state' = "closed" /\ pc' = "idle"
            /\ base' = {} /\ ov' = {} /\ dirty' = FALSE
    /\ UNCHANGED <<file, wal, facts, stale>>

(***************************************************************************)
(* A compaction that saves BASE without folding the overlay into it.       *)
(***************************************************************************)
FaultyCompactSave ==
    /\ pc \in {"compact", "close"}
    /\ file' = base
    /\ pc' = IF pc = "compact" THEN "saved" ELSE "closeSaved"
    /\ UNCHANGED <<state, base, ov, dirty, wal, synced, history>>

(***************************************************************************)
(* rel_compact, first half: fold the overlay, save BASE over the file.     *)
(***************************************************************************)
CompactSave ==
    /\ pc \in {"compact", "close"}
    /\ base' = base \cup ov
    /\ ov' = {}
    /\ file' = base \cup ov
    /\ early' = (early \/ synced < Len(wal))
    /\ pc' = IF pc = "compact" THEN "saved" ELSE "closeSaved"
    /\ UNCHANGED <<state, dirty, wal, synced, facts, may, stale>>

(***************************************************************************)
(* The return from rel_compact: to the add that called it, or to the end   *)
(* of dl_close, which frees the relation whatever the result was.          *)
(***************************************************************************)
EndCompact ==
    IF pc \in {"compact", "saved"}
    THEN /\ pc' = "idle"
         /\ base' = base \cup ov
         /\ ov' = {}
         /\ UNCHANGED <<state, dirty>>
    ELSE /\ pc' = "idle"
         /\ state' = "closed"
         /\ base' = {}
         /\ ov' = {}
         /\ dirty' = FALSE

(***************************************************************************)
(* rel_compact, second half: truncate the WAL to its header and fsync.     *)
(***************************************************************************)
CompactTruncate ==
    /\ pc \in {"saved", "closeSaved"}
    /\ wal' = <<>>
    /\ synced' = 0
    /\ may' = {facts}
    /\ stale' = {}
    /\ early' = FALSE
    /\ EndCompact
    /\ UNCHANGED <<file, facts>>

(***************************************************************************)
(* rel_compact failing: dafsa_save or ftruncate returns an error, which    *)
(* every caller ignores; the WAL keeps its records.  An fsync failing      *)
(* behind the ftruncate looks like CompactTruncate to everyone but a power *)
(* loss, and is left out.                                                  *)
(***************************************************************************)
CompactFail ==
    /\ "iofail" \in Features
    /\ pc # "idle"
    /\ EndCompact
    /\ UNCHANGED <<diskVars, history>>

-----------------------------------------------------------------------------
(***************************************************************************)
(* Unclean stops.                                                          *)
(***************************************************************************)
Crashed ==
    /\ state' = "closed"
    /\ base' = {}
    /\ ov' = {}
    /\ dirty' = FALSE
    /\ pc' = "idle"

Kill ==
    /\ state # "closed"
    /\ Crashed
    /\ UNCHANGED <<diskVars, history>>

PowerLoss ==
    /\ Crashed
    /\ \E n \in synced..Len(wal) :
          /\ wal' = Prefix(wal, n)
          /\ synced' = n
          /\ facts' = Replay(file, wal')
    /\ may' = {facts'}
    /\ stale' = {}
    /\ early' = FALSE
    /\ UNCHANGED file

Next ==
    \/ Open
    \/ Lookup
    \/ Enumerate
    \/ \E f \in Facts : AddFact(f) \/ DeleteFact(f)
    \/ \E rows \in SUBSET Facts : LoadFacts(rows)
    \/ Consolidate
    \/ BeginClose
    \/ CompactSave
    \/ CompactTruncate
    \/ CompactFail
    \/ Kill
    \/ PowerLoss

Spec == Init /\ [][Next]_vars

-----------------------------------------------------------------------------
(***************************************************************************)
(* Properties.                                                             *)
(***************************************************************************)

(***************************************************************************)
(* In every read state - deferred, zero-copy view, owned with an overlay - *)
(* a read answers from exactly the acknowledged contents: a view never     *)
(* misses a WAL record or an overlay fact (relation.zig, Relation.state).  *)
(***************************************************************************)
ReadsAreCurrent == state # "closed" => Visible = facts

(***************************************************************************)
(* Killing the process at any point - between a WAL append and the fsync,  *)
(* between the two halves of a compaction, half way through close - loses  *)
(* and invents nothing: the next open recovers exactly the acknowledged    *)
(* contents, except for facts loaded over a WAL that deletes them.         *)
(***************************************************************************)
KillSafe == Replay(file, wal) \ stale = facts \ stale

(***************************************************************************)
(* A power loss leaves contents the relation had at or after the last      *)
(* cycle boundary, never a mixture ("a crash loses exactly the writes      *)
(* since the last sync point", relation.zig), except while a save has run  *)
(* ahead of an unsynced WAL.                                               *)
(***************************************************************************)
PowerSafe ==
    ~early => \A n \in synced..Len(wal) :
                 \E m \in may : Replay(file, Prefix(wal, n)) \ stale = m \ stale

(***************************************************************************)
(* The relation implements FactStore: adds, deletes, loads, compactions,   *)
(* closes and failures change what a read sees one operation at a time,    *)
(* opens, lookups and consolidations do not change it, and a re-open after *)
(* an unclean stop sees what FactStore allows.                             *)
(***************************************************************************)
Promise == INSTANCE FactStore WITH
    facts <- IF state = "closed" THEN Replay(file, wal) ELSE Visible,
    open  <- IF early THEN Facts ELSE stale

KeepsPromise == Promise!Spec

=============================================================================
