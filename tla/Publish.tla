------------------------------ MODULE Publish ------------------------------
(***************************************************************************)
(* Publishing versioned snapshots: <db>/snapshots/<v>/ directories, the    *)
(* CURRENT file that names the published one, the revision watermarks that *)
(* let a publish link a file instead of writing it, retention, and the     *)
(* cache of mapped views.                                                  *)
(*                                                                         *)
(* What a relation holds is one value of Contents.  It survives the death  *)
(* of the process (that is RelationStore's business); revisions and        *)
(* watermarks do not.  The id tables of a snapshot are Vocabulary's.       *)
(***************************************************************************)
EXTENDS Integers, FiniteSets

CONSTANTS Rels,        \* relations
          Contents,    \* what a relation may hold
          Missing,     \* no such file, slot or directory
          Retain,      \* dl_set_snapshot_retain; 0 keeps every version
          MaxVersion,  \* bound: versions published
          MaxRev,      \* bound: mutations of a relation in one process
          Slots        \* bound: DL_VIEW_CACHE_SZ

ASSUME BoundsAssumption ==
    /\ Retain \in Nat /\ MaxVersion \in Nat /\ MaxRev \in Nat /\ Slots \in Nat

Versions == 1..MaxVersion

NONE == -1     \* SAVED_REV_NONE

VARIABLES
    mem,      \* what each relation holds
    live,     \* its <rel>.dafsa under the root
    owned,    \* its read state is .owned: the live file is not its content
    rev,      \* its content revision in this process
    saved,    \* saved_rev: the revision the last publish committed
    stage,    \* stage_rev of the publish under way, reset when it ends
    snap,     \* snap_version
    current,  \* the version CURRENT names, 0 without the file
    dirs,     \* the version directories
    tmp,      \* the <v>.tmp directory
    todo,     \* relations the publish under way has still to save
    cache,    \* the mapped views
    pc,       \* where the process is
    harmed    \* history: versions that a failing fsync of CURRENT or a power
              \* loss took files from

vars == <<mem, live, owned, rev, saved, stage, snap, current, dirs, tmp, todo,
          cache, pc, harmed>>
relVars == <<mem, live, owned, rev>>

NoFiles == [r \in Rels |-> Missing]

(***************************************************************************)
(* A directory: its relation files and whether manifest.txt is readable.   *)
(***************************************************************************)
Dirs == [file : [Rels -> Contents \cup {Missing}], manifest : BOOLEAN]

ASSUME MissingAssumption ==
    Missing \notin Contents /\ Missing \notin Dirs /\ Missing \notin [Rels -> Contents]

TypeOK ==
    /\ mem \in [Rels -> Contents]
    /\ live \in [Rels -> Contents \cup {Missing}]
    /\ owned \in [Rels -> BOOLEAN]
    /\ rev \in [Rels -> 0..MaxRev]
    /\ saved \in [Rels -> {NONE} \cup 0..MaxRev]
    /\ stage \in [Rels -> {NONE} \cup 0..MaxRev]
    /\ snap \in 0..MaxVersion
    /\ current \in 0..MaxVersion
    /\ dirs \in [Versions -> Dirs \cup {Missing}]
    /\ tmp \in Dirs \cup {Missing}
    /\ todo \subseteq Rels
    /\ cache \in [Rels \X Versions -> Contents \cup {Missing}]
    /\ pc \in {"down", "idle", "build", "built", "renamed", "flipped"}
    /\ harmed \subseteq Versions
    /\ Cardinality({s \in DOMAIN cache : cache[s] # Missing}) <= Slots
    \* What is not owned is on disk.
    /\ \A r \in Rels : pc # "down" /\ ~owned[r] => live[r] = mem[r]

(***************************************************************************)
(* snapshotEnumerate: the all-digit directories, published or not.         *)
(***************************************************************************)
Present(ds) == {v \in Versions : ds[v] # Missing}

NoViews == [s \in Rels \X Versions |-> Missing]

Init ==
    /\ mem \in [Rels -> Contents]
    /\ live = mem
    /\ owned = [r \in Rels |-> FALSE]
    /\ rev = [r \in Rels |-> 0]
    /\ saved = [r \in Rels |-> NONE]
    /\ stage = [r \in Rels |-> NONE]
    /\ snap = 0
    /\ current = 0
    /\ dirs = [v \in Versions |-> Missing]
    /\ tmp = Missing
    /\ todo = {}
    /\ cache = NoViews
    /\ pc = "down"
    /\ harmed = {}

-----------------------------------------------------------------------------
(***************************************************************************)
(* The process and its relations.                                          *)
(***************************************************************************)

(***************************************************************************)
(* dl_open: a relation whose WAL has records is replayed and owned;        *)
(* otherwise its content is its live file.  Watermarks start at the        *)
(* sentinel, the version comes from CURRENT.                               *)
(***************************************************************************)
Open ==
    /\ pc = "down"
    /\ owned' \in {o \in [Rels -> BOOLEAN] :
                        \A r \in Rels : live[r] # mem[r] => o[r]}
    /\ rev' = [r \in Rels |-> 0]
    /\ saved' = [r \in Rels |-> NONE]
    /\ stage' = [r \in Rels |-> NONE]
    /\ snap' = current
    /\ cache' = NoViews
    /\ todo' = {}
    /\ pc' = "idle"
    /\ UNCHANGED <<mem, live, current, dirs, tmp, harmed>>

(***************************************************************************)
(* A write, or the derivation a consolidation runs: the relation is        *)
(* promoted and its revision moves, the content moves or not               *)
(* (a full re-evaluation resets a view and derives the same tuples).       *)
(***************************************************************************)
Mutate(r, c) ==
    /\ pc = "idle"
    /\ rev[r] < MaxRev
    /\ mem' = [mem EXCEPT ![r] = c]
    /\ owned' = [owned EXCEPT ![r] = TRUE]
    /\ rev' = [rev EXCEPT ![r] = @ + 1]
    /\ UNCHANGED <<live, saved, stage, snap, current, dirs, tmp, todo, cache, pc, harmed>>

(***************************************************************************)
(* The end of the process: its memory and its mappings go, and with them   *)
(* in this model a <v>.tmp directory, which the next publish removes       *)
(* before anything reads it.                                               *)
(***************************************************************************)
Forget ==
    /\ owned' = [r \in Rels |-> FALSE]
    /\ rev' = [r \in Rels |-> 0]
    /\ saved' = [r \in Rels |-> NONE]
    /\ stage' = [r \in Rels |-> NONE]
    /\ snap' = 0
    /\ tmp' = Missing
    /\ todo' = {}
    /\ cache' = NoViews
    /\ pc' = "down"

(***************************************************************************)
(* dl_close: relations are compacted to their live files.                  *)
(***************************************************************************)
Close ==
    /\ pc = "idle"
    /\ live' = [r \in Rels |-> IF owned[r] THEN mem[r] ELSE live[r]]
    /\ Forget
    /\ UNCHANGED <<mem, current, dirs, harmed>>

Kill ==
    /\ pc # "down"
    /\ Forget
    /\ UNCHANGED <<mem, live, current, dirs, harmed>>

(***************************************************************************)
(* manifest.txt is written with fprintf and closed; nothing fsyncs it, so  *)
(* the newest ones may not outlive the power.  Those of versions before    *)
(* CURRENT have been written back: that, and that the power does not fail  *)
(* in the middle of a publish, are restrictions of this action.            *)
(***************************************************************************)
PowerLoss ==
    /\ pc = "idle"
    /\ \E lost \in SUBSET {v \in Present(dirs) : v >= current} :
        /\ dirs' = [v \in Versions |->
                      IF v \in lost THEN [dirs[v] EXCEPT !.manifest = FALSE] ELSE dirs[v]]
        /\ harmed' = harmed \cup lost
    /\ Forget
    /\ UNCHANGED <<mem, live, current>>

-----------------------------------------------------------------------------
(***************************************************************************)
(* materializeSnapshot.                                                    *)
(***************************************************************************)
NewVersion == snap + 1

(***************************************************************************)
(* dl_publish_snapshot, and dl_consolidate past its budget: steps 2 to 4.  *)
(***************************************************************************)
Begin ==
    /\ snap < MaxVersion
    /\ tmp' = [file |-> NoFiles, manifest |-> FALSE]
    /\ stage' = [r \in Rels |-> NONE]
    /\ todo' = Rels
    /\ pc' = "build"
    /\ UNCHANGED <<relVars, saved, snap, current, dirs, cache, harmed>>

PublishSnapshot == pc = "idle" /\ Begin

(***************************************************************************)
(* relSaveGated: link the live file of an unmutated relation; link the     *)
(* previous snapshot's file when the revision is the one it holds; in      *)
(* every other case, and when a link fails, write the content.             *)
(***************************************************************************)
PrevFile(r) ==
    IF snap # 0 /\ dirs[snap] # Missing THEN dirs[snap].file[r] ELSE Missing

FaultySavedFile(r) ==
    CASE live[r] # Missing -> live[r]
      [] snap # 0 /\ rev[r] = saved[r] /\ PrevFile(r) # Missing -> PrevFile(r)
      [] OTHER -> mem[r]

SavedFile(r) ==
    CASE ~owned[r] /\ live[r] # Missing -> live[r]
      [] snap # 0 /\ rev[r] = saved[r] /\ PrevFile(r) # Missing -> PrevFile(r)
      [] OTHER -> mem[r]

StagedRev(r) ==
    IF ~owned[r] /\ live[r] # Missing THEN saved[r] ELSE rev[r]

(***************************************************************************)
(* The watermark goes straight into saved_rev, before the version is       *)
(* published.                                                              *)
(***************************************************************************)
FaultySaveRel(r) ==
    /\ pc = "build"
    /\ r \in todo
    /\ tmp' = [tmp EXCEPT !.file[r] = SavedFile(r)]
    /\ stage' = [stage EXCEPT ![r] = StagedRev(r)]
    /\ saved' = [saved EXCEPT ![r] = StagedRev(r)]
    /\ todo' = todo \ {r}
    /\ UNCHANGED <<relVars, snap, current, dirs, cache, pc, harmed>>

SaveRel(r) ==
    /\ pc = "build"
    /\ r \in todo
    /\ tmp' = [tmp EXCEPT !.file[r] = SavedFile(r)]
    /\ stage' = [stage EXCEPT ![r] = StagedRev(r)]
    /\ todo' = todo \ {r}
    /\ UNCHANGED <<relVars, saved, snap, current, dirs, cache, pc, harmed>>

(***************************************************************************)
(* The manifest is closed and the directory synced.                        *)
(***************************************************************************)
SyncTmp ==
    /\ pc = "build"
    /\ todo = {}
    /\ tmp' = [tmp EXCEPT !.manifest = TRUE]
    /\ pc' = "built"
    /\ UNCHANGED <<relVars, saved, stage, snap, current, dirs, todo, cache, harmed>>

(***************************************************************************)
(* Step 5: whatever a crashed publish left under the new number is         *)
(* removed first.                                                          *)
(***************************************************************************)
Rename ==
    /\ pc = "built"
    /\ dirs' = [dirs EXCEPT ![NewVersion] = tmp]
    /\ tmp' = Missing
    /\ harmed' = harmed \ {NewVersion}
    /\ pc' = "renamed"
    /\ UNCHANGED <<relVars, saved, stage, snap, current, todo, cache>>

(***************************************************************************)
(* Step 6: atomic_write_str on CURRENT.                                    *)
(***************************************************************************)
Flip ==
    /\ pc = "renamed"
    /\ current' = NewVersion
    /\ pc' = "flipped"
    /\ UNCHANGED <<relVars, saved, stage, snap, dirs, tmp, todo, cache, harmed>>

(***************************************************************************)
(* pruneSnapshots: of the directories on disk, all but the Retain highest  *)
(* versions go, and so do their views.                                     *)
(***************************************************************************)
FaultyDoomed(ds) ==
    {v \in Present(ds) :
        Retain > 0 /\ Cardinality({w \in Present(ds) : w > v}) >= Retain - 1}

Doomed(ds) ==
    {v \in Present(ds) :
        Retain > 0 /\ Cardinality({w \in Present(ds) : w > v}) >= Retain}

Prune(ds) == [v \in Versions |-> IF v \in Doomed(ds) THEN Missing ELSE ds[v]]

DropViews(ch, gone) ==
    [s \in DOMAIN ch |-> IF s[2] \in gone THEN Missing ELSE ch[s]]

(***************************************************************************)
(* The views of the replaced version stay mapped.                          *)
(***************************************************************************)
FaultyCommit ==
    /\ pc = "flipped"
    /\ snap' = NewVersion
    /\ saved' = stage
    /\ stage' = [r \in Rels |-> NONE]
    /\ dirs' = Prune(dirs)
    /\ cache' = DropViews(cache, Doomed(dirs))
    /\ pc' = "idle"
    /\ UNCHANGED <<relVars, current, tmp, todo, harmed>>

(***************************************************************************)
(* Steps 7, 7b and 8: the views are closed, the version and the watermarks *)
(* committed, old versions pruned.                                         *)
(***************************************************************************)
Commit ==
    /\ pc = "flipped"
    /\ snap' = NewVersion
    /\ saved' = stage
    /\ stage' = [r \in Rels |-> NONE]
    /\ dirs' = Prune(dirs)
    /\ cache' = NoViews
    /\ pc' = "idle"
    /\ UNCHANGED <<relVars, current, tmp, todo, harmed>>

(***************************************************************************)
(* dlPublishFail from any earlier step: tmp goes, and the new directory if *)
(* it was renamed.  When the fsync after CURRENT's rename is what failed,  *)
(* CURRENT already names that directory.                                   *)
(***************************************************************************)
Fail ==
    /\ \/ pc \in {"build", "built", "renamed"} /\ UNCHANGED current
       \/ pc = "renamed" /\ current' = NewVersion
    /\ harmed' = IF pc = "renamed" /\ current' = NewVersion
                 THEN harmed \cup {NewVersion} ELSE harmed
    /\ dirs' = IF pc = "renamed"
               THEN [dirs EXCEPT ![NewVersion] = Missing] ELSE dirs
    /\ tmp' = Missing
    /\ todo' = {}
    /\ stage' = [r \in Rels |-> NONE]
    /\ pc' = "idle"
    /\ UNCHANGED <<relVars, saved, snap, cache>>

-----------------------------------------------------------------------------
(***************************************************************************)
(* dl_publish_if_needed.                                                   *)
(***************************************************************************)

(***************************************************************************)
(* storeIsCurrent, for a store without pending symbols, terms or rules:    *)
(* the manifest is readable (readSymStamp) and every relation's content is *)
(* in the snapshot CURRENT names, by its live file, by its watermark, or   *)
(* by serializing it.                                                      *)
(***************************************************************************)
StoreIsCurrent ==
    /\ snap # 0 /\ current = snap
    /\ dirs[snap] # Missing /\ dirs[snap].manifest
    /\ \A r \in Rels :
        /\ PrevFile(r) # Missing
        /\ IF ~owned[r] /\ live[r] # Missing
           THEN live[r] = PrevFile(r)
           ELSE \/ saved[r] # NONE /\ rev[r] = saved[r]
                \/ mem[r] = PrevFile(r)

PublishIfNeeded == pc = "idle" /\ ~StoreIsCurrent /\ Begin

SkipPublish ==
    /\ pc = "idle"
    /\ StoreIsCurrent
    /\ dirs' = Prune(dirs)
    /\ cache' = DropViews(cache, Doomed(dirs))
    /\ UNCHANGED <<relVars, saved, stage, snap, current, tmp, todo, pc, harmed>>

-----------------------------------------------------------------------------
(***************************************************************************)
(* view_open_cached, for CURRENT's version (dl_query) or any directory     *)
(* with a manifest (dl_query_version): a hit keeps the slot, a miss maps   *)
(* the file into an empty slot or the least used one.                      *)
(***************************************************************************)
OpenView(r, v) ==
    /\ pc = "idle"
    /\ dirs[v] # Missing /\ dirs[v].manifest /\ dirs[v].file[r] # Missing
    /\ cache[<<r, v>>] = Missing
    /\ LET used == {s \in DOMAIN cache : cache[s] # Missing} IN
        \E victim \in (IF Cardinality(used) < Slots THEN {<<r, v>>} ELSE used) :
            cache' = [cache EXCEPT ![victim] = Missing,
                                   ![<<r, v>>] = dirs[v].file[r]]
    /\ UNCHANGED <<relVars, saved, stage, snap, current, dirs, tmp, todo, pc, harmed>>

Next ==
    \/ Open \/ Close \/ Kill \/ PowerLoss
    \/ \E r \in Rels, c \in Contents : Mutate(r, c)
    \/ PublishSnapshot \/ PublishIfNeeded \/ SkipPublish
    \/ \E r \in Rels : SaveRel(r)
    \/ SyncTmp \/ Rename \/ Flip \/ Commit \/ Fail
    \/ \E r \in Rels, v \in Versions : OpenView(r, v)

Spec == Init /\ [][Next]_vars

-----------------------------------------------------------------------------
(***************************************************************************)
(* Properties.                                                             *)
(***************************************************************************)

(***************************************************************************)
(* Publishing implements SnapshotContract: a version appears whole when    *)
(* CURRENT is flipped to it, holds what the store held, however its files  *)
(* came about (written, linked from the live file, linked from the         *)
(* previous version), and is never rewritten, over all kills between the   *)
(* steps of materializeSnapshot, failures and retries.                     *)
(***************************************************************************)
Contract == INSTANCE SnapshotContract WITH
    store    <- mem,
    versions <- [v \in Versions |-> IF v <= current /\ v \notin harmed /\ dirs[v] # Missing
                                    THEN dirs[v].file ELSE Missing],
    lost     <- {v \in harmed : v <= current}

KeepsSnapshotContract == Contract!Spec

(***************************************************************************)
(* CURRENT never names a version a reader could not read in full: at every *)
(* moment, so after every crash, its directory exists with its manifest    *)
(* and a file for every relation (materializeSnapshot, pruneSnapshots,     *)
(* dlPublishFail).  Excepted are the versions a failing fsync of CURRENT   *)
(* made dlPublishFail remove, and those whose unsynced manifest a power    *)
(* loss took, until they are published again.                              *)
(***************************************************************************)
CurrentComplete ==
    current # 0 /\ current \notin harmed =>
        /\ dirs[current] # Missing /\ dirs[current].manifest
        /\ Contract!SnapshotRelations(current) = Rels

(***************************************************************************)
(* dl_publish_if_needed skips only when the snapshot CURRENT names holds   *)
(* what the store holds, by watermark, by live file or by comparison: "a   *)
(* watermark never claims content is in the previous snapshot unless it is *)
(* actually durable in it", also after a publish failed half way.          *)
(***************************************************************************)
SkipIsSound == pc = "idle" /\ StoreIsCurrent => Contract!StoreIsCurrent

(***************************************************************************)
(* A cached view of a version that is still there shows that version's     *)
(* bytes, also when a crashed publish had left another directory under the *)
(* number (view_open_cached, vcache_invalidate, vcache_drop_version).      *)
(***************************************************************************)
ViewsCoherent ==
    pc = "idle" =>
        \A r \in Rels, v \in Contract!SnapshotVersions :
            cache[<<r, v>>] \in {Missing, Contract!AsOf(v, r)}

=============================================================================
