-------------------------- MODULE SnapshotContract --------------------------
(***************************************************************************)
(* What dl.h promises of published snapshots, without directories,         *)
(* watermarks or caches: a publish adds a version that holds the store as  *)
(* it is, all of it at once; a version is never rewritten, only pruned,    *)
(* oldest first; queries as of a version are answered from that version.   *)
(***************************************************************************)
EXTENDS Integers, FiniteSets

CONSTANTS Rels, Contents, Missing, Retain, Versions

VARIABLES
    store,     \* what each relation holds
    versions,  \* what each published version holds, or Missing
    current,   \* the version CURRENT names, 0 before the first publish
    lost       \* versions whose durability a failing disk or the power broke

vars == <<store, versions, current, lost>>

Init ==
    /\ store \in [Rels -> Contents]
    /\ versions = [v \in Versions |-> Missing]
    /\ current = 0
    /\ lost = {}

(***************************************************************************)
(* dl_snapshot_versions.                                                   *)
(***************************************************************************)
SnapshotVersions == {v \in Versions : versions[v] # Missing}

(***************************************************************************)
(* dl_query_version: never a silently empty answer.                        *)
(***************************************************************************)
AsOf(v, r) == IF v \in SnapshotVersions THEN versions[v][r] ELSE Missing

(***************************************************************************)
(* dl_snapshot_relations.                                                  *)
(***************************************************************************)
SnapshotRelations(v) == {r \in Rels : AsOf(v, r) # Missing}

(***************************************************************************)
(* The store is what CURRENT's version already holds.                      *)
(***************************************************************************)
StoreIsCurrent == current # 0 /\ \A r \in Rels : AsOf(current, r) = store[r]

-----------------------------------------------------------------------------
Write(r, c) ==
    /\ store' = [store EXCEPT ![r] = c]
    /\ UNCHANGED <<versions, current, lost>>

(***************************************************************************)
(* dl_publish_snapshot: always a new version, or again the one whose       *)
(* publish the disk failed.                                                *)
(***************************************************************************)
Publish ==
    /\ current' \in {current + 1} \cup (lost \cap {current})
    /\ versions' = [versions EXCEPT ![current'] = store]
    /\ lost' = lost \ {current'}
    /\ UNCHANGED store

(***************************************************************************)
(* dl_consolidate: a version past the budget; else the queries keep being  *)
(* served from the last one.                                               *)
(***************************************************************************)
Consolidate == Publish \/ UNCHANGED vars

(***************************************************************************)
(* dl_set_snapshot_retain: at most Retain versions stay, the most recent.  *)
(***************************************************************************)
Prune ==
    /\ Retain > 0
    /\ \E low \in 1..current :
          versions' = [v \in Versions |-> IF v < low THEN Missing ELSE versions[v]]
    /\ Cardinality(SnapshotVersions') <= Retain
    /\ UNCHANGED <<store, current, lost>>

(***************************************************************************)
(* dl_publish_if_needed.                                                   *)
(***************************************************************************)
PublishIfNeeded == IF StoreIsCurrent THEN Prune ELSE Publish

(***************************************************************************)
(* CURRENT names the new version and the fsync that follows fails: the     *)
(* publish reports an error and takes the version back.                    *)
(***************************************************************************)
PublishFails ==
    /\ current' \in {current, current + 1}
    /\ versions[current'] \in {Missing, store}
    /\ versions' = [versions EXCEPT ![current'] = Missing]
    /\ lost' = lost \cup {current'}
    /\ UNCHANGED store

(***************************************************************************)
(* The power goes before the newest manifest is on disk.                   *)
(***************************************************************************)
PowerLoss ==
    /\ current # 0
    /\ versions' = [versions EXCEPT ![current] = Missing]
    /\ lost' = lost \cup {current}
    /\ UNCHANGED <<store, current>>

Next ==
    \/ \E r \in Rels, c \in Contents : Write(r, c)
    \/ Consolidate \/ PublishIfNeeded \/ Prune
    \/ PublishFails \/ PowerLoss

Spec == Init /\ [][Next]_vars

=============================================================================
