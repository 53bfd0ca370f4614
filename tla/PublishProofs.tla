---------------------------- MODULE PublishProofs ---------------------------
(***************************************************************************)
(* Publishing is right for any set of relations, contents and versions:    *)
(* CURRENT is complete, a skipped publish was not needed, cached views are *)
(* those of their version, and the whole implements SnapshotContract.      *)
(*                                                                         *)
(* None of these is inductive.  What carries them is where each step of    *)
(* materializeSnapshot stands (Building), how far the process's version    *)
(* and CURRENT can be apart (Chain), and what a watermark promises         *)
(* (Marks).                                                                *)
(***************************************************************************)
EXTENDS Publish, FiniteSetTheorems, WellFoundedInduction, TLAPS

Used == {s \in DOMAIN cache : cache[s] # Missing}

(***************************************************************************)
(* What the store holds, as a complete directory.                          *)
(***************************************************************************)
Image == [file |-> mem, manifest |-> TRUE]

(***************************************************************************)
(* The directory under construction has what the store holds, as far as it *)
(* was written; once renamed it has all of it.                             *)
(***************************************************************************)
Building ==
    /\ pc \in {"build", "built", "renamed", "flipped"} => snap < MaxVersion
    /\ pc = "build" => tmp # Missing /\ \A r \in Rels \ todo : tmp.file[r] = mem[r]
    /\ pc = "built" => tmp = Image
    /\ pc \in {"renamed", "flipped"} => dirs[NewVersion] = Image /\ NewVersion \notin harmed

(***************************************************************************)
(* A process is at the version CURRENT names.  It is one behind while it   *)
(* commits a publish, and after a publish whose fsync of CURRENT failed;   *)
(* until that version is renamed again it is a harmed one.                 *)
(***************************************************************************)
Chain ==
    /\ pc # "down" => snap = current \/ NewVersion = current
    /\ pc = "flipped" => NewVersion = current
    /\ pc \in {"idle", "build", "built"} /\ snap # current => current \in harmed

(***************************************************************************)
(* A crashed publish leaves at most the directory after CURRENT's, and     *)
(* none when the process is behind.                                        *)
(***************************************************************************)
Orphans ==
    \A v \in Present(dirs) :
        v <= current + 1 /\ (pc # "down" /\ snap # current => v <= current)

(***************************************************************************)
(* A watermark that equals the revision stands for a file of the previous  *)
(* version with the content of the relation.                               *)
(***************************************************************************)
Marks ==
    \A r \in Rels :
        /\ saved[r] <= rev[r] /\ stage[r] <= rev[r]
        /\ snap # 0 /\ saved[r] = rev[r] /\ dirs[snap] # Missing =>
               dirs[snap].file[r] = mem[r]

(***************************************************************************)
(* A directory has a file for every relation; its manifest is readable     *)
(* unless it is harmed, and then it is not.                                *)
(***************************************************************************)
Whole ==
    \A v \in Present(dirs) :
        dirs[v].file \in [Rels -> Contents] /\ (dirs[v].manifest <=> v \notin harmed)

(***************************************************************************)
(* A cached view has the bytes of its version, except for the version that *)
(* is being replaced.                                                      *)
(***************************************************************************)
Mapped ==
    \A r \in Rels, v \in Present(dirs) :
        \/ pc \in {"renamed", "flipped"} /\ v = NewVersion
        \/ cache[<<r, v>>] \in {Missing, dirs[v].file[r]}

PInv == /\ TypeOK /\ IsFiniteSet(Used)
        /\ Building /\ Chain /\ Orphans /\ Marks /\ Whole /\ Mapped

(***************************************************************************)
(* CURRENT's directory is there.                                           *)
(***************************************************************************)
CurrentThere == current # 0 /\ current \notin harmed => dirs[current] # Missing

-----------------------------------------------------------------------------
(***************************************************************************)
(* Initially there is no version and no process.                           *)
(***************************************************************************)
LEMMA PublishInit == Init => PInv /\ CurrentThere
<1> SUFFICES ASSUME Init PROVE PInv /\ CurrentThere
  OBVIOUS
<1>1. Used = {}
  BY DEF Init, Used, NoViews
<1>2. IsFiniteSet(Used) /\ Cardinality(Used) <= Slots
  BY <1>1, FS_EmptySet, BoundsAssumption
<1>3. TypeOK
  BY <1>2, BoundsAssumption DEF Init, TypeOK, NoViews, NONE, Versions, Used
<1>4. Present(dirs) = {}
  BY DEF Init, Present
<1>5. Building /\ Chain /\ Orphans /\ Marks /\ Whole /\ Mapped /\ CurrentThere
  BY <1>4 DEF Init, Building, Chain, Orphans, Marks, Whole, Mapped, CurrentThere, NONE
<1> QED BY <1>2, <1>3, <1>5 DEF PInv

(***************************************************************************)
(* dl_close, a kill and a power loss leave a cache without views.          *)
(***************************************************************************)
LEMMA NoneUsed ==
    ASSUME cache' = NoViews
    PROVE  IsFiniteSet(Used') /\ Cardinality(Used') <= Slots
<1>1. Used' = {}
  BY DEF Used, NoViews
<1> QED BY <1>1, FS_EmptySet, BoundsAssumption

(***************************************************************************)
(* Views that are only dropped leave no more of them.                      *)
(***************************************************************************)
LEMMA FewerUsed ==
    ASSUME PInv, Used' \subseteq Used
    PROVE  IsFiniteSet(Used') /\ Cardinality(Used') <= Slots
<1>1. IsFiniteSet(Used) /\ Cardinality(Used) <= Slots
  BY DEF PInv, TypeOK, Used
<1>2. IsFiniteSet(Used') /\ Cardinality(Used') <= Cardinality(Used)
  BY <1>1, FS_Subset
<1> QED BY <1>1, <1>2, FS_CardinalityType, BoundsAssumption

(***************************************************************************)
(* A mapped view takes an empty slot or another view's (view_open_cached). *)
(***************************************************************************)
LEMMA OneMoreUsed ==
    ASSUME PInv, NEW r \in Rels, NEW v \in Versions, OpenView(r, v)
    PROVE  IsFiniteSet(Used') /\ Cardinality(Used') <= Slots
<1> DEFINE s == <<r, v>>
<1>1. /\ IsFiniteSet(Used) /\ Cardinality(Used) <= Slots /\ Cardinality(Used) \in Nat
      /\ DOMAIN cache = Rels \X Versions /\ cache[s] = Missing /\ s \notin Used
  BY FS_CardinalityType DEF PInv, TypeOK, Used, OpenView
<1>2. PICK victim \in (IF Cardinality(Used) < Slots THEN {s} ELSE Used) :
        cache' = [cache EXCEPT ![victim] = Missing, ![s] = dirs[v].file[r]]
  BY DEF OpenView, Used
<1>3. Used' \subseteq (Used \ {victim}) \cup {s}
  BY <1>1, <1>2 DEF Used
<1> DEFINE Rest == Used \ {victim}
<1>4. /\ IsFiniteSet(Rest) /\ Cardinality(Rest) \in Nat
      /\ Cardinality(Rest) + 1 <= Slots
  <2>1. /\ IsFiniteSet(Rest)
        /\ Cardinality(Rest) = IF victim \in Used THEN Cardinality(Used) - 1 ELSE Cardinality(Used)
    BY <1>1, FS_RemoveElement
  <2>2. Cardinality(Rest) \in Nat
    BY <2>1, FS_CardinalityType
  <2>3. CASE Cardinality(Used) < Slots
    <3>1. victim \notin Used
      BY <1>1, <1>2, <2>3
    <3> QED BY <1>1, <2>1, <2>3, <3>1, BoundsAssumption
  <2>4. CASE ~(Cardinality(Used) < Slots)
    <3>1. victim \in Used
      BY <1>2, <2>4
    <3> QED BY <1>1, <2>1, <2>2, <3>1, BoundsAssumption
  <2> QED BY <2>1, <2>2, <2>3, <2>4
<1>5. IsFiniteSet(Rest \cup {s}) /\ Cardinality(Rest \cup {s}) <= Cardinality(Rest) + 1
  <2> HIDE DEF Rest, s
  <2>1. /\ IsFiniteSet(Rest \cup {s})
        /\ Cardinality(Rest \cup {s}) = IF s \in Rest THEN Cardinality(Rest) ELSE Cardinality(Rest) + 1
    BY <1>4, FS_AddElement
  <2> QED BY <1>4, <2>1
<1>6. /\ IsFiniteSet(Used') /\ Cardinality(Used') <= Cardinality(Rest \cup {s})
      /\ Cardinality(Used') \in Nat /\ Cardinality(Rest \cup {s}) \in Nat
  <2>1. Used' \in SUBSET (Rest \cup {s})
    BY <1>3
  <2>2. IsFiniteSet(Used') /\ Cardinality(Used') <= Cardinality(Rest \cup {s})
    BY <1>5, <2>1, FS_Subset
  <2> QED BY <1>5, <2>2, FS_CardinalityType
<1> QED BY <1>4, <1>5, <1>6, BoundsAssumption

(***************************************************************************)
(* No step leaves the types, and the cache keeps to its slots.             *)
(***************************************************************************)
LEMMA TypeStep ==
    ASSUME PInv, [Next]_vars
    PROVE  TypeOK' /\ IsFiniteSet(Used')
<1> DEFINE Slim == IsFiniteSet(Used') /\ Cardinality(Used') <= Slots
<1>0. TypeOK /\ Building
  BY DEF PInv
<1>a. ASSUME UNCHANGED cache PROVE Slim
  <2>1. Used' \subseteq Used
    BY <1>a DEF Used
  <2> QED BY <2>1, FewerUsed
<1>b. ASSUME cache' = NoViews
      PROVE  Slim /\ cache' \in [Rels \X Versions -> Contents \cup {Missing}]
  BY <1>b, NoneUsed DEF NoViews
<1>c. ASSUME Forget
      PROVE  /\ Slim /\ pc' = "down"
             /\ owned' \in [Rels -> BOOLEAN] /\ rev' \in [Rels -> 0..MaxRev]
             /\ saved' \in [Rels -> {NONE} \cup 0..MaxRev] /\ stage' \in [Rels -> {NONE} \cup 0..MaxRev]
             /\ snap' = 0 /\ tmp' = Missing /\ todo' = {}
             /\ cache' \in [Rels \X Versions -> Contents \cup {Missing}]
  BY <1>b, <1>c, BoundsAssumption DEF Forget
<1> USE BoundsAssumption, MissingAssumption DEF relVars
<1>1. CASE Open
  BY <1>0, <1>1, <1>b DEF Open, TypeOK, NONE, Used
<1>2. CASE Close \/ Kill
  <2>1. Forget /\ UNCHANGED <<mem, current, dirs, harmed>> /\ live' \in [Rels -> Contents \cup {Missing}]
    BY <1>0, <1>2 DEF Close, Kill, TypeOK
  <2> QED BY <1>0, <2>1, <1>c DEF TypeOK, Used
<1>3. CASE PowerLoss
  <2>1. PICK lost \in SUBSET {v \in Present(dirs) : v >= current} :
          /\ dirs' = [v \in Versions |->
                        IF v \in lost THEN [dirs[v] EXCEPT !.manifest = FALSE] ELSE dirs[v]]
          /\ harmed' = harmed \cup lost
    BY <1>3 DEF PowerLoss
  <2>2. \A d \in Dirs : [d EXCEPT !.manifest = FALSE] \in Dirs
    BY DEF Dirs
  <2>3. \A v \in lost : v \in Versions /\ dirs[v] \in Dirs
    BY <1>0 DEF Present, TypeOK
  <2>4. dirs' \in [Versions -> Dirs \cup {Missing}] /\ harmed' \subseteq Versions
    BY <1>0, <2>1, <2>2, <2>3 DEF TypeOK
  <2> QED BY <1>0, <1>3, <2>4, <1>c DEF PowerLoss, TypeOK, Used
<1>4. ASSUME NEW r \in Rels, NEW c \in Contents, Mutate(r, c)
      PROVE  TypeOK' /\ IsFiniteSet(Used')
  BY <1>0, <1>4, <1>a DEF Mutate, TypeOK, Used
<1>5. CASE PublishSnapshot \/ PublishIfNeeded
  <2>1. Begin /\ pc = "idle"
    BY <1>5 DEF PublishSnapshot, PublishIfNeeded
  <2>2. tmp' \in Dirs
    BY <2>1 DEF Begin, NoFiles, Dirs
  <2> QED BY <1>0, <2>1, <2>2, <1>a DEF Begin, TypeOK, Used
<1>6. CASE SkipPublish
  <2>1. Used' \subseteq Used
    BY <1>0, <1>6 DEF SkipPublish, DropViews, Used, TypeOK
  <2>2. cache' \in [Rels \X Versions -> Contents \cup {Missing}]
    BY <1>0, <1>6 DEF SkipPublish, DropViews, TypeOK
  <2> QED BY <1>0, <1>6, <2>1, <2>2, FewerUsed DEF SkipPublish, Prune, TypeOK, Used
<1>7. ASSUME NEW r \in Rels, SaveRel(r)
      PROVE  TypeOK' /\ IsFiniteSet(Used')
  <2>1. SavedFile(r) \in Contents \cup {Missing}
    <3>1. PrevFile(r) \in Contents \cup {Missing}
      BY <1>0 DEF PrevFile, TypeOK, Dirs, Versions
    <3> QED BY <1>0, <3>1 DEF SavedFile, TypeOK
  <2>2. tmp' \in Dirs
    BY <1>0, <1>7, <2>1 DEF SaveRel, TypeOK, Dirs, Building
  <2>3. stage' \in [Rels -> {NONE} \cup 0..MaxRev]
    BY <1>0, <1>7 DEF SaveRel, StagedRev, TypeOK
  <2> QED BY <1>0, <1>7, <1>a, <2>2, <2>3 DEF SaveRel, TypeOK, Used
<1>8. CASE SyncTmp
  BY <1>0, <1>8, <1>a DEF SyncTmp, TypeOK, Dirs, Building, Used
<1>9. CASE Rename
  BY <1>0, <1>9, <1>a DEF Rename, TypeOK, NewVersion, Used
<1>10. CASE Flip
  BY <1>0, <1>10, <1>a DEF Flip, TypeOK, NewVersion, Used, Building
<1>11. CASE Commit
  BY <1>0, <1>11, <1>b DEF Commit, TypeOK, NewVersion, Used, Building, Prune
<1>12. CASE Fail
  <2>1. current' \in 0..MaxVersion /\ harmed' \subseteq Versions
    BY <1>0, <1>12 DEF Fail, TypeOK, NewVersion, Building, Versions
  <2> QED BY <1>0, <1>12, <1>a, <2>1 DEF Fail, TypeOK, Used, NONE
<1>13. ASSUME NEW r \in Rels, NEW v \in Versions, OpenView(r, v)
       PROVE  TypeOK' /\ IsFiniteSet(Used')
  <2>1. cache' \in [Rels \X Versions -> Contents \cup {Missing}]
    BY <1>0, <1>13 DEF OpenView, TypeOK, Dirs
  <2> QED BY <1>0, <1>13, <2>1, OneMoreUsed DEF OpenView, TypeOK, Used
<1>14. CASE UNCHANGED vars
  BY <1>0, <1>14, <1>a DEF vars, TypeOK, Used
<1> QED
  BY <1>1, <1>2, <1>3, <1>4, <1>5, <1>6, <1>7, <1>8, <1>9, <1>10, <1>11, <1>12, <1>13, <1>14
  DEF Next

(***************************************************************************)
(* What relSaveGated puts into the new directory is what the relation      *)
(* holds, whichever of the three ways it takes.                            *)
(***************************************************************************)
LEMMA SavedIsMem ==
    ASSUME PInv, pc = "build", NEW r \in Rels
    PROVE  SavedFile(r) = mem[r]
<1>1. ~owned[r] => live[r] = mem[r]
  BY DEF PInv, TypeOK
<1>2. snap # 0 /\ rev[r] = saved[r] /\ PrevFile(r) # Missing => PrevFile(r) = mem[r]
  BY DEF PInv, Marks, PrevFile
<1> QED BY <1>1, <1>2 DEF SavedFile

(***************************************************************************)
(* A prune only removes directories.                                       *)
(***************************************************************************)
LEMMA PruneKeeps ==
    ASSUME PInv, dirs' = Prune(dirs)
    PROVE  \A v \in Present(dirs)' : v \in Present(dirs) /\ dirs'[v] = dirs[v]
  BY DEF PInv, TypeOK, Prune, Present

(***************************************************************************)
(* Opening, writing and the end of a process keep the invariant.           *)
(***************************************************************************)
LEMMA ProcessKeeps ==
    ASSUME PInv, TypeOK', IsFiniteSet(Used'),
           \/ Open \/ Close \/ Kill \/ PowerLoss
           \/ \E r \in Rels, c \in Contents : Mutate(r, c)
    PROVE  PInv'
<1>0. TypeOK /\ Building /\ Chain /\ Orphans /\ Marks /\ Whole /\ Mapped
  BY DEF PInv
<1> USE BoundsAssumption, MissingAssumption DEF NewVersion, Image, Present
<1>1. CASE Open
  <2>1. Building' /\ Chain' /\ Orphans'
    BY <1>0, <1>1 DEF Open, Building, Chain, Orphans
  <2>2. Marks'
    BY <1>0, <1>1 DEF Open, Marks, TypeOK, NONE
  <2>3. Whole' /\ Mapped'
    BY <1>0, <1>1 DEF Open, Whole, Mapped, NoViews
  <2> QED BY <2>1, <2>2, <2>3 DEF PInv
<1>2. CASE Close \/ Kill
  <2>1. Forget /\ UNCHANGED <<mem, current, dirs, harmed>>
    BY <1>2 DEF Close, Kill
  <2>2. Building' /\ Chain' /\ Orphans'
    BY <1>0, <2>1 DEF Forget, Building, Chain, Orphans
  <2>3. Marks'
    BY <2>1 DEF Forget, Marks, NONE
  <2>4. Whole' /\ Mapped'
    BY <1>0, <2>1 DEF Forget, Whole, Mapped, NoViews
  <2> QED BY <2>2, <2>3, <2>4 DEF PInv
<1>3. CASE PowerLoss
  <2>1. PICK lost \in SUBSET {v \in Present(dirs) : v >= current} :
          /\ dirs' = [v \in Versions |->
                        IF v \in lost THEN [dirs[v] EXCEPT !.manifest = FALSE] ELSE dirs[v]]
          /\ harmed' = harmed \cup lost
    BY <1>3 DEF PowerLoss
  <2>2. Forget /\ UNCHANGED <<mem, current>>
    BY <1>3 DEF PowerLoss
  <2>3. \A v \in Versions : dirs[v] # Missing => dirs[v] \in Dirs
    BY <1>0 DEF TypeOK
  <2>4. \A v \in Present(dirs)' :
          /\ v \in Present(dirs)
          /\ dirs'[v].file = dirs[v].file
          /\ dirs'[v].manifest <=> dirs[v].manifest /\ v \notin lost
    BY <2>1, <2>3 DEF Dirs
  <2>5. Building' /\ Chain'
    BY <1>0, <2>2 DEF Forget, Building, Chain
  <2>6. Orphans'
    BY <1>0, <2>2, <2>4 DEF Forget, Orphans
  <2>7. Marks'
    BY <2>2 DEF Forget, Marks, NONE
  <2>8. Whole'
    BY <1>0, <2>1, <2>4 DEF Whole
  <2>9. Mapped'
    BY <2>2 DEF Forget, Mapped, NoViews
  <2> QED BY <2>5, <2>6, <2>7, <2>8, <2>9 DEF PInv
<1>4. ASSUME NEW r \in Rels, NEW c \in Contents, Mutate(r, c)
      PROVE  PInv'
  <2>1. Building' /\ Chain' /\ Orphans' /\ Whole' /\ Mapped'
    BY <1>0, <1>4 DEF Mutate, Building, Chain, Orphans, Whole, Mapped
  <2>2. Marks'
    BY <1>0, <1>4 DEF Mutate, Marks, TypeOK, NONE
  <2> QED BY <2>1, <2>2 DEF PInv
<1> QED BY <1>1, <1>2, <1>3, <1>4

(***************************************************************************)
(* The steps of materializeSnapshot keep the invariant.                    *)
(***************************************************************************)
LEMMA PublishKeeps ==
    ASSUME PInv, TypeOK', IsFiniteSet(Used'),
           \/ PublishSnapshot \/ PublishIfNeeded \/ SyncTmp \/ Rename \/ Flip \/ Commit \/ Fail
           \/ \E r \in Rels : SaveRel(r)
    PROVE  PInv'
<1>0. TypeOK /\ Building /\ Chain /\ Orphans /\ Marks /\ Whole /\ Mapped
  BY DEF PInv
<1> USE BoundsAssumption, MissingAssumption DEF NewVersion, Image, Present, relVars
<1>1. CASE PublishSnapshot \/ PublishIfNeeded
  <2>1. Begin /\ pc = "idle"
    BY <1>1 DEF PublishSnapshot, PublishIfNeeded
  <2>2. tmp' # Missing
    <3>1. tmp' \in Dirs
      BY <2>1 DEF Begin, Dirs, NoFiles
    <3> QED BY <3>1
  <2>3. Building'
    BY <1>0, <2>1, <2>2 DEF Begin, Building
  <2>4. Marks'
    BY <1>0, <2>1 DEF Begin, Marks, TypeOK, NONE
  <2>5. Chain' /\ Orphans' /\ Whole' /\ Mapped'
    BY <1>0, <2>1 DEF Begin, Chain, Orphans, Whole, Mapped
  <2> QED BY <2>3, <2>4, <2>5 DEF PInv
<1>2. ASSUME NEW r \in Rels, SaveRel(r)
      PROVE  PInv'
  <2>1. pc = "build" /\ tmp \in Dirs /\ tmp' = [tmp EXCEPT !.file[r] = mem[r]]
    BY <1>0, <1>2, SavedIsMem DEF SaveRel, TypeOK, Building
  <2>2. /\ tmp' \in Dirs /\ tmp'.file[r] = mem[r]
        /\ \A q \in Rels \ {r} : tmp'.file[q] = tmp.file[q]
    BY <1>0, <2>1 DEF Dirs, TypeOK
  <2>3. Building'
    BY <1>0, <1>2, <2>1, <2>2 DEF SaveRel, Building
  <2>4. Marks'
    BY <1>0, <1>2 DEF SaveRel, StagedRev, Marks, TypeOK, NONE
  <2>5. Chain' /\ Orphans' /\ Whole' /\ Mapped'
    BY <1>0, <1>2 DEF SaveRel, Chain, Orphans, Whole, Mapped
  <2> QED BY <2>3, <2>4, <2>5 DEF PInv
<1>3. CASE SyncTmp
  <2>1. tmp \in Dirs /\ \A r \in Rels : tmp.file[r] = mem[r]
    BY <1>0, <1>3 DEF SyncTmp, Building, TypeOK
  <2>2. tmp.file = mem
    BY <1>0, <2>1 DEF Dirs, TypeOK
  <2>3. tmp' = Image
    BY <1>3, <2>1, <2>2 DEF SyncTmp, Dirs
  <2>4. Building'
    BY <1>0, <1>3, <2>3 DEF SyncTmp, Building
  <2>5. Chain' /\ Orphans' /\ Whole' /\ Mapped' /\ Marks'
    BY <1>0, <1>3 DEF SyncTmp, Chain, Orphans, Whole, Mapped, Marks
  <2> QED BY <2>4, <2>5 DEF PInv
<1>4. CASE Rename
  <2>0. tmp = Image /\ NewVersion \in Versions /\ snap \in Nat
    BY <1>0, <1>4 DEF Rename, Building, TypeOK, Versions
  <2>1. /\ NewVersion \in Versions /\ snap \in Nat /\ dirs' = [dirs EXCEPT ![NewVersion] = Image]
        /\ harmed' = harmed \ {NewVersion} /\ pc = "built" /\ pc' = "renamed"
        /\ UNCHANGED <<mem, live, owned, rev, saved, stage, snap, current, todo, cache>>
    <3> HIDE DEF NewVersion, Image
    <3> QED BY <1>4, <2>0 DEF Rename
  <2>2. /\ dirs'[NewVersion] = Image
        /\ \A v \in Versions \ {NewVersion} : dirs'[v] = dirs[v]
    BY <1>0, <2>1 DEF TypeOK
  <2>3. Building'
    BY <1>0, <2>1, <2>2 DEF Building
  <2>4. Chain' /\ Orphans'
    BY <1>0, <2>1, <2>2 DEF Chain, Orphans, TypeOK, Versions
  <2>5. Marks'
    BY <1>0, <2>1, <2>2 DEF Marks, TypeOK, Versions
  <2>6. Whole'
    BY <1>0, <2>1, <2>2 DEF Whole, TypeOK
  <2>7. Mapped'
    BY <1>0, <2>1, <2>2 DEF Mapped
  <2> QED BY <2>3, <2>4, <2>5, <2>6, <2>7 DEF PInv
<1>5. CASE Flip
  <2>1. Building' /\ Chain' /\ Marks' /\ Whole' /\ Mapped'
    BY <1>0, <1>5 DEF Flip, Building, Chain, Marks, Whole, Mapped
  <2>2. Orphans'
    BY <1>0, <1>5 DEF Flip, Orphans, Chain, TypeOK, Versions
  <2> QED BY <2>1, <2>2 DEF PInv
<1>6. CASE Commit
  <2>1. \A v \in Present(dirs)' : v \in Present(dirs) /\ dirs'[v] = dirs[v]
    BY <1>6, PruneKeeps DEF Commit
  <2>2. /\ snap' = current /\ UNCHANGED <<mem, rev, current, harmed>> /\ saved' = stage
        /\ stage' = [r \in Rels |-> NONE] /\ cache' = NoViews /\ pc' = "idle"
        /\ dirs[NewVersion] = Image /\ snap' = NewVersion /\ NewVersion \in Versions
    BY <1>0, <1>6 DEF Commit, Building, Chain, TypeOK, Versions
  <2>3. Building' /\ Chain'
    BY <2>2 DEF Building, Chain
  <2>4. Orphans'
    BY <1>0, <2>1, <2>2 DEF Orphans
  <2>5. Marks'
    BY <1>0, <2>1, <2>2 DEF Marks, TypeOK, NONE
  <2>6. Whole'
    BY <1>0, <2>1, <2>2 DEF Whole
  <2>7. Mapped'
    BY <2>2 DEF Mapped, NoViews
  <2> QED BY <2>3, <2>4, <2>5, <2>6, <2>7 DEF PInv
<1>7. CASE Fail /\ pc # "renamed"
  <2>1. /\ pc \in {"build", "built"} /\ pc' = "idle" /\ stage' = [r \in Rels |-> NONE]
        /\ UNCHANGED <<mem, rev, saved, snap, current, dirs, harmed, cache>>
    BY <1>7 DEF Fail
  <2>2. Building' /\ Chain' /\ Orphans' /\ Whole' /\ Mapped'
    BY <1>0, <2>1 DEF Building, Chain, Orphans, Whole, Mapped
  <2>3. Marks'
    BY <1>0, <2>1 DEF Marks, TypeOK, NONE
  <2> QED BY <2>2, <2>3 DEF PInv
<1>8. CASE Fail /\ pc = "renamed"
  <2>1. /\ pc' = "idle" /\ stage' = [r \in Rels |-> NONE]
        /\ UNCHANGED <<mem, rev, saved, snap, cache>>
        /\ dirs' = [dirs EXCEPT ![NewVersion] = Missing]
        /\ current' \in {current, NewVersion}
        /\ harmed' = IF current' = NewVersion THEN harmed \cup {NewVersion} ELSE harmed
        /\ NewVersion \in Versions /\ snap \in Nat /\ current \in Nat
    BY <1>0, <1>8 DEF Fail, Building, TypeOK, Versions
  <2>2. \A v \in Present(dirs)' : v \in Present(dirs) /\ v # NewVersion /\ dirs'[v] = dirs[v]
    BY <1>0, <2>1 DEF TypeOK
  <2>3. Building' /\ Chain'
    BY <1>0, <1>8, <2>1 DEF Building, Chain
  <2>4. Orphans'
    BY <1>0, <1>8, <2>1, <2>2 DEF Orphans, Chain, Versions
  <2>5. Marks'
    BY <1>0, <2>1 DEF Marks, TypeOK, NONE, Versions
  <2>6. Whole'
    BY <1>0, <2>1, <2>2 DEF Whole
  <2>7. Mapped'
    BY <1>0, <2>1, <2>2 DEF Mapped
  <2> QED BY <2>3, <2>4, <2>5, <2>6, <2>7 DEF PInv
<1> QED BY <1>1, <1>2, <1>3, <1>4, <1>5, <1>6, <1>7, <1>8

(***************************************************************************)
(* A publish that is skipped, and a query, keep the invariant.             *)
(***************************************************************************)
LEMMA ReadKeeps ==
    ASSUME PInv, TypeOK', IsFiniteSet(Used'),
           SkipPublish \/ \E r \in Rels, v \in Versions : OpenView(r, v)
    PROVE  PInv'
<1>0. TypeOK /\ Building /\ Chain /\ Orphans /\ Marks /\ Whole /\ Mapped
  BY DEF PInv
<1> USE DEF relVars
<1>1. CASE SkipPublish
  <2>1. \A v \in Present(dirs)' : v \in Present(dirs) /\ dirs'[v] = dirs[v]
    BY <1>1, PruneKeeps DEF SkipPublish
  <2>2. UNCHANGED <<mem, rev, saved, stage, snap, current, tmp, todo, pc, harmed>> /\ pc = "idle"
    BY <1>1 DEF SkipPublish
  <2>3. \A r \in Rels, v \in Versions : cache'[<<r, v>>] \in {Missing, cache[<<r, v>>]}
    BY <1>0, <1>1 DEF SkipPublish, DropViews, TypeOK
  <2>4. snap \in 0..MaxVersion
    BY <1>0 DEF TypeOK
  <2>5. Building' /\ Chain' /\ Orphans' /\ Whole'
    BY <1>0, <2>1, <2>2 DEF Building, Chain, Orphans, Whole, NewVersion
  <2>6. Marks'
    BY <1>0, <2>1, <2>2, <2>4, BoundsAssumption DEF Marks, Present, Versions
  <2>7. Mapped'
    BY <1>0, <2>1, <2>2, <2>3 DEF Mapped, Present
  <2> QED BY <2>5, <2>6, <2>7 DEF PInv
<1>2. ASSUME NEW r \in Rels, NEW v \in Versions, OpenView(r, v)
      PROVE  PInv'
  <2>1. UNCHANGED <<mem, rev, saved, stage, snap, current, dirs, tmp, todo, pc, harmed>> /\ pc = "idle"
    BY <1>2 DEF OpenView
  <2>2. Building' /\ Chain' /\ Orphans' /\ Whole' /\ Marks'
    BY <1>0, <2>1 DEF Building, Chain, Orphans, Whole, Marks, NewVersion, Image
  <2>3. \A q \in Rels, w \in Versions :
          cache'[<<q, w>>] \in {Missing, cache[<<q, w>>]} \/ cache'[<<q, w>>] = dirs[w].file[q]
    <3>1. PICK victim \in Rels \X Versions :
            cache' = [cache EXCEPT ![victim] = Missing, ![<<r, v>>] = dirs[v].file[r]]
      BY <1>0, <1>2 DEF OpenView, TypeOK
    <3> QED BY <1>0, <3>1 DEF TypeOK
  <2>4. Mapped'
    BY <1>0, <2>1, <2>3 DEF Mapped, Present
  <2> QED BY <2>2, <2>4 DEF PInv
<1> QED BY <1>1, <1>2

(***************************************************************************)
(* The inductive invariant holds throughout, with it the types and the     *)
(* bound of the view cache.                                                *)
(***************************************************************************)
THEOREM PublishInvariant == Spec => []PInv
<1>1. PInv /\ [Next]_vars => PInv'
  <2> SUFFICES ASSUME PInv, [Next]_vars PROVE PInv'
    OBVIOUS
  <2>1. TypeOK' /\ IsFiniteSet(Used')
    BY TypeStep
  <2>2. CASE UNCHANGED vars
    BY <2>1, <2>2 DEF vars, PInv, Building, Chain, Orphans, Marks, Whole, Mapped, Present, NewVersion, Image
  <2> QED BY <2>1, <2>2, ProcessKeeps, PublishKeeps, ReadKeeps DEF Next
<1> QED BY <1>1, PublishInit, PTL DEF Spec

(***************************************************************************)
(* The cache keeps to its slots, files and versions to their types.        *)
(***************************************************************************)
THEOREM PublishTypeCorrect == Spec => []TypeOK
<1>1. PInv => TypeOK
  BY DEF PInv
<1> QED BY <1>1, PublishInvariant, PTL

(***************************************************************************)
(* dl_publish_if_needed skips only what is published already: a watermark  *)
(* equals the revision only if the previous version has the content, also  *)
(* after publishes that failed.                                            *)
(***************************************************************************)
THEOREM SkipsAreSound == Spec => []SkipIsSound
<1>1. PInv => SkipIsSound
  <2> SUFFICES ASSUME PInv, pc = "idle", StoreIsCurrent
               PROVE  Contract!StoreIsCurrent
    BY DEF SkipIsSound
  <2>1. /\ current = snap /\ snap # 0 /\ snap \in Versions
        /\ dirs[snap] # Missing /\ dirs[snap].manifest
    BY BoundsAssumption DEF StoreIsCurrent, PInv, TypeOK, Versions
  <2>2. snap \notin harmed /\ dirs[snap].file \in [Rels -> Contents]
    BY <2>1 DEF PInv, Whole, Present
  <2>3. ASSUME NEW r \in Rels PROVE dirs[snap].file[r] = mem[r]
    <3>1. PrevFile(r) = dirs[snap].file[r]
      BY <2>1 DEF PrevFile
    <3>2. CASE ~owned[r] /\ live[r] # Missing
      <4>1. live[r] = PrevFile(r) /\ pc # "down"
        BY <3>2, Zenon DEF StoreIsCurrent
      <4> QED BY <3>1, <3>2, <4>1 DEF PInv, TypeOK
    <3>3. CASE ~(~owned[r] /\ live[r] # Missing)
      BY <2>1, <3>1, <3>3 DEF StoreIsCurrent, PInv, Marks
    <3> QED BY <3>2, <3>3
  <2>4. dirs[snap].file # Missing
    BY <2>2, MissingAssumption
  <2>5. \A r \in Rels : Contract!AsOf(snap, r) = dirs[snap].file[r]
    BY <2>1, <2>2, <2>4, BoundsAssumption DEF Contract!AsOf, Contract!SnapshotVersions, Versions
  <2> QED BY <2>1, <2>3, <2>5 DEF Contract!StoreIsCurrent
<1> QED BY <1>1, PublishInvariant, PTL

(***************************************************************************)
(* A cached view of a version that is still there shows that version, also *)
(* where a crashed publish had left another directory under its number.    *)
(***************************************************************************)
THEOREM ViewsAreCoherent == Spec => []ViewsCoherent
<1>1. PInv => ViewsCoherent
  <2> SUFFICES ASSUME PInv, pc = "idle", NEW r \in Rels, NEW v \in Contract!SnapshotVersions
               PROVE  cache[<<r, v>>] \in {Missing, Contract!AsOf(v, r)}
    BY DEF ViewsCoherent
  <2>1. v \in Present(dirs) /\ Contract!AsOf(v, r) = dirs[v].file[r]
    BY DEF Contract!SnapshotVersions, Contract!AsOf, Present
  <2> QED BY <2>1 DEF PInv, Mapped
<1> QED BY <1>1, PublishInvariant, PTL

-----------------------------------------------------------------------------
(***************************************************************************)
(* pruneSnapshots counts directories, so an orphan above CURRENT's takes   *)
(* one of the places: CURRENT's own stays if there are two.                *)
(***************************************************************************)
LEMMA CurrentKept ==
    ASSUME PInv, Retain # 1, pc = "flipped" \/ (pc = "idle" /\ snap = current),
           current \in Present(dirs)
    PROVE  current \notin Doomed(dirs)
<1> DEFINE Higher == {w \in Present(dirs) : w > current}
<1>1. current \in Nat /\ snap \in Nat
  BY BoundsAssumption DEF PInv, TypeOK
<1>2. CASE pc = "flipped"
  <2>1. snap # current
    BY <1>1, <1>2 DEF PInv, Chain, NewVersion
  <2>2. Higher = {}
    BY <1>1, <1>2, <2>1 DEF PInv, Orphans, Present, Versions
  <2>3. Cardinality(Higher) = 0
    BY <2>2, FS_EmptySet
  <2> QED BY <2>3, BoundsAssumption DEF Doomed
<1>3. CASE pc = "idle"
  <2>1. Higher \in SUBSET {current + 1}
    BY <1>1 DEF PInv, Orphans, Present, Versions
  <2>2. IsFiniteSet({current + 1}) /\ Cardinality({current + 1}) = 1
    BY FS_Singleton
  <2>3. IsFiniteSet(Higher) /\ Cardinality(Higher) <= 1
    BY <2>1, <2>2, FS_Subset
  <2>4. Cardinality(Higher) \in Nat
    BY <2>3, FS_CardinalityType
  <2> QED BY <2>3, <2>4, BoundsAssumption DEF Doomed
<1> QED BY <1>2, <1>3

(***************************************************************************)
(* Every step keeps CURRENT's directory.                                   *)
(***************************************************************************)
LEMMA CurrentStep ==
    ASSUME PInv, PInv', Retain # 1, CurrentThere, [Next]_vars
    PROVE  CurrentThere'
<1>0. TypeOK /\ TypeOK' /\ Building /\ Chain
  BY DEF PInv
<1> USE BoundsAssumption, MissingAssumption DEF CurrentThere, relVars
<1>1. CASE Open \/ Close \/ Kill
  BY <1>1 DEF Open, Close, Kill
<1>2. CASE PowerLoss
  <2>1. PICK lost \in SUBSET {v \in Present(dirs) : v >= current} :
          /\ dirs' = [v \in Versions |->
                        IF v \in lost THEN [dirs[v] EXCEPT !.manifest = FALSE] ELSE dirs[v]]
          /\ harmed' = harmed \cup lost
    BY <1>2 DEF PowerLoss
  <2>2. current' = current /\ (current # 0 => current \in Versions)
    BY <1>0, <1>2 DEF PowerLoss, TypeOK, Versions
  <2> QED BY <2>1, <2>2
<1>3. CASE \E r \in Rels, c \in Contents : Mutate(r, c)
  BY <1>3 DEF Mutate
<1>4. CASE PublishSnapshot \/ PublishIfNeeded \/ SyncTmp \/ \E r \in Rels : SaveRel(r)
  BY <1>4 DEF PublishSnapshot, PublishIfNeeded, Begin, SyncTmp, SaveRel
<1>5. CASE Rename
  <2>1. tmp # Missing
    <3>1. Image \in Dirs
      BY <1>0 DEF Image, Dirs, TypeOK
    <3> QED BY <1>0, <1>5, <3>1 DEF Rename, Building
  <2> QED BY <1>0, <1>5, <2>1 DEF Rename, TypeOK, Building, NewVersion, Versions
<1>6. CASE Flip
  <2>1. Image \in Dirs
    BY <1>0 DEF Image, Dirs, TypeOK
  <2>2. current' = NewVersion /\ dirs' = dirs /\ dirs[NewVersion] = Image
    BY <1>0, <1>6 DEF Flip, Building
  <2> QED BY <2>1, <2>2
<1>7. CASE Commit \/ SkipPublish
  <2>1. /\ dirs' = Prune(dirs) /\ UNCHANGED <<current, harmed>>
        /\ pc = "flipped" \/ (pc = "idle" /\ snap = current)
    BY <1>7 DEF Commit, SkipPublish, StoreIsCurrent
  <2>2. current # 0 => current \in Versions
    BY <1>0 DEF TypeOK, Versions
  <2> QED BY <2>1, <2>2, CurrentKept DEF Prune, Present
<1>8. CASE Fail
  <2>1. CASE pc = "renamed"
    BY <1>0, <1>8, <2>1 DEF Fail, TypeOK, Building, NewVersion, Versions
  <2>2. CASE pc # "renamed"
    BY <1>8, <2>2 DEF Fail
  <2> QED BY <2>1, <2>2
<1>9. CASE \E r \in Rels, v \in Versions : OpenView(r, v)
  BY <1>9 DEF OpenView
<1>10. CASE UNCHANGED vars
  BY <1>10 DEF vars
<1> QED BY <1>1, <1>2, <1>3, <1>4, <1>5, <1>6, <1>7, <1>8, <1>9, <1>10 DEF Next

(***************************************************************************)
(* Outside the harmed versions CURRENT always names a directory with its   *)
(* manifest and a file for every relation, when every version is kept or   *)
(* at least two are: with one, a skipped publish beside the directory of a *)
(* crashed one removes CURRENT's (pruneSnapshots).                         *)
(***************************************************************************)
THEOREM CurrentIsComplete ==
    ASSUME Retain # 1
    PROVE  Spec => []CurrentComplete
<1>1. PInv /\ PInv' /\ CurrentThere /\ [Next]_vars => CurrentThere'
  BY CurrentStep
<1>2. PInv /\ CurrentThere => CurrentComplete
  <2> SUFFICES ASSUME PInv, CurrentThere, current # 0, current \notin harmed
               PROVE  /\ dirs[current] # Missing /\ dirs[current].manifest
                      /\ Contract!SnapshotRelations(current) = Rels
    BY DEF CurrentComplete
  <2>1. current \in Versions /\ current \in Present(dirs)
    BY BoundsAssumption DEF PInv, TypeOK, Versions, CurrentThere, Present
  <2>2. dirs[current].manifest /\ dirs[current].file \in [Rels -> Contents]
    BY <2>1 DEF PInv, Whole
  <2>3. dirs[current].file # Missing
    BY <2>2, MissingAssumption
  <2>4. \A r \in Rels : Contract!AsOf(current, r) = dirs[current].file[r]
    BY <2>1, <2>3, BoundsAssumption DEF Contract!AsOf, Contract!SnapshotVersions, Present, Versions
  <2>5. Contract!SnapshotRelations(current) = Rels
    BY <2>2, <2>4, MissingAssumption DEF Contract!SnapshotRelations
  <2> QED BY <2>1, <2>2, <2>5 DEF Present
<1> QED BY <1>1, <1>2, PublishInit, PublishInvariant, PTL DEF Spec

-----------------------------------------------------------------------------
(***************************************************************************)
(* The state of SnapshotContract: the versions up to CURRENT's that can be *)
(* read, and the harmed ones among them.                                   *)
(***************************************************************************)
Shown == [v \in Versions |-> IF v <= current /\ v \notin harmed /\ dirs[v] # Missing
                             THEN dirs[v].file ELSE Missing]

Hurt == {v \in harmed : v <= current}

(***************************************************************************)
(* A set of naturals has a least element.                                  *)
(***************************************************************************)
LEMMA LeastElement ==
    ASSUME NEW T \in SUBSET Nat, T # {}
    PROVE  \E x \in T : \A y \in T : x <= y
<1> DEFINE R == OpToRel(<, Nat)
<1>1. \A x, y \in Nat : x < y => <<x, y>> \in R
  BY DEF OpToRel
<1>2. IsWellFoundedOn(R, Nat)
  BY NatLessThanWellFounded
<1> HIDE DEF R
<1>3. PICK x \in T : \A y \in T : ~(<<y, x>> \in R)
  BY <1>2, WFMin
<1>4. ASSUME NEW y \in T PROVE x <= y
  <2>1. x \in Nat /\ y \in Nat /\ <<y, x>> \notin R
    BY <1>3
  <2>2. ~(y < x)
    BY <1>1, <2>1
  <2> QED BY <2>1, <2>2
<1> QED BY <1>4

(***************************************************************************)
(* The directories a prune keeps are the highest, from some version not    *)
(* above CURRENT on, and at most Retain of them.                           *)
(***************************************************************************)
LEMMA PruneFromBelow ==
    ASSUME PInv, Retain > 0, current \in Present(dirs), current \notin Doomed(dirs)
    PROVE  \E low \in 1..current :
             /\ \A v \in Present(dirs) : v \in Doomed(dirs) <=> v < low
             /\ \A S \in SUBSET (Present(dirs) \ Doomed(dirs)) : Cardinality(S) <= Retain
<1> DEFINE P == Present(dirs)
           Kept == P \ Doomed(dirs)
           Above(v) == {w \in P : w > v}
<1>1. P \subseteq Nat /\ \A v \in P : v >= 1 /\ v \in Int
  BY DEF Present, Versions
<1>2. IsFiniteSet(P)
  <2>1. IsFiniteSet(1..MaxVersion)
    BY FS_Interval, BoundsAssumption
  <2>2. P \in SUBSET (1..MaxVersion)
    BY DEF Present, Versions
  <2> QED BY <2>1, <2>2, FS_Subset
<1>3. PICK low \in Kept : \A v \in Kept : low <= v
  <2>1. Kept \in SUBSET Nat /\ Kept # {}
    BY <1>1
  <2> QED BY <2>1, LeastElement
<1>4. \A v \in P : /\ IsFiniteSet(Above(v)) /\ Cardinality(Above(v)) \in Nat
                   /\ v \in Doomed(dirs) <=> Cardinality(Above(v)) >= Retain
  <2>1. \A v \in P : IsFiniteSet(Above(v))
    BY <1>2, FS_Subset
  <2>2. \A v \in P : Cardinality(Above(v)) \in Nat
    BY <2>1, FS_CardinalityType
  <2> QED BY <2>1, <2>2, BoundsAssumption DEF Doomed
<1>5. Cardinality(Above(low)) < Retain
  BY <1>3, <1>4, BoundsAssumption
<1>6. ASSUME NEW v \in P PROVE v \in Doomed(dirs) <=> v < low
  <2>1. CASE v < low
    BY <1>1, <1>3, <2>1
  <2>2. CASE ~(v < low)
    <3>1. Above(v) \in SUBSET Above(low)
      BY <1>1, <1>3, <2>2
    <3>2. Cardinality(Above(v)) <= Cardinality(Above(low))
      BY <1>3, <1>4, <3>1, FS_Subset
    <3> HIDE DEF Above
    <3> QED BY <1>3, <1>4, <1>5, <2>2, <3>2, BoundsAssumption
  <2> QED BY <2>1, <2>2
<1>7. ASSUME NEW S \in SUBSET Kept PROVE Cardinality(S) <= Retain
  <2> DEFINE Top == Above(low) \cup {low}
  <2>1. S \in SUBSET Top
    BY <1>1, <1>3
  <2>2. IsFiniteSet(Above(low)) /\ Cardinality(Above(low)) \in Nat
    BY <1>3, <1>4
  <2> HIDE DEF Above
  <2>3. /\ IsFiniteSet(Top)
        /\ Cardinality(Top) = IF low \in Above(low) THEN Cardinality(Above(low)) ELSE Cardinality(Above(low)) + 1
    BY <2>2, FS_AddElement
  <2>4. Cardinality(Top) <= Retain /\ Cardinality(Top) \in Nat
    BY <1>5, <2>2, <2>3, BoundsAssumption
  <2>5. IsFiniteSet(S) /\ Cardinality(S) <= Cardinality(Top)
    <3> HIDE DEF Top
    <3> QED BY <2>1, <2>3, FS_Subset
  <2>6. Cardinality(S) \in Nat
    BY <2>5, FS_CardinalityType
  <2> QED BY <2>4, <2>5, <2>6, BoundsAssumption
<1>8. low \in 1..current
  <2>1. current \in Kept
    OBVIOUS
  <2> QED BY <1>1, <1>3, <2>1
<1> QED BY <1>6, <1>7, <1>8

(***************************************************************************)
(* A step of publishing is a step of SnapshotContract, or changes none of  *)
(* its variables: the new version appears with the flip of CURRENT, or     *)
(* with the rename if CURRENT names it already.                            *)
(***************************************************************************)
LEMMA SnapshotStep ==
    ASSUME PInv, CurrentThere, Retain # 1, [Next]_vars
    PROVE  [Contract!Next]_(Contract!vars)
<1>0. TypeOK /\ Building /\ Chain /\ Orphans /\ Whole
  BY DEF PInv
<1>a. /\ current \in Nat /\ snap \in Nat /\ current <= MaxVersion
      /\ \A v \in Nat : v \in Versions <=> 1 <= v /\ v <= MaxVersion
      /\ Versions \subseteq Nat /\ harmed \subseteq Nat
  BY <1>0, BoundsAssumption DEF TypeOK, Versions
<1>b. mem # Missing /\ Image \in Dirs /\ Image # Missing /\ Image.file = mem
  <2>1. mem \in [Rels -> Contents]
    BY <1>0 DEF TypeOK
  <2>2. Image \in Dirs /\ Image.file = mem
    BY <2>1 DEF Image, Dirs
  <2> QED BY <2>1, <2>2, MissingAssumption
<1>c. /\ \A v \in Versions : Shown[v] = IF v <= current /\ v \notin harmed /\ dirs[v] # Missing
                                      THEN dirs[v].file ELSE Missing
      /\ \A v \in Versions : Shown'[v] = IF v <= current' /\ v \notin harmed' /\ dirs'[v] # Missing
                                      THEN dirs'[v].file ELSE Missing
  BY DEF Shown
<1>d. ASSUME NEW k \in Versions, NEW x,
             Shown'[k] = x, \A v \in Versions \ {k} : Shown'[v] = Shown[v]
      PROVE  Shown' = [Shown EXCEPT ![k] = x]
  BY <1>d DEF Shown
<1> DEFINE Same == UNCHANGED <<mem, Shown, current, Hurt>>
<1>t. ASSUME Same PROVE [Contract!Next]_(Contract!vars)
  BY <1>t DEF Contract!vars, Shown, Hurt
<1>s. ASSUME UNCHANGED <<mem, current, dirs, harmed>> PROVE Same
  BY <1>s DEF Shown, Hurt
<1> USE DEF relVars
<1>1. CASE Open \/ Close \/ Kill \/ SyncTmp \/ PublishSnapshot \/ PublishIfNeeded
  <2>1. UNCHANGED <<mem, current, dirs, harmed>>
    BY <1>1 DEF Open, Close, Kill, SyncTmp, PublishSnapshot, PublishIfNeeded, Begin
  <2> QED BY <2>1, <1>s, <1>t
<1>2. CASE \/ \E r \in Rels : SaveRel(r)
           \/ \E r \in Rels, v \in Versions : OpenView(r, v)
  <2>1. UNCHANGED <<mem, current, dirs, harmed>>
    BY <1>2 DEF SaveRel, OpenView
  <2> QED BY <2>1, <1>s, <1>t
<1>3. ASSUME NEW r \in Rels, NEW c \in Contents, Mutate(r, c)
      PROVE  [Contract!Next]_(Contract!vars)
  <2>1. mem' = [mem EXCEPT ![r] = c] /\ UNCHANGED <<Shown, current, Hurt>>
    BY <1>3 DEF Mutate, Shown, Hurt
  <2>2. Contract!Write(r, c)
    BY <2>1 DEF Contract!Write, Shown, Hurt
  <2> QED BY <2>2 DEF Contract!Next
<1>4. CASE PowerLoss
  <2>1. PICK lost \in SUBSET {v \in Present(dirs) : v >= current} :
          /\ dirs' = [v \in Versions |->
                        IF v \in lost THEN [dirs[v] EXCEPT !.manifest = FALSE] ELSE dirs[v]]
          /\ harmed' = harmed \cup lost
    BY <1>4 DEF PowerLoss
  <2>2. UNCHANGED <<mem, current>>
    BY <1>4 DEF PowerLoss
  <2>3. \A v \in Versions \ lost : dirs'[v] = dirs[v]
    BY <2>1
  <2>4. \A v \in lost : v \in Versions /\ v >= current
    BY DEF Present
  <2>5. CASE current \in lost
    <3>1. current # 0
      BY <1>a, <2>4, <2>5
    <3>2. Shown' = [Shown EXCEPT ![current] = Missing]
      <4>1. current \in Versions /\ current \in harmed'
        BY <2>1, <2>4, <2>5
      <4>2. Shown'[current] = Missing
        BY <1>c, <2>2, <4>1
      <4>3. ASSUME NEW v \in Versions \ {current} PROVE Shown'[v] = Shown[v]
        BY <1>a, <1>c, <2>1, <2>2, <2>3, <2>4
      <4> QED BY <1>d, <4>1, <4>2, <4>3
    <3>3. Hurt' = Hurt \cup {current}
      BY <1>a, <2>1, <2>2, <2>4, <2>5 DEF Hurt
    <3>4. Contract!PowerLoss
      BY <2>2, <3>1, <3>2, <3>3 DEF Contract!PowerLoss, Shown, Hurt
    <3> QED BY <3>4 DEF Contract!Next
  <2>6. CASE current \notin lost
    <3>1. \A v \in lost : ~(v <= current)
      <4>1. ASSUME NEW v \in lost PROVE ~(v <= current)
        <5>1. v \in Nat /\ v >= current /\ v # current
          BY <1>a, <2>4, <2>6
        <5> QED BY <1>a, <5>1
      <4> QED BY <4>1
    <3>2. Shown' = Shown
      BY <2>1, <2>2, <2>3, <3>1 DEF Shown
    <3>3. Hurt' = Hurt
      BY <2>1, <2>2, <3>1 DEF Hurt
    <3> QED BY <2>2, <3>2, <3>3, <1>t
  <2> QED BY <2>5, <2>6
<1>5. CASE Rename
  <2>1. /\ dirs' = [dirs EXCEPT ![NewVersion] = Image] /\ harmed' = harmed \ {NewVersion}
        /\ UNCHANGED <<mem, current>> /\ pc = "built"
    <3> HIDE DEF NewVersion
    <3> QED BY <1>0, <1>5 DEF Rename, Building
  <2>2. NewVersion \in Versions /\ NewVersion = snap + 1
    BY <1>0, <1>a, <2>1, BoundsAssumption DEF Building, NewVersion
  <2>3. dirs'[NewVersion] = Image /\ \A v \in Versions \ {NewVersion} : dirs'[v] = dirs[v]
    BY <1>0, <2>1, <2>2 DEF TypeOK
  <2>4. CASE NewVersion = current
    <3>1. current \in harmed
      BY <1>0, <1>a, <2>1, <2>2, <2>4 DEF Chain
    <3>2. Shown' = [Shown EXCEPT ![current] = mem]
      <4>1. Shown'[current] = mem
        BY <1>a, <1>b, <1>c, <2>1, <2>2, <2>3, <2>4
      <4>2. ASSUME NEW v \in Versions \ {current} PROVE Shown'[v] = Shown[v]
        BY <1>c, <2>1, <2>3, <2>4
      <4> QED BY <1>d, <2>2, <2>4, <4>1, <4>2
    <3>3. Hurt' = Hurt \ {current} /\ current \in Hurt
      BY <1>a, <2>1, <2>4, <3>1 DEF Hurt
    <3>4. Contract!Publish
      BY <2>1, <3>2, <3>3 DEF Contract!Publish, Shown, Hurt
    <3> QED BY <3>4 DEF Contract!Next, Contract!Consolidate
  <2>5. CASE NewVersion # current
    <3>1. ~(NewVersion <= current)
      BY <1>0, <1>a, <2>1, <2>2, <2>5 DEF Chain
    <3>2. Shown' = Shown
      BY <2>1, <2>2, <2>3, <3>1 DEF Shown
    <3>3. Hurt' = Hurt
      BY <2>1, <3>1 DEF Hurt
    <3> QED BY <2>1, <3>2, <3>3, <1>t
  <2> QED BY <2>4, <2>5
<1>6. CASE Flip
  <2>1. /\ current' = NewVersion /\ UNCHANGED <<mem, dirs, harmed>> /\ pc = "renamed"
        /\ dirs[NewVersion] = Image /\ NewVersion \notin harmed
    BY <1>0, <1>6 DEF Flip, Building
  <2>2. NewVersion \in Versions /\ NewVersion = snap + 1
    BY <1>0, <1>a, <2>1, BoundsAssumption DEF Building, NewVersion
  <2>3. CASE NewVersion = current
    BY <2>1, <2>3, <1>s, <1>t
  <2>4. CASE NewVersion # current
    <3>1. current' = current + 1 /\ NewVersion = current + 1
      BY <1>0, <1>a, <2>1, <2>2, <2>4 DEF Chain
    <3>2. Shown' = [Shown EXCEPT ![current'] = mem]
      <4>1. Shown'[current'] = mem
        BY <1>a, <1>b, <1>c, <2>1, <2>2
      <4>2. ASSUME NEW v \in Versions \ {current'} PROVE Shown'[v] = Shown[v]
        BY <1>a, <1>c, <2>1, <3>1
      <4> QED BY <1>d, <2>1, <2>2, <4>1, <4>2
    <3>3. Hurt' = Hurt \ {current'}
      <4>1. \A v \in Nat : v <= current + 1 /\ v # current + 1 <=> v <= current
        BY <1>a
      <4> QED BY <1>a, <2>1, <3>1, <4>1 DEF Hurt
    <3>4. Contract!Publish
      BY <2>1, <3>1, <3>2, <3>3 DEF Contract!Publish, Shown, Hurt
    <3> QED BY <3>4 DEF Contract!Next, Contract!Consolidate
  <2> QED BY <2>3, <2>4
<1>7. CASE Commit \/ SkipPublish
  <2>1. /\ dirs' = Prune(dirs) /\ UNCHANGED <<mem, current, harmed>>
        /\ pc = "flipped" \/ (pc = "idle" /\ snap = current)
    BY <1>7 DEF Commit, SkipPublish, StoreIsCurrent
  <2>2. current \in Present(dirs)
    <3>1. CASE Commit
      BY <1>0, <1>a, <1>b, <3>1 DEF Commit, Building, Chain, Present, NewVersion
    <3>2. CASE SkipPublish
      BY <1>a, <3>2 DEF SkipPublish, StoreIsCurrent, Present
    <3> QED BY <1>7, <3>1, <3>2
  <2>3. current \notin Doomed(dirs)
    BY <2>1, <2>2, CurrentKept
  <2>4. \A v \in Versions : dirs'[v] = IF v \in Doomed(dirs) THEN Missing ELSE dirs[v]
    BY <2>1 DEF Prune
  <2>5. CASE Retain = 0
    <3>1. Doomed(dirs) = {}
      BY <2>5 DEF Doomed
    <3>2. Shown' = Shown /\ Hurt' = Hurt
      BY <2>1, <2>4, <3>1 DEF Shown, Hurt
    <3> QED BY <2>1, <3>2, <1>t
  <2>6. CASE Retain # 0
    <3>1. Retain > 0
      BY <2>6, BoundsAssumption
    <3>2. PICK low \in 1..current :
            /\ \A v \in Present(dirs) : v \in Doomed(dirs) <=> v < low
            /\ \A S \in SUBSET (Present(dirs) \ Doomed(dirs)) : Cardinality(S) <= Retain
      BY <2>2, <2>3, <3>1, PruneFromBelow
    <3>3. Shown' = [v \in Versions |-> IF v < low THEN Missing ELSE Shown[v]]
      BY <2>1, <2>4, <3>2 DEF Shown, Present
    <3> DEFINE Left == {v \in Versions : Shown'[v] # Missing}
    <3>4. Left \in SUBSET (Present(dirs) \ Doomed(dirs))
      BY <2>1, <2>4 DEF Shown, Present
    <3>5. Cardinality(Left) <= Retain
      BY <3>2, <3>4
    <3>6. UNCHANGED <<mem, current, Hurt>>
      BY <2>1 DEF Hurt
    <3>7. Contract!SnapshotVersions' = Left
      BY DEF Contract!SnapshotVersions, Shown
    <3>8. Contract!Prune
      <4> HIDE DEF Left
      <4>0. \A S : Contract!Cardinality(S) = Cardinality(S)
        BY Zenon DEF Contract!Cardinality, Cardinality
      <4>1. Contract!Cardinality(Contract!SnapshotVersions') <= Retain
        BY <3>5, <3>7, <4>0
      <4>2. \E l \in 1..current : Shown' = [v \in Versions |-> IF v < l THEN Missing ELSE Shown[v]]
        BY <3>3
      <4>3. UNCHANGED mem /\ UNCHANGED current /\ UNCHANGED Hurt
        BY <3>6
      <4> QED BY <3>1, <4>1, <4>2, <4>3 DEF Contract!Prune, Shown, Hurt
    <3> QED BY <3>8 DEF Contract!Next
  <2> QED BY <2>5, <2>6
<1>8. CASE Fail
  <2>1. CASE pc # "renamed"
    BY <1>8, <2>1, <1>s, <1>t DEF Fail
  <2>2. CASE pc = "renamed"
    <3>1. /\ dirs' = [dirs EXCEPT ![NewVersion] = Missing] /\ mem' = mem
          /\ current' \in {current, NewVersion}
          /\ harmed' = IF current' = NewVersion THEN harmed \cup {NewVersion} ELSE harmed
      BY <1>8, <2>2 DEF Fail
    <3>2. /\ NewVersion \in Versions /\ NewVersion \in {current, current + 1}
          /\ dirs[NewVersion] = Image /\ NewVersion \notin harmed
      BY <1>0, <1>a, <2>2, BoundsAssumption DEF Building, NewVersion, Chain
    <3>3. dirs'[NewVersion] = Missing /\ \A v \in Versions \ {NewVersion} : dirs'[v] = dirs[v]
      BY <1>0, <3>1, <3>2 DEF TypeOK
    <3>4. CASE current' = NewVersion
      <4>1. Shown' = [Shown EXCEPT ![current'] = Missing]
        <5>1. Shown'[current'] = Missing
          BY <1>c, <3>2, <3>3, <3>4
        <5>2. ASSUME NEW v \in Versions \ {current'} PROVE Shown'[v] = Shown[v]
          BY <1>a, <1>c, <3>1, <3>2, <3>3, <3>4
        <5> QED BY <1>d, <3>2, <3>4, <5>1, <5>2
      <4>2. Hurt' = Hurt \cup {current'}
        <5>1. Hurt' = {v \in harmed \cup {current'} : v <= current'}
          BY <3>1, <3>4 DEF Hurt
        <5>2. \A v \in harmed : v # current' => (v <= current' <=> v <= current)
          <6>1. harmed \subseteq Nat /\ current \in Nat /\ current' \in {current, current + 1}
            BY <1>0, <1>a, <3>2, <3>4, BoundsAssumption DEF TypeOK, Versions
          <6> QED BY <6>1
        <5>3. current' \notin harmed /\ current' <= current'
          BY <1>a, <3>2, <3>4
        <5> QED BY <5>1, <5>2, <5>3 DEF Hurt
      <4>3. Shown[current'] \in {Missing, mem}
        BY <1>a, <1>b, <3>2, <3>4 DEF Shown
      <4>4. current' \in {current, current + 1}
        BY <3>2, <3>4
      <4>5. Contract!PublishFails
        BY <3>1, <4>1, <4>2, <4>3, <4>4 DEF Contract!PublishFails, Shown, Hurt
      <4> QED BY <4>5 DEF Contract!Next
    <3>5. CASE current' # NewVersion
      <4>1. current' = current /\ harmed' = harmed /\ ~(NewVersion <= current)
        BY <1>a, <3>1, <3>2, <3>5
      <4>2. Shown' = Shown /\ Hurt' = Hurt
        BY <3>2, <3>3, <4>1 DEF Shown, Hurt
      <4> QED BY <3>1, <4>1, <4>2, <1>t
    <3> QED BY <3>4, <3>5
  <2> QED BY <2>1, <2>2
<1>9. CASE UNCHANGED vars
  BY <1>9, <1>s, <1>t DEF vars
<1> QED BY <1>1, <1>2, <1>3, <1>4, <1>5, <1>6, <1>7, <1>8, <1>9 DEF Next

(***************************************************************************)
(* Every behaviour of publishing, its failures, kills, power losses and    *)
(* retries included, is one of SnapshotContract (dl_publish_snapshot,      *)
(* dl_publish_if_needed, dl_query_version), when every version is kept or  *)
(* at least two are.                                                       *)
(***************************************************************************)
THEOREM PublishKeepsContract ==
    ASSUME Retain # 1
    PROVE  Spec => KeepsSnapshotContract
<1>1. Init => Contract!Init
  <2> SUFFICES ASSUME Init PROVE Contract!Init
    OBVIOUS
  <2>1. Shown = [v \in Versions |-> Missing] /\ Hurt = {}
    BY DEF Init, Shown, Hurt
  <2> QED BY <2>1 DEF Init, Contract!Init, Shown, Hurt
<1>2. PInv /\ PInv' /\ CurrentThere /\ [Next]_vars => CurrentThere'
  BY CurrentStep
<1>3. PInv /\ CurrentThere /\ [Next]_vars => [Contract!Next]_(Contract!vars)
  BY SnapshotStep
<1> QED
  BY <1>1, <1>2, <1>3, PublishInit, PublishInvariant, PTL
  DEF Spec, KeepsSnapshotContract, Contract!Spec

=============================================================================
