-------------------------- MODULE VocabularyProofs --------------------------
(***************************************************************************)
(* Ids keep their names, for any set of names, any table size and any      *)
(* number of publishes, torn appends and kills, also after one of the two  *)
(* tables has lost ids (spill): the other one is unaffected.               *)
(*                                                                         *)
(* A table in memory always continues its root file.  What the properties  *)
(* need on top of that is that the root file is not behind where somebody  *)
(* relies on it: a table that is not dirty is saved (Rooted), a fact is    *)
(* named by the root file (Meant), a published table is a part of it       *)
(* (Snapped), and the write or publish under way has got so far (Underway).*)
(***************************************************************************)
EXTENDS Vocabulary, WellFoundedInduction, TLAPS

(***************************************************************************)
(* Table s is table q up to its length.                                    *)
(***************************************************************************)
Continues(q, s) == Len(s) <= Len(q) /\ \A i \in 1..Len(s) : q[i] = s[i]

(***************************************************************************)
(* Table s gives id i the name n, and no smaller id has it.                *)
(***************************************************************************)
NamedBy(s, i, n) == i \in 1..Len(s) /\ s[i] = n /\ \A j \in 1..(i - 1) : s[j] # n

Adding == {"addSym", "addTerm", "addWal"}
Publishing == {"pubSym", "pubRoot", "pubTerm", "pubFlip"}

Sized == {s \in Seq(Names) : Len(s) <= MaxIds}

Typed ==
    /\ pc \in {"down", "idle"} \cup Adding \cup Publishing
    /\ tab \in [Tables -> Sized]
    /\ root \in [Tables -> Sized]
    /\ tmp \in [Tables -> Sized]
    /\ dirty \in [Tables -> BOOLEAN]
    /\ facts \subseteq Refs
    /\ arg \in [kind : Tables, id : 0..MaxIds]
    /\ snaps \in Seq([Tables -> Sized]) /\ Len(snaps) <= MaxSnaps
    /\ pc \in Publishing => Len(snaps) < MaxSnaps
    /\ lagged \in BOOLEAN
    /\ spill \in [Tables -> {"none", "behind", "lost"}]
    /\ pc = "down" => \A t \in Tables : spill[t] # "behind"

(***************************************************************************)
(* The root file is what memory continues, and all of it unless the dirty  *)
(* flag, root_lagged or the history says otherwise.                        *)
(***************************************************************************)
Saved(t) == ~dirty[t] /\ ~(t = "sym" /\ pc = "pubRoot" /\ lagged)

Rooted ==
    pc # "down" =>
        \A t \in Tables :
            /\ Continues(tab[t], root[t])
            /\ Saved(t) /\ spill[t] = "none" => tab[t] = root[t]

Meaning(f) ==
    /\ pc # "down" /\ spill[f.kind] # "lost" => NamedBy(tab[f.kind], f.id, f.name)
    /\ spill[f.kind] = "none" => NamedBy(root[f.kind], f.id, f.name)

Meant == \A f \in facts : Meaning(f)

Version(v, t) ==
    /\ pc # "down" /\ spill[t] # "lost" => Continues(tab[t], snaps[v][t])
    /\ spill[t] = "none" => Continues(root[t], snaps[v][t])

Snapped == \A v \in DOMAIN snaps : \A t \in Tables : Version(v, t)

Underway ==
    /\ pc \in Adding =>
        /\ arg.id \in DOMAIN tab[arg.kind]
        /\ NamedBy(tab[arg.kind], arg.id, tab[arg.kind][arg.id])
    /\ pc \in {"addTerm", "addWal", "pubTerm", "pubFlip"} => ~dirty["sym"]
    /\ pc \in {"addWal", "pubFlip"} => ~dirty["term"]
    /\ pc = "pubRoot" => lagged \/ ~dirty["sym"]
    /\ pc \in {"pubRoot", "pubTerm", "pubFlip"} => tmp["sym"] = tab["sym"]
    /\ pc = "pubFlip" => tmp["term"] = tab["term"]

VInv == Typed /\ Rooted /\ Meant /\ Snapped /\ Underway

-----------------------------------------------------------------------------
(***************************************************************************)
(* Every nonempty set of naturals has a least element.                     *)
(***************************************************************************)
LEMMA SmallestId ==
    ASSUME NEW T \in SUBSET Nat, T # {}
    PROVE  \E x \in T : \A y \in T : x <= y
<1> DEFINE R == OpToRel(<, Nat)
<1>1. \A x, y \in Nat : x < y => <<x, y>> \in R
  BY DEF OpToRel
<1>2. IsWellFoundedOn(R, Nat)
  BY NatLessThanWellFounded
<1> HIDE DEF R
<1>3. PICK x \in T : \A y \in T : ~(<<y, x>> \in R)
  BY <1>2, WFMin
<1>4. ASSUME NEW y \in T PROVE x <= y
  <2>1. x \in Nat /\ y \in Nat /\ <<y, x>> \notin R
    BY <1>3
  <2>2. ~(y < x)
    BY <1>1, <2>1
  <2> QED BY <2>1, <2>2
<1> QED BY <1>4

(***************************************************************************)
(* A name that occurs in a table has a smallest id, lookup returns it, and *)
(* it is the only id NamedBy holds for.                                    *)
(***************************************************************************)
LEMMA LookupFinds ==
    ASSUME NEW s \in Seq(Names), NEW n
    PROVE  /\ \A i : NamedBy(s, i, n) => Lookup(s, n) = i
           /\ Lookup(s, n) # 0 => NamedBy(s, Lookup(s, n), n)
           /\ (\E i \in DOMAIN s : s[i] = n) => Lookup(s, n) # 0
           /\ Lookup(s, n) \in Nat
<1> DEFINE Ids == {i \in DOMAIN s : s[i] = n}
           First(i) == i \in DOMAIN s /\ s[i] = n /\ \A j \in 1..(i - 1) : s[j] # n
<1>1. DOMAIN s = 1..Len(s) /\ Len(s) \in Nat /\ Ids \in SUBSET Nat
  OBVIOUS
<1>2. \A i : First(i) <=> NamedBy(s, i, n)
  BY <1>1 DEF NamedBy
<1>3. \A i, k : First(i) /\ First(k) => i = k
  <2> SUFFICES ASSUME NEW i, NEW k, First(i), First(k) PROVE i = k
    OBVIOUS
  <2>1. i \in Nat /\ k \in Nat /\ i >= 1 /\ k >= 1
    BY <1>1
  <2>2. ~(i < k)
    BY <2>1
  <2>3. ~(k < i)
    BY <2>1
  <2> QED BY <2>1, <2>2, <2>3
<1>4. CASE Ids = {}
  <2>1. Lookup(s, n) = 0 /\ \A i : ~First(i)
    BY <1>4 DEF Lookup
  <2> QED BY <1>2, <1>4, <2>1
<1>5. CASE Ids # {}
  <2>1. PICK x \in Ids : \A y \in Ids : x <= y
    BY <1>1, <1>5, SmallestId
  <2>2. First(x)
    <3>1. \A j \in 1..(x - 1) : j \in DOMAIN s /\ ~(x <= j)
      BY <1>1, <2>1
    <3> QED BY <2>1, <3>1
  <2>3. Lookup(s, n) = CHOOSE i \in DOMAIN s : s[i] = n /\ \A j \in 1..(i - 1) : s[j] # n
    BY <1>5 DEF Lookup
  <2>4. First(Lookup(s, n))
    BY <2>2, <2>3
  <2>5. Lookup(s, n) \in Nat \ {0}
    BY <1>1, <2>4
  <2> QED BY <1>2, <1>3, <2>4, <2>5
<1> QED BY <1>4, <1>5

(***************************************************************************)
(* A table continues itself, and so does the table with one more name.     *)
(***************************************************************************)
LEMMA ContinuesBasics ==
    ASSUME NEW s \in Seq(Names)
    PROVE  /\ Continues(s, s)
           /\ \A n \in Names : Continues(Append(s, n), s)
  BY DEF Continues

(***************************************************************************)
(* A continuation of a continuation.                                       *)
(***************************************************************************)
LEMMA ContinuesTrans ==
    ASSUME NEW s \in Seq(Names), NEW q \in Seq(Names), NEW p \in Seq(Names),
           Continues(p, q), Continues(q, s)
    PROVE  Continues(p, s)
  BY DEF Continues

(***************************************************************************)
(* A continuation names what the table names.                              *)
(***************************************************************************)
LEMMA NamedStill ==
    ASSUME NEW s \in Seq(Names), NEW q \in Seq(Names), Continues(q, s),
           NEW i, NEW n, NamedBy(s, i, n)
    PROVE  NamedBy(q, i, n)
  BY DEF Continues, NamedBy

(***************************************************************************)
(* Whatever a kill leaves of an append (appendSymbols) continues the old   *)
(* file and is no longer than the table.                                   *)
(***************************************************************************)
LEMMA TornContinues ==
    ASSUME Typed, Rooted, pc # "down", NEW s \in TornSymbols
    PROVE  s \in Sized /\ Continues(s, root["sym"])
<1> DEFINE old == root["sym"]
           new == tab["sym"]
<1>1. old \in Sized /\ new \in Sized /\ Continues(new, old)
  BY DEF Typed, Rooted, Tables
<1>2. old \in Seq(Names) /\ new \in Seq(Names) /\ Len(old) \in Nat /\ Len(new) \in Nat
      /\ Len(old) <= MaxIds /\ Len(new) <= MaxIds /\ MaxIds \in Nat
      /\ Len(old) <= Len(new) /\ \A i \in 1..Len(old) : new[i] = old[i]
  BY <1>1, BoundsAssumption DEF Sized, Continues
<1>3. CASE s = old
  BY <1>1, <1>3, ContinuesBasics DEF Sized
<1>4. ASSUME NEW i \in Len(old)..Len(new), s = SubSeq(new, 1, i)
      PROVE  s \in Sized /\ Continues(s, old)
  <2> HIDE DEF old, new
  <2>1. s \in Seq(Names) /\ Len(s) = i /\ \A j \in 1..i : s[j] = new[j]
    BY <1>2, <1>4
  <2> QED BY <1>2, <2>1 DEF Sized, Continues
<1>5. ASSUME NEW i \in Len(old)..(Len(new) - 1), NEW n \in Names,
             s = Append(SubSeq(new, 1, i), n)
      PROVE  s \in Sized /\ Continues(s, old)
  <2> HIDE DEF old, new
  <2> DEFINE part == SubSeq(new, 1, i)
  <2>1. part \in Seq(Names) /\ Len(part) = i /\ \A j \in 1..i : part[j] = new[j]
    BY <1>2
  <2> HIDE DEF part
  <2>2. s = Append(part, n)
    BY <1>5 DEF part
  <2>3. s \in Seq(Names) /\ Len(s) = i + 1 /\ \A j \in 1..i : s[j] = new[j]
    BY <1>2, <2>1, <2>2
  <2> QED BY <1>2, <2>3 DEF Sized, Continues
<1> QED BY <1>3, <1>4, <1>5 DEF TornSymbols

-----------------------------------------------------------------------------
(***************************************************************************)
(* A new directory satisfies the invariant.                                *)
(***************************************************************************)
LEMMA VocabularyInit == Init => VInv
<1> SUFFICES ASSUME Init PROVE VInv
  OBVIOUS
<1>1. Empty \in [Tables -> Sized]
  BY BoundsAssumption DEF Empty, Sized
<1>2. /\ NoArg \in [kind : Tables, id : 0..MaxIds]
      /\ <<>> \in Seq([Tables -> Sized]) /\ Len(<<>>) <= MaxSnaps
  BY BoundsAssumption DEF NoArg, Tables
<1>3. Typed
  BY <1>1, <1>2 DEF Init, Typed, Publishing
<1> QED BY <1>3 DEF Init, VInv, Rooted, Meant, Snapped, Underway, Adding

(***************************************************************************)
(* The types of every step.                                                *)
(***************************************************************************)
LEMMA VocabularyTypes == VInv /\ [Next]_vars => Typed'
<1> SUFFICES ASSUME VInv, [Next]_vars PROVE Typed'
  OBVIOUS
<1> USE DEF Adding, Publishing
<1>0. Typed /\ Rooted /\ Underway
  BY DEF VInv
<1>a. Empty \in [Tables -> Sized] /\ NoArg \in [kind : Tables, id : 0..MaxIds]
  BY BoundsAssumption DEF Empty, Sized, NoArg, Tables
<1>b. \A S \in SUBSET Tables :
         [t \in Tables |-> IF t \in S THEN tab[t] ELSE root[t]] \in [Tables -> Sized]
  BY <1>0 DEF Typed
<1>c. \A S \in SUBSET Tables :
         Repaired(S) \in [Tables -> {"none", "behind", "lost"}]
  BY <1>0 DEF Typed, Repaired
<1>d. Lost \in [Tables -> {"none", "behind", "lost"}] /\ \A t \in Tables : Lost[t] # "behind"
  BY <1>0 DEF Typed, Lost
<1>e. "sym" \in Tables /\ "term" \in Tables
  BY DEF Tables
<1>f. \A t \in Tables : [root EXCEPT ![t] = tab[t]] \in [Tables -> Sized]
  BY <1>0 DEF Typed
<1>1. ASSUME NEW t \in Tables, NEW n \in Names, Intern(t, n) PROVE Typed'
  <2>1. Append(tab[t], n) \in Sized
    <3>1. tab[t] \in Seq(Names) /\ Len(tab[t]) < MaxIds
      BY <1>0, <1>1 DEF Typed, Sized, Intern
    <3>2. Append(tab[t], n) \in Seq(Names) /\ Len(Append(tab[t], n)) = Len(tab[t]) + 1
      BY <3>1
    <3> QED BY <3>1, <3>2, BoundsAssumption DEF Sized
  <2> QED BY <1>0, <1>1, <2>1 DEF Intern, Typed, disk, publishing
<1>2. CASE Open
  BY <1>0, <1>2 DEF Open, Typed, disk, publishing
<1>3. CASE Close
  BY <1>0, <1>a, <1>b, <1>d, <1>3 DEF Close, Typed, publishing
<1>4. CASE Kill
  <2>1. PICK s \in TornSymbols : root' = [root EXCEPT !["sym"] = s]
    BY <1>4 DEF Kill
  <2>2. s \in Sized
    BY <1>0, <1>4, TornContinues DEF Kill
  <2>3. root' \in [Tables -> Sized]
    BY <1>0, <2>1, <2>2 DEF Typed
  <2> QED BY <1>0, <1>a, <1>d, <1>4, <2>3 DEF Kill, Typed
<1>5. ASSUME NEW t \in Tables, NEW i \in 1..MaxIds, AddFact(t, i) PROVE Typed'
  BY <1>0, <1>5, BoundsAssumption DEF AddFact, Typed, disk, publishing
<1>6. ASSUME NEW t \in Tables, NEW i \in 1..MaxIds, LoadFacts(t, i) PROVE Typed'
  <2>1. tab[t][i] \in Names
    BY <1>0, <1>6 DEF LoadFacts, Typed, Sized
  <2>2. facts' \subseteq Refs
    BY <1>0, <1>6, <2>1 DEF LoadFacts, Typed, Refs
  <2>3. spill' \in [Tables -> {"none", "behind", "lost"}]
    BY <1>c, <1>6 DEF LoadFacts
  <2> QED BY <1>0, <1>6, <2>2, <2>3 DEF LoadFacts, Typed, publishing
<1>7. CASE AddSaveSym
  <2>1. spill' \in [Tables -> {"none", "behind", "lost"}] /\ root' \in [Tables -> Sized]
    BY <1>0, <1>c, <1>e, <1>f, <1>7 DEF AddSaveSym, SaveRoot, Typed
  <2> QED BY <1>0, <1>7, <2>1 DEF AddSaveSym, SaveRoot, Typed, publishing
<1>8. CASE AddSaveTerm
  <2>1. spill' \in [Tables -> {"none", "behind", "lost"}] /\ root' \in [Tables -> Sized]
    BY <1>0, <1>c, <1>e, <1>f, <1>8 DEF AddSaveTerm, SaveRoot, Typed
  <2> QED BY <1>0, <1>8, <2>1 DEF AddSaveTerm, SaveRoot, Typed, publishing
<1>9. CASE AddSaveFail
  BY <1>0, <1>a, <1>9 DEF AddSaveFail, Typed, disk, publishing
<1>10. CASE AddWal
  <2>1. arg.kind \in Tables /\ arg.id \in DOMAIN tab[arg.kind] /\ arg.id \in 0..MaxIds
    BY <1>0, <1>10 DEF AddWal, Underway, Typed
  <2>2. tab[arg.kind][arg.id] \in Names /\ arg.id \in 1..MaxIds
    BY <1>0, <2>1, BoundsAssumption DEF Typed, Sized
  <2>3. facts' \subseteq Refs
    BY <1>0, <1>10, <2>1, <2>2 DEF AddWal, Typed, Refs
  <2> QED BY <1>0, <1>a, <1>10, <2>3 DEF AddWal, Typed, publishing
<1>11. CASE PublishBegin
  BY <1>0, <1>a, <1>11 DEF PublishBegin, Typed, disk
<1>12. CASE PublishSym
  BY <1>0, <1>e, <1>12 DEF PublishSym, Typed, disk
<1>13. CASE PublishRoot
  <2>1. spill' \in [Tables -> {"none", "behind", "lost"}] /\ root' \in [Tables -> Sized]
    BY <1>0, <1>c, <1>e, <1>f, <1>13 DEF PublishRoot, Typed
  <2> QED BY <1>0, <1>13, <2>1 DEF PublishRoot, Typed, publishing
<1>14. CASE PublishTerm
  BY <1>0, <1>e, <1>14 DEF PublishTerm, Typed, disk
<1>15. CASE PublishFlip
  <2>1. Len(snaps') <= MaxSnaps /\ snaps' \in Seq([Tables -> Sized])
    BY <1>0, <1>15, BoundsAssumption DEF PublishFlip, Typed
  <2> QED BY <1>0, <1>a, <1>15, <2>1 DEF PublishFlip, Typed
<1>16. CASE PublishFail
  BY <1>0, <1>a, <1>16 DEF PublishFail, Typed, disk
<1>17. CASE UNCHANGED vars
  BY <1>0, <1>17 DEF vars, Typed
<1> QED BY <1>1, <1>2, <1>3, <1>4, <1>5, <1>6, <1>7, <1>8, <1>9, <1>10, <1>11, <1>12,
           <1>13, <1>14, <1>15, <1>16, <1>17 DEF Next

(***************************************************************************)
(* Saving tables under the root (intern_save, term_save) keeps what facts  *)
(* and versions rely on, and repairs what a publish left behind.           *)
(***************************************************************************)
LEMMA SaveKeeps ==
    ASSUME VInv, pc # "down", NEW S \in SUBSET Tables,
           UNCHANGED <<tab, snaps>>,
           root' = [t \in Tables |-> IF t \in S THEN tab[t] ELSE root[t]],
           spill' = Repaired(S)
    PROVE  /\ \A t \in Tables : Continues(tab'[t], root'[t])
           /\ \A f \in facts : Meaning(f)'
           /\ Snapped'
<1>0. Typed /\ Rooted /\ Meant /\ Snapped
  BY DEF VInv
<1>1. \A t \in Tables : tab[t] \in Seq(Names) /\ spill'[t] = Repaired(S)[t]
  BY <1>0 DEF Typed, Sized
<1>2. \A t \in Tables : /\ t \in S => root'[t] = tab[t]
                        /\ t \notin S => root'[t] = root[t] /\ spill'[t] = spill[t]
                        /\ spill'[t] # "lost" => spill[t] # "lost"
  BY <1>1 DEF Repaired
<1>3. \A t \in Tables : Continues(tab'[t], root'[t])
  BY <1>0, <1>1, <1>2, ContinuesBasics DEF Rooted
<1>4. ASSUME NEW f \in facts PROVE Meaning(f)'
  <2>1. f.kind \in Tables
    BY <1>0 DEF Typed, Refs
  <2> QED BY <1>0, <1>2, <2>1 DEF Meant, Meaning
<1>5. ASSUME NEW v \in DOMAIN snaps, NEW t \in Tables PROVE Version(v, t)'
  BY <1>0, <1>2 DEF Snapped, Version
<1> QED BY <1>3, <1>4, <1>5 DEF Snapped

(***************************************************************************)
(* A step that leaves the tables, the files and the facts alone keeps what *)
(* facts and versions rely on, unless it ends the process.                 *)
(***************************************************************************)
LEMMA QuietKeeps ==
    ASSUME VInv, pc # "down", UNCHANGED <<tab, root, facts, snaps>>,
           \A t \in Tables : spill'[t] = spill[t] \/ (spill'[t] = "behind" /\ spill[t] = "none")
    PROVE  Meant' /\ Snapped'
<1>0. Typed /\ Meant /\ Snapped
  BY DEF VInv
<1>1. ASSUME NEW f \in facts PROVE Meaning(f)'
  <2>1. f.kind \in Tables
    BY <1>0 DEF Typed, Refs
  <2> QED BY <1>0, <2>1 DEF Meant, Meaning
<1>2. ASSUME NEW v \in DOMAIN snaps, NEW t \in Tables PROVE Version(v, t)'
  BY <1>0 DEF Snapped, Version
<1> QED BY <1>1, <1>2 DEF Meant, Snapped

(***************************************************************************)
(* The end of a process: facts and versions of the tables that have lost   *)
(* nothing are named by the file that is left.                             *)
(***************************************************************************)
LEMMA EndKeeps ==
    ASSUME VInv, pc' = "down", spill' = Lost, UNCHANGED <<facts, snaps>>,
           \A t \in Tables : root'[t] \in Seq(Names) /\ Continues(root'[t], root[t])
    PROVE  Meant' /\ Snapped'
<1>0. Typed /\ Meant /\ Snapped
  BY DEF VInv
<1>1. \A t \in Tables : root[t] \in Seq(Names) /\ (spill'[t] = "none" => spill[t] = "none")
  BY <1>0 DEF Typed, Sized, Lost
<1>2. ASSUME NEW f \in facts PROVE Meaning(f)'
  <2>1. f.kind \in Tables
    BY <1>0 DEF Typed, Refs
  <2>2. spill'[f.kind] = "none" => NamedBy(root[f.kind], f.id, f.name)
    BY <1>0, <1>1, <2>1 DEF Meant, Meaning
  <2>3. spill'[f.kind] = "none" => NamedBy(root'[f.kind], f.id, f.name)
    BY <1>1, <2>1, <2>2, NamedStill
  <2> QED BY <2>3 DEF Meaning
<1>3. ASSUME NEW v \in DOMAIN snaps, NEW t \in Tables PROVE Version(v, t)'
  <2>1. snaps[v][t] \in Seq(Names)
    BY <1>0 DEF Typed, Sized
  <2>2. spill'[t] = "none" => Continues(root[t], snaps[v][t])
    BY <1>0, <1>1 DEF Snapped, Version
  <2>3. spill'[t] = "none" => Continues(root'[t], snaps[v][t])
    BY <1>1, <2>1, <2>2, ContinuesTrans
  <2> QED BY <2>3 DEF Version
<1> QED BY <1>2, <1>3 DEF Meant, Snapped

(***************************************************************************)
(* Every step keeps the invariant.                                         *)
(***************************************************************************)
LEMMA VocabularyStep == VInv /\ [Next]_vars => VInv'
<1> SUFFICES ASSUME VInv, [Next]_vars PROVE VInv'
  OBVIOUS
<1>0. Typed /\ Rooted /\ Meant /\ Snapped /\ Underway /\ Typed'
  BY VocabularyTypes DEF VInv
<1>e. "sym" \in Tables /\ "term" \in Tables /\ Tables = {"sym", "term"}
  BY DEF Tables
<1>s. \A t \in Tables : tab[t] \in Seq(Names) /\ root[t] \in Seq(Names)
  BY <1>0 DEF Typed, Sized
<1>v. \A v \in DOMAIN snaps, t \in Tables : snaps[v][t] \in Seq(Names)
  <2>1. snaps \in Seq([Tables -> Sized])
    BY <1>0 DEF Typed
  <2> QED BY <2>1 DEF Sized
<1>g. SUFFICES Rooted' /\ Meant' /\ Snapped' /\ Underway'
  BY <1>0 DEF VInv
<1> USE DEF Adding
<1>1. ASSUME NEW t \in Tables, NEW n \in Names, Intern(t, n)
      PROVE  Rooted' /\ Meant' /\ Snapped' /\ Underway'
  <2>1. /\ UNCHANGED <<root, facts, snaps, pc, spill>> /\ pc = "idle"
        /\ tab'[t] = Append(tab[t], n) /\ dirty'[t]
        /\ \A u \in Tables \ {t} : tab'[u] = tab[u] /\ dirty'[u] = dirty[u]
    BY <1>0, <1>1 DEF Intern, disk, Typed
  <2>2. \A u \in Tables : Continues(tab'[u], tab[u]) /\ tab'[u] \in Seq(Names)
    <3>1. Continues(tab'[t], tab[t]) /\ tab'[t] \in Seq(Names)
      BY <1>s, <2>1, ContinuesBasics
    <3>2. \A u \in Tables \ {t} : Continues(tab'[u], tab[u]) /\ tab'[u] \in Seq(Names)
      BY <1>s, <2>1, ContinuesBasics
    <3> QED BY <3>1, <3>2
  <2>3. Rooted'
    <3>1. \A u \in Tables : Continues(tab'[u], root[u])
      BY <1>0, <1>s, <2>1, <2>2, ContinuesTrans DEF Rooted
    <3>2. ASSUME NEW u \in Tables, Saved(u)', spill[u] = "none" PROVE tab'[u] = root[u]
      BY <1>0, <2>1, <3>2 DEF Rooted, Saved
    <3> QED BY <2>1, <3>1, <3>2 DEF Rooted
  <2>4. Meant'
    <3>1. ASSUME NEW f \in facts PROVE Meaning(f)'
      <4>1. f.kind \in Tables
        BY <1>0 DEF Typed, Refs
      <4>2. spill[f.kind] # "lost" => NamedBy(tab'[f.kind], f.id, f.name)
        BY <1>0, <1>s, <2>1, <2>2, <4>1, NamedStill DEF Meant, Meaning
      <4> QED BY <1>0, <2>1, <4>1, <4>2 DEF Meant, Meaning
    <3> QED BY <2>1, <3>1 DEF Meant
  <2>5. Snapped'
    <3>1. ASSUME NEW v \in DOMAIN snaps, NEW u \in Tables PROVE Version(v, u)'
      <4>1. spill[u] # "lost" => Continues(tab'[u], snaps[v][u])
        BY <1>0, <1>s, <1>v, <2>1, <2>2, ContinuesTrans DEF Snapped, Version
      <4> QED BY <1>0, <2>1, <4>1 DEF Snapped, Version
    <3> QED BY <2>1, <3>1 DEF Snapped
  <2>6. Underway'
    BY <2>1 DEF Underway
  <2> QED BY <2>3, <2>4, <2>5, <2>6
<1>2. CASE Open
  <2>1. /\ UNCHANGED <<root, facts, snaps, spill>> /\ pc = "down" /\ pc' = "idle" /\ tab' = root
    BY <1>2 DEF Open, disk
  <2>2. \A t \in Tables : spill[t] # "lost" => spill[t] = "none"
    BY <1>0, <2>1 DEF Typed
  <2>3. Rooted'
    BY <1>s, <2>1, ContinuesBasics DEF Rooted
  <2>4. Meant'
    <3>1. ASSUME NEW f \in facts PROVE Meaning(f)'
      <4>1. f.kind \in Tables
        BY <1>0 DEF Typed, Refs
      <4> QED BY <1>0, <2>1, <2>2, <4>1 DEF Meant, Meaning
    <3> QED BY <2>1, <3>1 DEF Meant
  <2>5. Snapped'
    BY <1>0, <2>1, <2>2 DEF Snapped, Version
  <2> QED BY <2>1, <2>3, <2>4, <2>5 DEF Underway
<1>3. CASE Close
  <2>1. PICK S \in SUBSET {t \in Tables : dirty[t]} :
            root' = [t \in Tables |-> IF t \in S THEN tab[t] ELSE root[t]]
    BY <1>3 DEF Close
  <2>2. pc = "idle" /\ pc' = "down" /\ spill' = Lost /\ UNCHANGED <<facts, snaps>>
    BY <1>3 DEF Close
  <2>3. \A t \in Tables : root'[t] \in Seq(Names) /\ Continues(root'[t], root[t])
    BY <1>0, <1>s, <2>1, <2>2, ContinuesBasics DEF Rooted
  <2> QED BY <2>2, <2>3, EndKeeps DEF Rooted, Underway
<1>4. CASE Kill
  <2>1. PICK s \in TornSymbols : root' = [root EXCEPT !["sym"] = s]
    BY <1>4 DEF Kill
  <2>2. pc # "down" /\ pc' = "down" /\ spill' = Lost /\ UNCHANGED <<facts, snaps>>
    BY <1>4 DEF Kill
  <2>3. s \in Seq(Names) /\ Continues(s, root["sym"])
    BY <1>0, <2>2, TornContinues DEF Sized
  <2>4. root'["sym"] = s /\ root'["term"] = root["term"]
    BY <1>0, <1>e, <2>1 DEF Typed
  <2>5. \A t \in Tables : root'[t] \in Seq(Names) /\ Continues(root'[t], root[t])
    BY <1>e, <1>s, <2>3, <2>4, ContinuesBasics
  <2> QED BY <2>2, <2>5, EndKeeps DEF Rooted, Underway
<1>5. ASSUME NEW t \in Tables, NEW i \in 1..MaxIds, AddFact(t, i)
      PROVE  Rooted' /\ Meant' /\ Snapped' /\ Underway'
  <2>1. /\ UNCHANGED <<tab, dirty, root, facts, snaps, spill>> /\ pc = "idle" /\ pc' = "addSym"
        /\ arg' = [kind |-> t, id |-> i]
        /\ i \in DOMAIN tab[t] /\ Lookup(tab[t], tab[t][i]) = i
    BY <1>5 DEF AddFact, disk
  <2>2. Rooted'
    BY <1>0, <2>1 DEF Rooted, Saved
  <2>3. NamedBy(tab[t], i, tab[t][i])
    BY <1>s, <2>1, LookupFinds, BoundsAssumption
  <2>4. Underway'
    BY <2>1, <2>3 DEF Underway
  <2> QED BY <2>1, <2>2, <2>4, QuietKeeps
<1>6. ASSUME NEW t \in Tables, NEW i \in 1..MaxIds, LoadFacts(t, i)
      PROVE  Rooted' /\ Meant' /\ Snapped' /\ Underway'
  <2> DEFINE g == [kind |-> t, id |-> i, name |-> tab[t][i]]
  <2>1. /\ UNCHANGED <<tab, snaps>> /\ pc = "idle" /\ pc' = "idle" /\ root' = tab
        /\ i \in DOMAIN tab[t] /\ Lookup(tab[t], tab[t][i]) = i
        /\ facts' = facts \cup {g} /\ spill' = Repaired(Tables)
    BY <1>6 DEF LoadFacts
  <2>2. root' = [u \in Tables |-> IF u \in Tables THEN tab[u] ELSE root[u]]
    BY <1>0, <2>1 DEF Typed
  <2>3. /\ \A u \in Tables : Continues(tab'[u], root'[u])
        /\ \A f \in facts : Meaning(f)'
        /\ Snapped'
    BY <2>1, <2>2, SaveKeeps
  <2>4. NamedBy(tab[t], i, tab[t][i])
    BY <1>s, <2>1, LookupFinds, BoundsAssumption
  <2>5. Meaning(g)'
    BY <2>1, <2>4 DEF Meaning
  <2>6. Meant'
    BY <2>1, <2>3, <2>5 DEF Meant
  <2> QED BY <2>1, <2>3, <2>6 DEF Rooted, Underway
<1>7. ASSUME NEW t \in Tables, NEW from \in Adding, NEW to \in Adding,
             SaveRoot(t, from, to)
      PROVE  Rooted' /\ Meant' /\ Snapped'
  <2>1. UNCHANGED <<tab, facts, snaps, lagged>> /\ pc = from /\ pc' = to
    BY <1>7 DEF SaveRoot, publishing
  <2>2. PICK S \in SUBSET Tables :
          /\ S = IF dirty[t] THEN {t} ELSE {}
    OBVIOUS
  <2>3. root' = [u \in Tables |-> IF u \in S THEN tab[u] ELSE root[u]]
    BY <1>0, <1>7, <2>2 DEF SaveRoot, Typed
  <2>4. spill' = Repaired(S)
    BY <1>0, <1>7, <2>2 DEF SaveRoot, Typed, Repaired
  <2>5. /\ \A u \in Tables : Continues(tab'[u], root'[u])
        /\ \A f \in facts : Meaning(f)'
        /\ Snapped'
    BY <1>7, <2>1, <2>3, <2>4, SaveKeeps
  <2>6. ASSUME NEW u \in Tables, ~dirty'[u], spill'[u] = "none"
        PROVE  tab'[u] = root'[u]
    <3>1. CASE u \in S
      BY <2>1, <2>3, <3>1
    <3>2. CASE u \notin S
      <4>1. ~dirty[u] /\ spill[u] = "none"
        BY <1>0, <1>7, <2>2, <2>4, <2>6, <3>2 DEF SaveRoot, Typed, Repaired
      <4> QED BY <1>0, <1>7, <2>1, <2>3, <2>6, <3>2, <4>1 DEF Rooted, Saved
    <3> QED BY <3>1, <3>2
  <2> QED BY <2>1, <2>5, <2>6 DEF Meant, Rooted, Saved

<1>8. CASE AddSaveSym
  <2>1. Rooted' /\ Meant' /\ Snapped'
    BY <1>e, <1>7, <1>8 DEF AddSaveSym
  <2>2. Underway'
    BY <1>0, <1>e, <1>8 DEF AddSaveSym, SaveRoot, Underway, Typed
  <2> QED BY <2>1, <2>2
<1>9. CASE AddSaveTerm
  <2>1. Rooted' /\ Meant' /\ Snapped'
    BY <1>e, <1>7, <1>9 DEF AddSaveTerm
  <2>2. Underway'
    BY <1>0, <1>e, <1>9 DEF AddSaveTerm, SaveRoot, Underway, Typed
  <2> QED BY <2>1, <2>2
<1>10. CASE AddSaveFail
  <2>1. UNCHANGED <<tab, dirty, root, facts, snaps, spill>> /\ pc \in Adding /\ pc' = "idle"
    BY <1>10 DEF AddSaveFail, disk
  <2>2. Rooted'
    BY <1>0, <2>1 DEF Rooted, Saved
  <2> QED BY <2>1, <2>2, QuietKeeps DEF Underway
<1>11. CASE AddWal
  <2>g. PICK g : g = [kind |-> arg.kind, id |-> arg.id, name |-> tab[arg.kind][arg.id]]
    OBVIOUS
  <2>1. /\ UNCHANGED <<tab, dirty, root, snaps, spill>> /\ pc = "addWal" /\ pc' = "idle"
        /\ facts' = facts \cup {g}
    BY <1>11, <2>g DEF AddWal
  <2>2. Rooted' /\ \A t \in Tables : spill[t] = "none" => root[t] = tab[t]
    BY <1>0, <1>e, <2>1 DEF Rooted, Saved, Underway
  <2>3. Meaning(g)'
    <3>1. arg.kind \in Tables /\ NamedBy(tab[arg.kind], arg.id, tab[arg.kind][arg.id])
      BY <1>0, <2>1 DEF Underway, Typed
    <3> QED BY <2>1, <2>2, <2>g, <3>1 DEF Meaning
  <2>4. \A f \in facts : Meaning(f)'
    BY <1>0, <2>1 DEF Meant, Meaning
  <2>5. Meant'
    BY <2>1, <2>3, <2>4 DEF Meant
  <2>6. Snapped'
    BY <1>0, <2>1 DEF Snapped, Version
  <2> QED BY <2>1, <2>2, <2>5, <2>6 DEF Underway
<1>12. CASE PublishBegin
  <2>1. UNCHANGED <<tab, dirty, root, facts, snaps, spill>> /\ pc = "idle" /\ pc' = "pubSym"
    BY <1>12 DEF PublishBegin, disk
  <2>2. Rooted'
    BY <1>0, <2>1 DEF Rooted, Saved
  <2> QED BY <2>1, <2>2, QuietKeeps DEF Underway
<1>13. CASE PublishSym
  <2>1. /\ UNCHANGED <<tab, root, facts, snaps, spill>> /\ pc = "pubSym" /\ pc' = "pubRoot"
        /\ lagged' = dirty["sym"] /\ tmp'["sym"] = tab["sym"]
        /\ dirty'["term"] = dirty["term"] /\ dirty'["sym"] \in {dirty["sym"], FALSE}
    BY <1>0, <1>e, <1>13 DEF PublishSym, disk, Typed
  <2>2. Rooted'
    BY <1>0, <1>e, <2>1 DEF Rooted, Saved
  <2>3. Underway'
    BY <2>1 DEF Underway
  <2> QED BY <2>1, <2>2, <2>3, QuietKeeps
<1>14. CASE PublishRoot
  <2>1. UNCHANGED <<tab, facts, snaps, lagged, tmp>> /\ pc = "pubRoot" /\ pc' = "pubTerm"
    BY <1>14 DEF PublishRoot, publishing
  <2>2. ~dirty'["sym"] /\ dirty'["term"] = dirty["term"]
    BY <1>0, <1>e, <1>14 DEF PublishRoot, Underway, Typed
  <2>3. PICK S \in SUBSET Tables : S = IF lagged THEN {"sym"} ELSE {}
    BY <1>e
  <2>4. root' = [u \in Tables |-> IF u \in S THEN tab[u] ELSE root[u]]
    BY <1>0, <1>14, <2>3 DEF PublishRoot, Typed
  <2>5. spill' = Repaired(S)
    BY <1>0, <1>14, <2>3 DEF PublishRoot, Typed, Repaired
  <2>6. /\ \A u \in Tables : Continues(tab'[u], root'[u])
        /\ \A f \in facts : Meaning(f)'
        /\ Snapped'
    BY <2>1, <2>4, <2>5, SaveKeeps
  <2>7. ASSUME NEW u \in Tables, ~dirty'[u], spill'[u] = "none"
        PROVE  tab'[u] = root'[u]
    <3>1. CASE u \in S
      BY <2>1, <2>4, <3>1
    <3>2. CASE u \notin S
      <4>1. Saved(u) /\ spill[u] = "none"
        BY <1>0, <1>e, <2>1, <2>2, <2>3, <2>5, <2>7, <3>2 DEF Underway, Saved, Repaired
      <4> QED BY <1>0, <2>1, <2>4, <3>2, <4>1 DEF Rooted
    <3> QED BY <3>1, <3>2
  <2>8. Rooted' /\ Meant'
    BY <2>1, <2>6, <2>7 DEF Meant, Rooted, Saved
  <2>9. Underway'
    BY <1>0, <2>1, <2>2 DEF Underway
  <2> QED BY <2>6, <2>8, <2>9
<1>15. CASE PublishTerm
  <2>1. /\ UNCHANGED <<tab, root, facts, snaps>> /\ pc = "pubTerm" /\ pc' = "pubFlip"
        /\ tmp'["term"] = tab["term"] /\ tmp'["sym"] = tmp["sym"]
        /\ ~dirty'["term"] /\ dirty'["sym"] = dirty["sym"]
    BY <1>0, <1>e, <1>15 DEF PublishTerm, disk, Typed
  <2>2. /\ spill'["sym"] = spill["sym"]
        /\ spill'["term"] = IF dirty["term"] /\ spill["term"] = "none"
                            THEN "behind" ELSE spill["term"]
    BY <1>0, <1>e, <1>15 DEF PublishTerm, Typed
  <2>3. Rooted'
    BY <1>0, <1>e, <2>1, <2>2 DEF Rooted, Saved
  <2>4. Underway'
    BY <1>0, <2>1 DEF Underway
  <2>5. \A t \in Tables : spill'[t] = spill[t] \/ (spill'[t] = "behind" /\ spill[t] = "none")
    BY <1>e, <2>2
  <2> QED BY <2>1, <2>3, <2>4, <2>5, QuietKeeps
<1>16. CASE PublishFlip
  <2>1. /\ UNCHANGED <<tab, dirty, root, facts, spill>> /\ pc = "pubFlip" /\ pc' = "idle"
        /\ snaps' = Append(snaps, tmp)
    BY <1>16 DEF PublishFlip
  <2>2. \A t \in Tables : tmp[t] = tab[t] /\ ~dirty[t]
    BY <1>0, <1>e, <2>1 DEF Underway
  <2>3. Rooted' /\ \A t \in Tables : spill[t] = "none" => root[t] = tab[t]
    BY <1>0, <2>1, <2>2 DEF Rooted, Saved
  <2>4. Meant'
    BY <1>0, <2>1 DEF Meant, Meaning
  <2>5. Snapped'
    <3>1. snaps \in Seq([Tables -> Sized]) /\ tmp \in [Tables -> Sized]
      BY <1>0 DEF Typed
    <3>2. ASSUME NEW v \in DOMAIN snaps', NEW t \in Tables PROVE Version(v, t)'
      <4>1. CASE v \in DOMAIN snaps
        <5>1. snaps'[v] = snaps[v]
          BY <2>1, <3>1, <4>1
        <5> QED BY <1>0, <2>1, <4>1, <5>1 DEF Snapped, Version
      <4>2. CASE v \notin DOMAIN snaps
        <5>1. snaps'[v] = tmp
          BY <2>1, <3>1, <4>2
        <5>2. Continues(tab[t], tab[t])
          BY <1>s, ContinuesBasics
        <5> QED BY <2>1, <2>2, <2>3, <5>1, <5>2 DEF Version
      <4> QED BY <4>1, <4>2
    <3> QED BY <3>2 DEF Snapped
  <2> QED BY <2>1, <2>3, <2>4, <2>5 DEF Underway
<1>17. CASE PublishFail
  <2>1. /\ UNCHANGED <<tab, dirty, root, facts, snaps>>
        /\ pc \in {"pubSym", "pubRoot", "pubTerm", "pubFlip"} /\ pc' = "idle"
    BY <1>17 DEF PublishFail, disk
  <2>2. /\ spill'["term"] = spill["term"]
        /\ spill'["sym"] = IF pc = "pubRoot" /\ ~dirty["sym"] /\ spill["sym"] = "none"
                           THEN "behind" ELSE spill["sym"]
    BY <1>0, <1>e, <1>17 DEF PublishFail, Typed
  <2>3. Rooted'
    BY <1>0, <1>e, <2>1, <2>2 DEF Rooted, Saved
  <2>4. \A t \in Tables : spill'[t] = spill[t] \/ (spill'[t] = "behind" /\ spill[t] = "none")
    BY <1>e, <2>2
  <2> QED BY <2>1, <2>3, <2>4, QuietKeeps DEF Underway
<1>18. CASE UNCHANGED vars
  BY <1>0, <1>18 DEF vars, Rooted, Meant, Snapped, Underway, Saved, Meaning, Version
<1> QED BY <1>1, <1>2, <1>3, <1>4, <1>5, <1>6, <1>8, <1>9, <1>10, <1>11, <1>12,
           <1>13, <1>14, <1>15, <1>16, <1>17, <1>18 DEF Next

(***************************************************************************)
(* The invariant, for any number of names, ids, versions and kills.        *)
(***************************************************************************)
THEOREM VocabularyInvariant == Spec => []VInv
  BY VocabularyInit, VocabularyStep, PTL DEF Spec

(***************************************************************************)
(* Type correctness of the two tables, their files and their snapshots; a  *)
(* table without unsaved ids is one some file holds.                       *)
(***************************************************************************)
THEOREM VocabularyTypeCorrect == Spec => []TypeOK
<1>1. VInv => TypeOK
  <2> SUFFICES ASSUME VInv PROVE TypeOK
    OBVIOUS
  <2>0. Typed /\ Rooted /\ Underway
    BY DEF VInv
  <2>1. \A s \in Sized : s \in BoundedSeq(Names, MaxIds)
    <3> SUFFICES ASSUME NEW s \in Sized PROVE s \in BoundedSeq(Names, MaxIds)
      OBVIOUS
    <3>1. s \in [1..Len(s) -> Names] /\ Len(s) \in 0..MaxIds
      BY BoundsAssumption DEF Sized
    <3> QED BY <3>1 DEF BoundedSeq, SeqOf
  <2>2. ASSUME NEW t \in Tables, pc # "down", ~dirty[t], spill[t] = "none"
        PROVE  tab[t] \in {root[t], tmp[t]}
    BY <2>0, <2>2 DEF Rooted, Underway, Saved
  <2> QED BY <2>0, <2>1, <2>2 DEF Typed, TypeOK, Adding, Publishing
<1> QED BY <1>1, VocabularyInvariant, PTL

(***************************************************************************)
(* Every id a stored fact holds keeps its name and is found by it          *)
(* (intern_load, lookup, term_load), whatever was killed, torn, retried or *)
(* published before.                                                       *)
(***************************************************************************)
THEOREM MeaningIsKept == Spec => []FactsKeepMeaning
<1>1. VInv => FactsKeepMeaning
  <2> SUFFICES ASSUME VInv, pc # "down", NEW f \in facts, spill[f.kind] # "lost"
               PROVE  /\ Contract!StrOf(f.kind, f.id) = {f.name}
                      /\ Lookup(tab[f.kind], f.name) = f.id
    BY DEF FactsKeepMeaning
  <2>1. f.kind \in Tables /\ tab[f.kind] \in Seq(Names)
    BY DEF VInv, Typed, Refs, Sized
  <2>2. NamedBy(tab[f.kind], f.id, f.name)
    BY DEF VInv, Meant, Meaning
  <2>3. Lookup(tab[f.kind], f.name) = f.id
    BY <2>1, <2>2, LookupFinds
  <2>4. Contract!StrOf(f.kind, f.id) = {f.name}
    BY <2>1, <2>2 DEF NamedBy, Contract!StrOf
  <2> QED BY <2>3, <2>4
<1> QED BY <1>1, VocabularyInvariant, PTL

(***************************************************************************)
(* The two lookups of the contract are the code's.                         *)
(***************************************************************************)
LEMMA SameLookup ==
    /\ \A s, n : Contract!IdIn(s, n) = Lookup(s, n)
    /\ \A t, n : Contract!Find(t, n) = Lookup(IF pc = "down" THEN root[t] ELSE tab[t], n)
    /\ \A v, t, n : Contract!FindVersion(v, t, n) = Lookup(snaps[v][t], n)
<1>1. \A s, n : Contract!IdIn(s, n) = Lookup(s, n)
  BY Zenon DEF Contract!IdIn, Lookup
<1>2. \A t : (IF pc = "down" THEN root ELSE tab)[t] = IF pc = "down" THEN root[t] ELSE tab[t]
  OBVIOUS
<1> QED BY <1>1, <1>2 DEF Contract!Find, Contract!FindVersion

(***************************************************************************)
(* A name has in a continuation of a table the id it has in the table.     *)
(***************************************************************************)
LEMMA LookupStill ==
    ASSUME NEW s \in Seq(Names), NEW q \in Seq(Names), Continues(q, s), NEW n
    PROVE  Lookup(s, n) \in {0, Lookup(q, n)}
  BY LookupFinds, NamedStill

(***************************************************************************)
(* The ids of a published version mean in the live tables what they mean   *)
(* in the version, as long as the table has not lost ids.                  *)
(***************************************************************************)
THEOREM VersionIdsKept == Spec => []SnapshotIdsHold
<1>1. VInv => SnapshotIdsHold
  <2> SUFFICES ASSUME VInv, pc # "down", NEW v \in DOMAIN snaps,
                      NEW t \in Tables, spill[t] # "lost"
               PROVE  /\ \A i \in 1..MaxIds :
                           Contract!StrOfVersion(v, t, i) \subseteq Contract!StrOf(t, i)
                      /\ \A n \in Names : Contract!FindVersion(v, t, n) \in {0, Lookup(tab[t], n)}
    BY DEF SnapshotIdsHold
  <2>1. snaps[v][t] \in Seq(Names) /\ tab[t] \in Seq(Names)
    BY DEF VInv, Typed, Sized
  <2>2. Continues(tab[t], snaps[v][t])
    BY DEF VInv, Snapped, Version
  <2>3. \A i \in 1..MaxIds : Contract!StrOfVersion(v, t, i) \subseteq Contract!StrOf(t, i)
    BY <2>1, <2>2 DEF Continues, Contract!StrOfVersion, Contract!StrOf
  <2>4. \A n \in Names : Contract!FindVersion(v, t, n) \in {0, Lookup(tab[t], n)}
    BY <2>1, <2>2, LookupStill, SameLookup
  <2> QED BY <2>3, <2>4
<1> QED BY <1>1, VocabularyInvariant, PTL

-----------------------------------------------------------------------------
(***************************************************************************)
(* The refinement: what the variables of NameContract stand for.           *)
(***************************************************************************)
Loaded == IF pc = "down" THEN root ELSE tab

Risk == {t \in Tables : spill[t] = "behind"}

Lapsed == {t \in Tables : spill[t] = "lost"}

(***************************************************************************)
(* An id handed out by a table stands for its name in the contract.        *)
(***************************************************************************)
LEMMA UseStep ==
    ASSUME VInv, pc # "down", pc' # "down", UNCHANGED <<tab, snaps>>, Lapsed' = Lapsed,
           Risk' \subseteq Risk,
           NEW t \in Tables, NEW i \in 1..MaxIds, NamedBy(tab[t], i, tab[t][i]),
           facts' = facts \cup {[kind |-> t, id |-> i, name |-> tab[t][i]]}
    PROVE  Contract!Next
<1>1. tab[t] \in Seq(Names)
  BY DEF VInv, Typed, Sized
<1>2. Contract!StrOf(t, i) = {tab[t][i]}
  BY <1>1 DEF NamedBy, Contract!StrOf
<1>3. Contract!Find(t, tab[t][i]) = i
  BY <1>1, SameLookup, LookupFinds
<1>4. Loaded' = Loaded
  BY DEF Loaded
<1>5. Contract!Use(t, i)
  BY <1>2, <1>3, <1>4 DEF Contract!Use, Loaded, Risk, Lapsed
<1> QED BY <1>5 DEF Contract!Next, Contract!Call

(***************************************************************************)
(* A step that changes no table, no fact and no version is at most a Mark. *)
(***************************************************************************)
LEMMA MarkStep ==
    ASSUME pc # "down", pc' # "down", UNCHANGED <<tab, facts, snaps>>, Lapsed' = Lapsed
    PROVE  Contract!Next
<1>1. Loaded' = Loaded /\ Risk' \subseteq Tables
  BY DEF Loaded, Risk
<1>2. Contract!Mark
  BY <1>1 DEF Contract!Mark, Loaded, Risk, Lapsed
<1> QED BY <1>2 DEF Contract!Next, Contract!Call

(***************************************************************************)
(* The end of a process is the contract's Stop: what the root files lack   *)
(* is no fact's, or is of a table at risk.                                 *)
(***************************************************************************)
LEMMA StopStep ==
    ASSUME VInv, VInv', pc # "down", pc' = "down", spill' = Lost, UNCHANGED <<facts, snaps>>
    PROVE  Contract!Stop
<1>0. Typed /\ Typed' /\ Meant'
  BY DEF VInv
<1>1. Risk' = {} /\ Lapsed' = Lapsed \cup Risk
  BY <1>0 DEF Typed, Lost, Risk, Lapsed
<1>2. Loaded' \in [Tables -> Seq(Names)]
  BY <1>0 DEF Typed, Sized, Loaded
<1>3. ASSUME NEW f \in facts, f.kind \notin Lapsed'
      PROVE  Contract!Means(f.kind, f.id, f.name)'
  <2>1. f.kind \in Tables
    BY <1>0 DEF Typed, Refs
  <2>2. spill'[f.kind] = "none"
    BY <1>0, <1>1, <1>3, <2>1 DEF Typed, Lapsed, Risk
  <2>3. NamedBy(root'[f.kind], f.id, f.name) /\ root'[f.kind] \in Seq(Names)
    BY <1>0, <2>1, <2>2 DEF Meant, Meaning, Typed, Sized
  <2>4. Contract!StrOf(f.kind, f.id)' = {f.name}
    BY <2>3 DEF NamedBy, Contract!StrOf
  <2>5. Contract!Find(f.kind, f.name)' = f.id
    <3>1. Lookup(root'[f.kind], f.name) = f.id
      BY <2>3, LookupFinds
    <3>2. Contract!Find(f.kind, f.name)' = Lookup(root'[f.kind], f.name)
      BY SameLookup DEF Contract!Find
    <3> QED BY <3>1, <3>2
  <2> QED BY <2>4, <2>5 DEF Contract!Means
<1> QED BY <1>1, <1>2, <1>3 DEF Contract!Stop, Loaded, Risk, Lapsed

(***************************************************************************)
(* Every step of the two tables is a step of NameContract.                 *)
(***************************************************************************)
LEMMA NameStep ==
    ASSUME VInv, VInv', [Next]_vars
    PROVE  [Contract!Next]_(Contract!vars)
<1>0. Typed /\ Underway
  BY DEF VInv
<1>e. "sym" \in Tables /\ "term" \in Tables /\ Tables = {"sym", "term"}
  BY DEF Tables
<1>l. \A S \in SUBSET Tables : spill' = Repaired(S) => Lapsed' = Lapsed /\ Risk' \subseteq Risk
  BY <1>0 DEF Typed, Repaired, Lapsed, Risk
<1>u. spill' = spill => Lapsed' = Lapsed /\ Risk' = Risk
  BY DEF Lapsed, Risk
<1>1. ASSUME NEW t \in Tables, NEW n \in Names, Intern(t, n) PROVE Contract!Next
  <2>1. /\ pc = "idle" /\ pc' = "idle" /\ UNCHANGED <<facts, snaps, spill>>
        /\ Lookup(tab[t], n) = 0 /\ tab' = [tab EXCEPT ![t] = Append(@, n)]
    BY <1>1 DEF Intern, disk
  <2>2. Contract!Find(t, n) = 0
    BY <2>1, SameLookup
  <2>3. Loaded = tab /\ Loaded' = tab'
    BY <2>1 DEF Loaded
  <2>4. Contract!NewId(t, n)
    BY <2>1, <2>2, <2>3, <1>u DEF Contract!NewId, Loaded, Risk, Lapsed
  <2>5. Contract!InternStr(n) \/ Contract!TermCons(n)
    BY <1>e, <2>4 DEF Contract!InternStr, Contract!TermCons
  <2> QED BY <2>1, <2>5 DEF Contract!Next, Contract!Call
<1>2. CASE Open
  <2>1. pc = "down" /\ pc' = "idle" /\ UNCHANGED <<facts, snaps, spill>> /\ tab' = root
    BY <1>2 DEF Open, disk
  <2>2. Loaded' = Loaded
    BY <2>1 DEF Loaded
  <2>3. Contract!Load
    BY <1>u, <2>1, <2>2 DEF Contract!Load, Loaded, Risk, Lapsed
  <2> QED BY <2>3 DEF Contract!Next
<1>3. CASE Close \/ Kill
  <2>1. Contract!Stop
    BY <1>3, StopStep DEF Close, Kill
  <2> QED BY <2>1 DEF Contract!Next
<1>4. ASSUME NEW t \in Tables, NEW i \in 1..MaxIds, AddFact(t, i) PROVE Contract!Next
  BY <1>u, <1>4, MarkStep DEF AddFact, disk
<1>5. ASSUME NEW t \in Tables, NEW i \in 1..MaxIds, LoadFacts(t, i) PROVE Contract!Next
  <2>1. /\ pc = "idle" /\ pc' = "idle" /\ UNCHANGED <<tab, snaps>>
        /\ i \in DOMAIN tab[t] /\ Lookup(tab[t], tab[t][i]) = i
        /\ facts' = facts \cup {[kind |-> t, id |-> i, name |-> tab[t][i]]}
        /\ spill' = Repaired(Tables)
    BY <1>5 DEF LoadFacts
  <2>2. tab[t] \in Seq(Names) /\ i # 0
    BY <1>0, BoundsAssumption DEF Typed, Sized
  <2>3. NamedBy(tab[t], i, tab[t][i])
    BY <2>1, <2>2, LookupFinds
  <2> QED BY <1>l, <2>1, <2>3, UseStep
<1>6. CASE AddSaveSym \/ AddSaveTerm
  <2>1. PICK t \in Tables : pc # "down" /\ pc' # "down" /\ UNCHANGED <<tab, facts, snaps>>
                            /\ spill' \in {spill, Repaired({t})}
    BY <1>6, <1>e DEF AddSaveSym, AddSaveTerm, SaveRoot
  <2> QED BY <1>l, <1>u, <2>1, MarkStep
<1>7. CASE AddSaveFail
  BY <1>u, <1>7, MarkStep DEF AddSaveFail, disk
<1>8. CASE AddWal
  <2>1. /\ pc = "addWal" /\ pc' = "idle" /\ UNCHANGED <<tab, snaps, spill>>
        /\ facts' = facts \cup
             {[kind |-> arg.kind, id |-> arg.id, name |-> tab[arg.kind][arg.id]]}
    BY <1>8 DEF AddWal
  <2>2. PICK t \in Tables, i \in 0..MaxIds : t = arg.kind /\ i = arg.id
    BY <1>0 DEF Typed
  <2>3. NamedBy(tab[t], i, tab[t][i]) /\ i \in 1..MaxIds
    <3>1. NamedBy(tab[t], i, tab[t][i])
      BY <1>0, <2>1, <2>2 DEF Underway, Adding
    <3>2. i # 0
      BY <3>1 DEF NamedBy
    <3> QED BY <2>2, <3>1, <3>2, BoundsAssumption
  <2> QED BY <1>u, <2>1, <2>2, <2>3, UseStep
<1>9. CASE PublishBegin \/ PublishSym
  BY <1>u, <1>9, MarkStep DEF PublishBegin, PublishSym, disk
<1>10. CASE PublishRoot
  BY <1>e, <1>l, <1>u, <1>10, MarkStep DEF PublishRoot
<1>11. CASE PublishTerm
  <2>1. Lapsed' = Lapsed
    BY <1>0, <1>11 DEF PublishTerm, Lapsed, Typed
  <2> QED BY <1>11, <2>1, MarkStep DEF PublishTerm, disk
<1>12. CASE PublishFlip
  <2>1. /\ pc = "pubFlip" /\ pc' = "idle" /\ UNCHANGED <<tab, facts, spill>>
        /\ snaps' = Append(snaps, tmp)
    BY <1>12 DEF PublishFlip
  <2>2. tmp = tab
    <3>1. \A t \in Tables : tmp[t] = tab[t]
      BY <1>0, <1>e, <2>1 DEF Underway
    <3> QED BY <1>0, <3>1 DEF Typed
  <2>3. Loaded = tab /\ Loaded' = Loaded
    BY <2>1 DEF Loaded
  <2>4. Contract!Publish
    BY <1>u, <2>1, <2>2, <2>3 DEF Contract!Publish, Loaded, Risk, Lapsed
  <2> QED BY <2>1, <2>4 DEF Contract!Next, Contract!Call
<1>13. CASE PublishFail
  <2>1. Lapsed' = Lapsed
    BY <1>0, <1>13 DEF PublishFail, Lapsed, Typed
  <2> QED BY <1>13, <2>1, MarkStep DEF PublishFail, disk
<1>14. CASE UNCHANGED vars
  <2>1. UNCHANGED <<pc, facts, snaps>> /\ Loaded' = Loaded /\ Risk' = Risk /\ Lapsed' = Lapsed
    BY <1>14 DEF vars, Loaded, Risk, Lapsed
  <2> QED BY <2>1 DEF Contract!vars, Loaded, Risk, Lapsed
<1> QED BY <1>1, <1>2, <1>3, <1>4, <1>5, <1>6, <1>7, <1>8, <1>9, <1>10, <1>11, <1>12,
           <1>13, <1>14 DEF Next

(***************************************************************************)
(* The interner and the term store, with every save, failing save, torn    *)
(* append, publish and kill, implement NameContract: a name keeps the one  *)
(* id it got, a stored id its name across processes, a version its own     *)
(* tables.                                                                 *)
(***************************************************************************)
THEOREM VocabularyKeepsContract == Spec => KeepsNameContract
<1>1. Init => Contract!Init
  <2> SUFFICES ASSUME Init PROVE Contract!Init
    OBVIOUS
  <2>1. Loaded = Empty /\ Risk = {} /\ Lapsed = {}
    BY DEF Init, Loaded, Risk, Lapsed
  <2> QED BY <2>1 DEF Init, Contract!Init, Loaded, Risk, Lapsed, Empty
<1>2. VInv /\ VInv' /\ [Next]_vars => [Contract!Next]_(Contract!vars)
  BY NameStep
<1> QED
  BY <1>1, <1>2, VocabularyInvariant, PTL DEF Spec, KeepsNameContract, Contract!Spec

=============================================================================
