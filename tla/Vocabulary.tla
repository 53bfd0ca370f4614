----------------------------- MODULE Vocabulary -----------------------------
(***************************************************************************)
(* The two id tables of a database directory and the order in which they   *)
(* reach the disk: the interner (symbols.array: string -> symbol id) and   *)
(* the list term store (terms.bin: cons cell -> list handle).  A fact      *)
(* holds ids, never strings, so a fact keeps its meaning only while the    *)
(* tables a later open loads give its ids the names they had.              *)
(*                                                                         *)
(* An id is a position in the table.  Facts survive the death of a process *)
(* (their WAL records are in the page cache); tables survive it only as    *)
(* far as they were saved under the root of the directory.                 *)
(***************************************************************************)
EXTENDS Integers, Sequences, SequencesExt, FiniteSets

CONSTANTS Names,     \* strings of "sym", cons cells of "term"
          MaxIds,    \* bound: ids of one table
          MaxSnaps   \* bound: published snapshots

ASSUME BoundsAssumption == MaxIds \in Nat /\ MaxSnaps \in Nat

Tables == {"sym", "term"}

VARIABLES
    tab,    \* the table in memory, per kind
    dirty,  \* the table has ids added since its last save
    root,   \* symbols.array and terms.bin under the root
    facts,  \* the ids stored facts refer to, with the name each stands for
    snaps,  \* the tables of every published snapshot, oldest first
    tmp,    \* the tables of the snapshot directory under construction
    lagged, \* root_lagged of the publish under way
    arg,    \* the column of the fact being added
    pc,     \* where the process is
    spill   \* history: see Repaired

vars == <<tab, dirty, root, facts, snaps, tmp, lagged, arg, pc, spill>>
disk == <<root, facts, snaps>>
publishing == <<tmp, lagged>>

Empty == [t \in Tables |-> <<>>]

Refs == [kind : Tables, id : 1..MaxIds, name : Names]

TypeOK ==
    /\ pc \in {"down", "idle", "addSym", "addTerm", "addWal",
               "pubSym", "pubRoot", "pubTerm", "pubFlip"}
    /\ DOMAIN tab = Tables /\ DOMAIN root = Tables /\ DOMAIN tmp = Tables
    /\ \A t \in Tables : \A s \in {tab[t], root[t], tmp[t]} :
            s \in BoundedSeq(Names, MaxIds)
    /\ dirty \in [Tables -> BOOLEAN]
    /\ facts \subseteq Refs
    /\ arg \in [kind : Tables, id : 0..MaxIds]
    /\ Len(snaps) <= MaxSnaps
    /\ lagged \in BOOLEAN
    /\ spill \in [Tables -> {"none", "behind", "lost"}]
    \* A table without unsaved ids is one some file already holds.
    /\ \A t \in Tables :
         pc # "down" /\ ~dirty[t] /\ spill[t] = "none" =>
            tab[t] \in {root[t], tmp[t]} \cup {snaps[i][t] : i \in DOMAIN snaps}

NoArg == [kind |-> "sym", id |-> 0]

Init ==
    /\ tab = Empty
    /\ dirty = [t \in Tables |-> FALSE]
    /\ root = Empty
    /\ facts = {}
    /\ snaps = <<>>
    /\ tmp = Empty
    /\ lagged = FALSE
    /\ arg = NoArg
    /\ pc = "down"
    /\ spill = [t \in Tables |-> "none"]

(***************************************************************************)
(* A publish can clear the dirty flag of a table without saving it under   *)
(* the root: the table is then "behind", and the next write of a fact does *)
(* not save it either.  A root save that follows repairs it; the end of    *)
(* the process before that loses the ids for good.  The properties speak   *)
(* of the tables this has not happened to.                                 *)
(***************************************************************************)
Repaired(saved) ==
    [t \in Tables |-> IF t \in saved /\ spill[t] = "behind" THEN "none" ELSE spill[t]]

Lost == [t \in Tables |-> IF spill[t] = "behind" THEN "lost" ELSE spill[t]]

-----------------------------------------------------------------------------
(***************************************************************************)
(* The table itself.                                                       *)
(***************************************************************************)

\* Mutant: the largest id.
FaultyLookup(s, n) ==
    IF \E i \in DOMAIN s : s[i] = n
    THEN CHOOSE i \in DOMAIN s : s[i] = n /\ \A j \in (i + 1)..Len(s) : s[j] # n
    ELSE 0

(***************************************************************************)
(* lookup / the hash-consing probe: the smallest id of a name, 0 when the  *)
(* name is absent.                                                         *)
(***************************************************************************)
Lookup(s, n) ==
    IF \E i \in DOMAIN s : s[i] = n
    THEN CHOOSE i \in DOMAIN s : s[i] = n /\ \A j \in 1..(i - 1) : s[j] # n
    ELSE 0

(***************************************************************************)
(* intern_str and term_cons: a name that is absent gets the next id.       *)
(***************************************************************************)
Intern(t, n) ==
    /\ pc = "idle"
    /\ Lookup(tab[t], n) = 0
    /\ Len(tab[t]) < MaxIds
    /\ tab' = [tab EXCEPT ![t] = Append(@, n)]
    /\ dirty' = [dirty EXCEPT ![t] = TRUE]
    /\ UNCHANGED <<disk, publishing, arg, pc, spill>>

-----------------------------------------------------------------------------
(***************************************************************************)
(* The process.                                                            *)
(***************************************************************************)

(***************************************************************************)
(* dlOpenCommon: both tables come from the root files, never from a        *)
(* snapshot.                                                               *)
(***************************************************************************)
Open ==
    /\ pc = "down"
    /\ tab' = root
    /\ dirty' = [t \in Tables |-> FALSE]
    /\ pc' = "idle"
    /\ UNCHANGED <<disk, publishing, arg, spill>>

(***************************************************************************)
(* dl_close: what is dirty is saved; a failing save is ignored.            *)
(***************************************************************************)
Close ==
    /\ pc = "idle"
    /\ \E saved \in SUBSET {t \in Tables : dirty[t]} :
        root' = [t \in Tables |-> IF t \in saved THEN tab[t] ELSE root[t]]
    /\ pc' = "down"
    /\ tab' = Empty
    /\ dirty' = [t \in Tables |-> FALSE]
    /\ spill' = Lost
    /\ UNCHANGED <<facts, snaps, publishing, arg>>

(***************************************************************************)
(* The files a process killed in this state may leave: term_save commits   *)
(* by rename, but appendSymbols writes the new lines in place, so a prefix *)
(* of them may be there, the last one cut to another string.               *)
(***************************************************************************)
TornSymbols ==
    LET old == root["sym"] IN
    IF pc \in {"addSym", "pubRoot"} /\ IsStrictPrefix(old, tab["sym"])
    THEN {SubSeq(tab["sym"], 1, i) : i \in Len(old)..Len(tab["sym"])}
         \cup {Append(SubSeq(tab["sym"], 1, i), n) :
                    i \in Len(old)..(Len(tab["sym"]) - 1), n \in Names}
    ELSE {old}

Kill ==
    /\ pc # "down"
    /\ \E s \in TornSymbols : root' = [root EXCEPT !["sym"] = s]
    /\ pc' = "down"
    /\ tab' = Empty
    /\ dirty' = [t \in Tables |-> FALSE]
    /\ arg' = NoArg
    /\ lagged' = FALSE
    /\ spill' = Lost
    /\ UNCHANGED <<facts, snaps, tmp>>

-----------------------------------------------------------------------------
(***************************************************************************)
(* A write that refers to an id: dl_add_fact, its variadic form,           *)
(* dl_cas_revision and dl_txn_commit all save the dirty tables first, the  *)
(* symbols before the terms, and give up when a save fails.  The caller's  *)
(* ids are those intern_str and term_cons gave it.                         *)
(***************************************************************************)
AddFact(t, i) ==
    /\ pc = "idle"
    /\ i \in DOMAIN tab[t] /\ Lookup(tab[t], tab[t][i]) = i
    /\ arg' = [kind |-> t, id |-> i]
    /\ pc' = "addSym"
    /\ UNCHANGED <<tab, dirty, disk, publishing, spill>>

(***************************************************************************)
(* Save table t under the root if it is dirty, then go on.                 *)
(***************************************************************************)
SaveRoot(t, from, to) ==
    /\ pc = from
    /\ root' = IF dirty[t] THEN [root EXCEPT ![t] = tab[t]] ELSE root
    /\ dirty' = [dirty EXCEPT ![t] = FALSE]
    /\ spill' = IF dirty[t] THEN Repaired({t}) ELSE spill
    /\ pc' = to
    /\ UNCHANGED <<tab, facts, snaps, publishing, arg>>

\* Mutant: the record goes to the WAL before the interner is saved.
FaultyAddSaveSym ==
    /\ pc = "addSym"
    /\ pc' = "addTerm"
    /\ UNCHANGED <<tab, dirty, disk, publishing, arg, spill>>

AddSaveSym == SaveRoot("sym", "addSym", "addTerm")

AddSaveTerm == SaveRoot("term", "addTerm", "addWal")

(***************************************************************************)
(* A failing save leaves the table dirty and the old file in place.  One   *)
(* that fails only at the fsync of the directory, behind the rename, shows *)
(* this process the new file; that outcome is left out.                    *)
(***************************************************************************)
AddSaveFail ==
    /\ \/ pc = "addSym" /\ dirty["sym"]
       \/ pc = "addTerm" /\ dirty["term"]
    /\ pc' = "idle"
    /\ arg' = NoArg
    /\ UNCHANGED <<tab, dirty, disk, publishing, spill>>

AddWal ==
    /\ pc = "addWal"
    /\ facts' = facts \cup
         {[kind |-> arg.kind, id |-> arg.id, name |-> tab[arg.kind][arg.id]]}
    /\ pc' = "idle"
    /\ arg' = NoArg
    /\ UNCHANGED <<tab, dirty, root, snaps, publishing, spill>>

(***************************************************************************)
(* dl_load_facts saves both tables whether they are dirty or not, then the *)
(* relation.                                                               *)
(***************************************************************************)
LoadFacts(t, i) ==
    /\ pc = "idle"
    /\ i \in DOMAIN tab[t] /\ Lookup(tab[t], tab[t][i]) = i
    /\ root' = tab
    /\ dirty' = [u \in Tables |-> FALSE]
    /\ facts' = facts \cup {[kind |-> t, id |-> i, name |-> tab[t][i]]}
    /\ spill' = Repaired(Tables)
    /\ UNCHANGED <<tab, snaps, publishing, arg, pc>>

-----------------------------------------------------------------------------
(***************************************************************************)
(* A publish (materializeSnapshot, steps 4a and 4a').                      *)
(***************************************************************************)
PublishBegin ==
    /\ pc = "idle"
    /\ Len(snaps) < MaxSnaps
    /\ tmp' = Empty
    /\ pc' = "pubSym"
    /\ UNCHANGED <<tab, dirty, disk, lagged, arg, spill>>

(***************************************************************************)
(* inheritSymbolsArray: the previous snapshot's array is linked when it    *)
(* holds the same bytes; otherwise intern_save writes it, which clears the *)
(* dirty flag root_lagged was read from.                                   *)
(***************************************************************************)
Inherited == snaps # <<>> /\ Last(snaps)["sym"] = tab["sym"]

PublishSym ==
    /\ pc = "pubSym"
    /\ lagged' = dirty["sym"]
    /\ tmp' = [tmp EXCEPT !["sym"] = tab["sym"]]
    /\ dirty' = IF Inherited THEN dirty ELSE [dirty EXCEPT !["sym"] = FALSE]
    /\ pc' = "pubRoot"
    /\ UNCHANGED <<tab, disk, arg, spill>>

\* Mutant: the snapshot alone gets the new symbols.
FaultyPublishRoot ==
    /\ pc = "pubRoot"
    /\ pc' = "pubTerm"
    /\ UNCHANGED <<tab, dirty, disk, publishing, arg, spill>>

PublishRoot ==
    /\ pc = "pubRoot"
    /\ root' = IF lagged THEN [root EXCEPT !["sym"] = tab["sym"]] ELSE root
    /\ dirty' = IF lagged THEN [dirty EXCEPT !["sym"] = FALSE] ELSE dirty
    /\ spill' = IF lagged THEN Repaired({"sym"}) ELSE spill
    /\ pc' = "pubTerm"
    /\ UNCHANGED <<tab, facts, snaps, publishing, arg>>

(***************************************************************************)
(* term_save into the snapshot directory clears the store's only dirty     *)
(* flag; the root file is not written.                                     *)
(***************************************************************************)
PublishTerm ==
    /\ pc = "pubTerm"
    /\ spill' = IF dirty["term"] /\ spill["term"] = "none"
                THEN [spill EXCEPT !["term"] = "behind"] ELSE spill
    /\ tmp' = [tmp EXCEPT !["term"] = tab["term"]]
    /\ dirty' = [dirty EXCEPT !["term"] = FALSE]
    /\ pc' = "pubFlip"
    /\ UNCHANGED <<tab, disk, lagged, arg>>

(***************************************************************************)
(* The rename and the CURRENT flip.                                        *)
(***************************************************************************)
PublishFlip ==
    /\ pc = "pubFlip"
    /\ snaps' = Append(snaps, tmp)
    /\ tmp' = Empty
    /\ lagged' = FALSE
    /\ pc' = "idle"
    /\ UNCHANGED <<tab, dirty, root, facts, arg, spill>>

(***************************************************************************)
(* dlPublishFail: the directory under construction goes, nothing else is   *)
(* undone, the dirty flag PublishSym cleared included.                     *)
(***************************************************************************)
PublishFail ==
    /\ \/ /\ pc \in {"pubSym", "pubTerm", "pubFlip"}
          /\ UNCHANGED spill
       \/ /\ pc = "pubRoot"
          /\ lagged
          /\ spill' = IF ~dirty["sym"] /\ spill["sym"] = "none"
                      THEN [spill EXCEPT !["sym"] = "behind"] ELSE spill
    /\ tmp' = Empty
    /\ lagged' = FALSE
    /\ pc' = "idle"
    /\ UNCHANGED <<tab, dirty, disk, arg>>

-----------------------------------------------------------------------------
Next ==
    \/ \E t \in Tables, n \in Names : Intern(t, n)
    \/ Open \/ Close \/ Kill
    \/ \E t \in Tables, i \in 1..MaxIds : AddFact(t, i) \/ LoadFacts(t, i)
    \/ AddSaveSym \/ AddSaveTerm \/ AddSaveFail \/ AddWal
    \/ PublishBegin \/ PublishSym \/ PublishRoot \/ PublishTerm
    \/ PublishFlip \/ PublishFail

Spec == Init /\ [][Next]_vars

-----------------------------------------------------------------------------
(***************************************************************************)
(* Properties.                                                             *)
(***************************************************************************)

(***************************************************************************)
(* The two tables implement NameContract, wherever the process ends        *)
(* between a save and the record that needs it: the interner and the term  *)
(* store are on disk before a record that refers to their ids, the order   *)
(* dl_add_fact, dl_txn_commit and dl_load_facts promise, and a version     *)
(* gets both tables as they are.                                           *)
(***************************************************************************)
Contract == INSTANCE NameContract WITH
    up     <- pc # "down",
    names  <- IF pc = "down" THEN root ELSE tab,
    used   <- facts,
    risk   <- {t \in Tables : spill[t] = "behind"},
    lapsed <- {t \in Tables : spill[t] = "lost"}

KeepsNameContract == Contract!Spec

(***************************************************************************)
(* Whatever was killed, torn, retried or published in between, every id a  *)
(* stored fact holds names in the open process what it named when the fact *)
(* was written, and looking that name up gives that id back: queries by    *)
(* name still find the fact (intern_load, lookup, term_load).              *)
(***************************************************************************)
FactsKeepMeaning ==
    pc # "down" =>
        \A f \in {g \in facts : spill[g.kind] # "lost"} :
            /\ Contract!StrOf(f.kind, f.id) = {f.name}
            /\ Lookup(tab[f.kind], f.name) = f.id

(***************************************************************************)
(* No id of a published version is ever handed to another name: the live   *)
(* tables read the version's ids and names as the version itself does, so  *)
(* the rows a version read returns can be named by them.                   *)
(***************************************************************************)
SnapshotIdsHold ==
    pc # "down" =>
        \A v \in DOMAIN snaps : \A t \in {u \in Tables : spill[u] # "lost"} :
            /\ \A i \in 1..MaxIds : Contract!StrOfVersion(v, t, i) \subseteq Contract!StrOf(t, i)
            /\ \A n \in Names : Contract!FindVersion(v, t, n) \in {0, Lookup(tab[t], n)}

=============================================================================
