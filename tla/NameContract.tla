---------------------------- MODULE NameContract ----------------------------
(***************************************************************************)
(* What dl.h, intern.h and termstore.h promise of ids: a name gets one id  *)
(* and keeps it, an id names one string (or one cons cell) for as long as  *)
(* a stored fact holds it, also across the end of the process, and a       *)
(* published version has its own table, which never changes.  Files and    *)
(* the order of their saves do not occur.                                  *)
(***************************************************************************)
EXTENDS Integers, Sequences

CONSTANTS Names, MaxIds, Tables

VARIABLES
    up,      \* a process has the database open
    names,   \* the tables a process has, or the next one will load
    used,    \* the ids stored facts hold, with the name each stands for
    snaps,   \* the tables of every published version, oldest first
    risk,    \* tables a publish has taken the dirty mark from, see Publish
    lapsed   \* tables that have lost ids that way

vars == <<up, names, used, snaps, risk, lapsed>>

Init ==
    /\ up = FALSE
    /\ names = [t \in Tables |-> <<>>]
    /\ used = {} /\ snaps = <<>> /\ risk = {} /\ lapsed = {}

(***************************************************************************)
(* The smallest id of a name in a table, 0 if the name has none.           *)
(***************************************************************************)
IdIn(s, n) ==
    IF \E i \in DOMAIN s : s[i] = n
    THEN CHOOSE i \in DOMAIN s : s[i] = n /\ \A j \in 1..(i - 1) : s[j] # n
    ELSE 0

(***************************************************************************)
(* dl_intern_str_find.                                                     *)
(***************************************************************************)
Find(t, n) == IdIn(names[t], n)

(***************************************************************************)
(* dl_intern_str_of: the name of an id in range, as a set; NULL is {}.     *)
(***************************************************************************)
StrOf(t, i) == IF i \in DOMAIN names[t] THEN {names[t][i]} ELSE {}

(***************************************************************************)
(* dl_intern_str_of_version: by the version's own table.                   *)
(***************************************************************************)
StrOfVersion(v, t, i) == IF i \in DOMAIN snaps[v][t] THEN {snaps[v][t][i]} ELSE {}

(***************************************************************************)
(* dl_intern_str_version: lookup only, 0 for a name the version lacks.     *)
(***************************************************************************)
FindVersion(v, t, n) == IdIn(snaps[v][t], n)

(***************************************************************************)
(* An id stands for a name, both ways.                                     *)
(***************************************************************************)
Means(t, i, n) == StrOf(t, i) = {n} /\ Find(t, n) = i

-----------------------------------------------------------------------------
(***************************************************************************)
(* A name that has no id gets the next one; one that has keeps it.         *)
(***************************************************************************)
NewId(t, n) ==
    /\ Find(t, n) = 0
    /\ names' = [names EXCEPT ![t] = Append(@, n)]
    /\ UNCHANGED <<used, snaps, risk, lapsed>>

InternStr(n) == NewId("sym", n)

TermCons(cell) == NewId("term", cell)

(***************************************************************************)
(* A fact is stored that holds an id the caller was given.                 *)
(***************************************************************************)
Use(t, i) ==
    /\ \E n \in StrOf(t, i) :
          Find(t, n) = i /\ used' = used \cup {[kind |-> t, id |-> i, name |-> n]}
    /\ risk' \subseteq risk
    /\ UNCHANGED <<names, snaps, lapsed>>

(***************************************************************************)
(* A version gets the tables as they are.  Writing them there marks the    *)
(* live tables as saved, so the next process may lack what only the        *)
(* version has; saving them under the root ends the risk.                  *)
(***************************************************************************)
Publish ==
    /\ snaps' = Append(snaps, names)
    /\ UNCHANGED <<names, used, risk, lapsed>>

Mark == risk' \subseteq Tables /\ UNCHANGED <<names, used, snaps, lapsed>>

Call ==
    \/ \E n \in Names : InternStr(n) \/ TermCons(n)
    \/ \E t \in Tables, i \in 1..MaxIds : Use(t, i)
    \/ Publish \/ Mark

(***************************************************************************)
(* The process ends, in whatever step.  What the next one will load was    *)
(* saved: unused ids may be gone or reassigned, those of stored facts are  *)
(* not.                                                                    *)
(***************************************************************************)
Stop ==
    /\ up' = FALSE
    /\ names' \in [Tables -> Seq(Names)]
    /\ risk' = {}
    /\ lapsed' = lapsed \cup risk
    /\ \A f \in used : f.kind \notin lapsed' => Means(f.kind, f.id, f.name)'
    /\ UNCHANGED <<used, snaps>>

Load == ~up /\ up' = TRUE /\ UNCHANGED <<names, used, snaps, risk, lapsed>>

Next == (up /\ up' = TRUE /\ Call) \/ Stop \/ Load

Spec == Init /\ [][Next]_vars

=============================================================================
