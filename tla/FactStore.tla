----------------------------- MODULE FactStore -----------------------------
(***************************************************************************)
(* What the storage of a relation promises its caller, with no log, file,  *)
(* overlay or read state: a set of facts changed by adds, deletes and bulk *)
(* loads, made durable at cycle boundaries.  An unclean stop of the        *)
(* process loses nothing, one of the machine leaves a set the relation was *)
(* since the last boundary.                                                *)
(*                                                                         *)
(* `open` holds the facts the durability promise does not cover: those a   *)
(* bulk load put beside a log that still speaks of them, and all of them   *)
(* while a save has run ahead of the log.  It is empty without bulk loads  *)
(* and compactions in the middle of a cycle.                               *)
(***************************************************************************)
CONSTANT Facts

VARIABLES facts,  \* the contents every read sees
          may,    \* the contents a power loss may leave
          open    \* the facts the promise leaves open

vars == <<facts, may, open>>

Init == facts = {} /\ may = {{}} /\ open = {}

Agree(S, T) == S \ open = T \ open

\* dl_add_fact: 1 if added, nothing for a duplicate.
AddFact(f) ==
    /\ f \notin facts
    /\ facts' = facts \cup {f}
    /\ may' = may \cup {facts'}
    /\ UNCHANGED open

\* dl_delete_fact: 1 if deleted, nothing for an absent fact.
DeleteFact(f) ==
    /\ f \in facts
    /\ facts' = facts \ {f}
    /\ may' = may \cup {facts'}
    /\ UNCHANGED open

\* dl_load_facts: the rows of the file are added; they are durable at once,
\* or, when saving failed, with the next boundary.
LoadFacts(rows) ==
    /\ facts' = facts \cup rows
    /\ may' \in {{m \cup rows : m \in may}, may \cup {facts'}}
    /\ open' \in {open \cup S : S \in SUBSET rows} \cup {Facts}

\* The WAL's fsync at a publish, a consolidation, a close, and the end of a
\* compaction.
CycleBoundary ==
    /\ may' = {facts}
    /\ open' \in SUBSET open
    /\ UNCHANGED facts

\* A compaction in the middle of a cycle saves the contents first and
\* empties the log after.
RunAhead == open' = Facts /\ UNCHANGED <<facts, may>>

\* The process dies and the relation is opened again.
Die ==
    /\ facts' \in SUBSET Facts
    /\ Agree(facts', facts)
    /\ UNCHANGED <<may, open>>

\* The machine stops and the relation is opened again.
LosePower ==
    /\ facts' \in SUBSET Facts
    /\ \E m \in may : Agree(facts', m)
    /\ may' = {facts'}
    /\ open' = {}

Next ==
    \/ \E f \in Facts : AddFact(f) \/ DeleteFact(f)
    \/ \E rows \in SUBSET Facts : LoadFacts(rows)
    \/ CycleBoundary \/ RunAhead \/ Die \/ LosePower

Spec == Init /\ [][Next]_vars

=============================================================================
