------------------------------ MODULE Datalog ------------------------------
(***************************************************************************)
(* Rules as the virtual machine runs them.  A compiled rule stands for its *)
(* ground instances; execRule joins the positive body atoms against the    *)
(* relations, with one or more atoms reading a tuple set instead (a        *)
(* vm_override), and rejects a match when a negated fact is present.       *)
(***************************************************************************)
EXTENDS Integers, Sequences, FiniteSets

CONSTANT Facts      \* ground facts

(***************************************************************************)
(* Step applied n times, for the loops that run to a fixpoint.             *)
(***************************************************************************)
Iterate(Step(_), n, x) ==
    LET it[k \in 0 .. n] == IF k = 0 THEN x ELSE Step(it[k - 1]) IN it[n]

(***************************************************************************)
(* An instance: a head, its positive body atoms in order, and the facts    *)
(* its negated atoms test.                                                 *)
(***************************************************************************)
IsInstance(r) ==
    /\ r.head \in Facts
    /\ r.body \in Seq(Facts)
    /\ r.neg \subseteq Facts

(***************************************************************************)
(* execRule without override: the heads of the instances store satisfies.  *)
(***************************************************************************)
Derive(I, store) ==
    {r.head : r \in {s \in I : /\ \A i \in DOMAIN s.body : s.body[i] \in store
                               /\ s.neg \cap store = {}}}

(***************************************************************************)
(* execRule once for every body atom, that atom reading delta and the      *)
(* others reading store: what a semi-naive round, the insert propagation   *)
(* and the over-delete of DRed run.                                        *)
(***************************************************************************)
Fire(I, delta, store) ==
    {r.head : r \in {s \in I :
        /\ \E i \in DOMAIN s.body :
              /\ s.body[i] \in delta
              /\ \A j \in DOMAIN s.body \ {i} : s.body[j] \in store
        /\ s.neg \cap store = {}}}

=============================================================================
