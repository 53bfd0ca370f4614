----------------------------- MODULE SemiNaive -----------------------------
(***************************************************************************)
(* evalStratumRecursive: the semi-naive evaluation of one recursive        *)
(* stratum, from scratch (ivm = 0, after the views were reset to the       *)
(* asserted facts) or incrementally (ivm = 1, from the views of the last   *)
(* cycle and the facts inserted since).                                    *)
(*                                                                         *)
(* What the stratum's rules read besides its recursive heads is fixed      *)
(* while it runs (ext): facts of lower strata, and the non-recursive rules *)
(* of the stratum have reached their fixpoint.                             *)
(***************************************************************************)
EXTENDS Datalog

CONSTANTS Heads,    \* facts of the recursive head relations
          RuleSets  \* sets of instances the rules may have

ASSUME HeadsAssumption == Heads \subseteq Facts

ASSUME RuleSetsAssumption ==
    \A p \in RuleSets : \A r \in p : IsInstance(r) /\ r.head \in Heads /\ r.neg \cap Heads = {}

VARIABLES
    prog,     \* the instances of the stratum's recursive rules
    ivm,      \* the mode
    headBase, \* asserted facts of the heads (BASE)
    ext,      \* the facts of the other relations
    fresh,    \* delta_pending: those inserted since the last cycle
    headView, \* the views of the heads
    idb,      \* rd.idb
    rdDelta,  \* rd.delta
    added,    \* rd.added
    pc        \* "seed", "round", "write", "done"

fixpointVars == <<prog, ivm, headBase, ext, fresh, headView, idb, rdDelta, added, pc>>
inputs == <<prog, ivm, headBase, ext, fresh>>

FixpointTypeOK ==
    /\ prog \in RuleSets
    /\ ivm \in BOOLEAN
    /\ headBase \subseteq Heads
    /\ ext \subseteq Facts \ Heads
    /\ fresh \subseteq ext
    /\ headView \subseteq Heads
    /\ idb \subseteq Heads
    /\ rdDelta \subseteq idb
    /\ added \subseteq idb
    /\ pc \in {"seed", "round", "write", "done"}

-----------------------------------------------------------------------------
(***************************************************************************)
(* The meaning of the stratum: the least set of head facts that contains   *)
(* the asserted ones and is closed under the rules.                        *)
(***************************************************************************)
IsModel(p, b, x, S) == b \subseteq S /\ Derive(p, S \cup x) \subseteq S

Least(p, b, x) == {f \in Heads : \A S \in SUBSET Heads : IsModel(p, b, x, S) => f \in S}

(***************************************************************************)
(* Body atoms over recursive heads.                                        *)
(***************************************************************************)
RecAtoms(r) == {i \in DOMAIN r.body : r.body[i] \in Heads}

Linear(p) == \A r \in p : \A i, j \in RecAtoms(r) : i = j

Positive(p) == \A r \in p : r.neg = {}

-----------------------------------------------------------------------------
(***************************************************************************)
(* vm_execute resets the views to the asserted facts.  vm_execute_ivm      *)
(* finds the views of the last cycle; vm_ivm_eligible has refused programs *)
(* with negation, and an asserted fact of a head forces the full path.     *)
(***************************************************************************)
FixpointInit ==
    /\ prog \in RuleSets
    /\ ivm \in BOOLEAN
    /\ ivm => Positive(prog)
    /\ headBase \in SUBSET Heads
    /\ ext \in SUBSET (Facts \ Heads)
    /\ fresh \in SUBSET ext
    /\ headView = IF ivm THEN Least(prog, headBase, ext \ fresh) ELSE headBase
    /\ idb = {}
    /\ rdDelta = {}
    /\ added = {}
    /\ pc = "seed"

(***************************************************************************)
(* The seed.  From scratch: the rules run on the views, and all they       *)
(* derive is idb and the first delta.  Incrementally: idb is the view, and *)
(* each atom over a relation with fresh facts reads those once.  Without a *)
(* delta there is nothing to write.                                        *)
(***************************************************************************)
SeedRound ==
    /\ pc = "seed"
    /\ LET new == IF ivm THEN Fire(prog, fresh, headView \cup ext) \ headView
                         ELSE Derive(prog, headView \cup ext)
       IN  /\ idb' = IF ivm THEN headView \cup new ELSE new
           /\ rdDelta' = new
           /\ added' = IF ivm THEN new ELSE {}
           /\ pc' = IF new = {} THEN "done" ELSE "round"
    /\ UNCHANGED <<inputs, headView>>

(***************************************************************************)
(* Mutants of the candidates: every recursive atom reads the delta; they   *)
(* are counted without a lookup in idb.                                    *)
(***************************************************************************)
FaultyJoin == Fire(prog, rdDelta, rdDelta \cup ext) \ idb

FaultyFresh == Fire(prog, rdDelta, idb \cup ext)

(***************************************************************************)
(* Candidates that idb does not have: each recursive atom in turn reads    *)
(* the delta, the other recursive atoms read idb.                          *)
(***************************************************************************)
NextDelta == Fire(prog, rdDelta, idb \cup ext) \ idb

(***************************************************************************)
(* One iteration.                                                          *)
(***************************************************************************)
FixpointRound ==
    /\ pc = "round"
    /\ IF NextDelta = {}
       THEN pc' = "write" /\ UNCHANGED <<idb, rdDelta, added>>
       ELSE /\ idb' = idb \cup NextDelta
            /\ rdDelta' = NextDelta
            /\ added' = added \cup NextDelta
            /\ UNCHANGED pc
    /\ UNCHANGED <<inputs, headView>>

(***************************************************************************)
(* From scratch the view is folded into idb and rebuilt from it;           *)
(* incrementally only what was added goes into it.                         *)
(***************************************************************************)
Write ==
    /\ pc = "write"
    /\ headView' = headView \cup (IF ivm THEN added ELSE idb)
    /\ pc' = "done"
    /\ UNCHANGED <<inputs, idb, rdDelta, added>>

FixpointNext == SeedRound \/ FixpointRound \/ Write

FixpointSpec == FixpointInit /\ [][FixpointNext]_fixpointVars

(***************************************************************************)
(* The evaluation is one call that runs to its end.                        *)
(***************************************************************************)
FixpointFairSpec == FixpointSpec /\ WF_fixpointVars(FixpointNext)

-----------------------------------------------------------------------------
(***************************************************************************)
(* Properties.                                                             *)
(***************************************************************************)

(***************************************************************************)
(* From scratch, idb does not contain the asserted facts of the heads, so  *)
(* a rule with two recursive atoms never joins a derived fact with an      *)
(* asserted one (evalStratumRecursive, the ivm = 0 seed).                  *)
(***************************************************************************)
Covered == ivm \/ headBase = {} \/ Linear(prog)

(***************************************************************************)
(* The evaluation derives every fact that follows from the asserted ones   *)
(* and nothing else, in both modes and whatever the rules, where Covered   *)
(* holds: the views it leaves are the least model.  Joining only the last  *)
(* round's delta, atom by atom, misses nothing.                            *)
(***************************************************************************)
Exact == pc = "done" /\ Covered => headView = Least(prog, headBase, ext)

(***************************************************************************)
(* The fixpoint ends; the iteration bound is never what stops it.          *)
(***************************************************************************)
Terminates == <>(pc = "done")

=============================================================================
