-------------------------- MODULE ProgramContract --------------------------
(***************************************************************************)
(* What dl.h and vm.h promise of a program of rules, apart from the code:  *)
(* what the batches of a program amount to, what it means, which programs  *)
(* the incremental algorithms are for and what each leaves.  R is a set of *)
(* rules, V what the views hold, B the asserted facts.                     *)
(***************************************************************************)
EXTENDS Evaluate

(***************************************************************************)
(* The accumulation contract: the batches are one program, with the        *)
(* strata, the recursion and the plans of a single load of all the rules.  *)
(***************************************************************************)
OneLoad(R) ==
    LET st == ComputeStrata(Edges(R), {}) IN {Compiled(st, r) : r \in R}

\* dl_compile and dl_query: the program's meaning for the asserted facts.
Evaluation(R, B) == Meaning(SetToSeq(OneLoad(R)), B)

(***************************************************************************)
(* dl_query_rules_ro: a program of its own over the views, as dl_query on  *)
(* a throwaway copy would answer it.                                       *)
(***************************************************************************)
AnswerRo(R, V) == Meaning(SetToSeq(OneLoad(R)), V)

-----------------------------------------------------------------------------
(***************************************************************************)
(* Which programs the increments are for.  Recursion is a cycle of         *)
(* positive dependencies.                                                  *)
(***************************************************************************)
Cycles(R) == Paths({e \in Edges(R) : ~e.neg})

IsRecursive(R, r) == <<r.head, r.head>> \in Cycles(R)

\* A plan all of whose positive atoms can read a delta.
Overridable(R, r) == ~r.opaque /\ (r.via # 0 => <<r.via, r.head>> \in Cycles(R)
                                             /\ <<r.head, r.via>> \in Cycles(R))

(***************************************************************************)
(* vm_ivm_eligible: no negation, overridable plans, and no recursive rule  *)
(* that reads a head outside its own component, recursive or not.          *)
(***************************************************************************)
InsertEligible(R) ==
    \A r \in R :
        /\ ~HasNegation(r)
        /\ Overridable(R, r)
        /\ IsRecursive(R, r) =>
               \A q \in R : q.head \in PosReads(r) => <<r.head, q.head>> \in Cycles(R)

\* vm_has_recursive.
HasRecursion(R) == \E r \in R : IsRecursive(R, r)

\* vm_dred_eligible: no recursion, overridable plans; negation is allowed.
DeleteEligible(R) == \A r \in R : ~IsRecursive(R, r) /\ ~r.opaque /\ r.via = 0

-----------------------------------------------------------------------------
(***************************************************************************)
(* vm_propagate_deltas and vm_execute_ivm: what was derived is kept, and   *)
(* what follows from it and the inserted facts is added.                   *)
(***************************************************************************)
Propagated(R, V) == Closure(UNION {r.inst : r \in R}, V)

Incremented(R, V) == Propagated(R, V)

(***************************************************************************)
(* vm_dred_delete: what is derived through positive atoms from the deleted *)
(* facts D, and the heads that depend on a negation, may go; asserted      *)
(* facts stay.                                                             *)
(***************************************************************************)
OverDeleted(R, V, D) ==
    Iterate(LAMBDA S : S \cup Fire(UNION {r.inst : r \in R}, S, V \cup D), Cardinality(Facts), D)

ResetHeadsOf(R) ==
    LET reads(S) == {r.head : r \in {q \in R : Reads(q) \cap S # {}}}
    IN  Iterate(LAMBDA S : S \cup reads(S), NRels, {r.head : r \in {q \in R : HasNegation(q)}})

Retracts(R, V, B, D, after) ==
    /\ B \subseteq after
    /\ V \ after \subseteq OverDeleted(R, V, D) \cup OfRels(V, ResetHeadsOf(R))
=============================================================================
