------------------------------ MODULE Stratify ------------------------------
(***************************************************************************)
(* compute_strata: strata and recursion flags of a set of rules, from the  *)
(* dependencies between their relations.                                   *)
(***************************************************************************)
EXTENDS Datalog, FiniteSetsExt

CONSTANT NRels      \* relations are 1 .. NRels

ASSUME NRelsAssumption == NRels \in Nat

Rels == 1 .. NRels

(***************************************************************************)
(* A dependency: the relation to has a rule that reads the relation from,  *)
(* neg for a negated atom.                                                 *)
(***************************************************************************)
Edge == [from : Rels, to : Rels, neg : BOOLEAN]

(***************************************************************************)
(* Stratum numbers as they grow: <<r, k>> says that r is at least in       *)
(* stratum k.  One pass over the dependencies raises each head to what it  *)
(* needs, one more than it reads along the dependencies in up.  The code   *)
(* bounds the passes by 10000; as many as there are relations reach every  *)
(* number that stays finite.                                               *)
(***************************************************************************)
Raise(E, up, S) ==
    S \cup {<<x[1].to, x[2][2] + (IF x[1] \in up THEN 1 ELSE 0)>> :
                x \in {y \in E \X S : y[1].from = y[2][1]}}

Settled(E, up, S) == Iterate(LAMBDA T : Raise(E, up, T), NRels, S)

StratumOf(S, r) == Max({p[2] : p \in {q \in S : q[1] = r}})

(***************************************************************************)
(* Paths along dependencies, and the components of mutually reachable      *)
(* relations (Kosaraju's two depth-first searches).                        *)
(***************************************************************************)
Paths(E) ==
    LET grow(R) == R \cup {<<x[1][1], x[2][2]>> : x \in {y \in R \X R : y[1][2] = y[2][1]}}
    IN  Iterate(grow, NRels, {<<e.from, e.to>> : e \in E})

Component(paths, r) == {r} \cup {q \in Rels : <<r, q>> \in paths /\ <<q, r>> \in paths}

(***************************************************************************)
(* is_recursive: a component of several relations, a relation that reads   *)
(* itself, or one that a rule loaded earlier is recursive for (seed).      *)
(***************************************************************************)
Recursive(E, paths, seed) ==
    seed \cup {r \in Rels : Component(paths, r) # {r}}
         \cup {r \in Rels : \E e \in E : e.from = r /\ e.to = r}

(***************************************************************************)
(* The first assignment refuses negation through a cycle: the numbers on   *)
(* it still grow after the last pass.  The second also puts a reader of a  *)
(* recursive relation above it, unless both are in one component.  At the  *)
(* end the negated relations are compared once more.                       *)
(***************************************************************************)
ComputeStrata(E, seed) ==
    LET neg    == {e \in E : e.neg}
        first  == Settled(E, neg, Rels \X {0})
        paths  == Paths(E \ neg)
        rec    == Recursive(E, paths, seed)
        apart  == neg \cup {e \in E : e.from \in rec /\ e.to \notin Component(paths, e.from)}
        second == Settled(E, apart, first)
    IN  [ok     |-> /\ Raise(E, neg, first) = first
                    /\ Raise(E, apart, second) = second
                    /\ \A e \in neg : StratumOf(second, e.to) > StratumOf(second, e.from),
         strata |-> [r \in Rels |-> StratumOf(second, r)],
         rec    |-> rec]

-----------------------------------------------------------------------------
(***************************************************************************)
(* The meaning: no negation on a cycle of dependencies.                    *)
(***************************************************************************)
Stratifiable(E) ==
    LET paths == Paths(E) IN \A e \in E : e.neg => <<e.to, e.from>> \notin paths /\ e.to # e.from

=============================================================================
