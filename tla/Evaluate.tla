------------------------------ MODULE Evaluate ------------------------------
(***************************************************************************)
(* vm_execute: the evaluation of a compiled program over a store, stratum  *)
(* by stratum, as operators.  Views runs it on the database's own rules,   *)
(* Queries on the rules of a query.                                        *)
(***************************************************************************)
EXTENDS Stratify, SequencesExt

CONSTANTS
    RelOf,      \* the relation of a fact
    StratumCap  \* rules a stratum is evaluated with (256 in the code)

ASSUME EvaluateAssumption == RelOf \in [Facts -> Rels] /\ StratumCap \in Nat

OfRels(S, R) == {f \in S : RelOf[f] \in R}

RelsOf(S) == {RelOf[f] : f \in S}

\* The relations its positive and its negated atoms read.
PosReads(r) == UNION {RelsOf(Range(i.body)) : i \in r.inst}

NegReads(r) == UNION {RelsOf(i.neg) : i \in r.inst}

HasNegation(r) == \E i \in r.inst : i.neg # {}

\* dredRuleReads.
Reads(r) == PosReads(r) \cup NegReads(r)

(***************************************************************************)
(* A rule: head relation, its ground instances, the relation it reads by a *)
(* join on other than the leading columns (via, 0 for none), and whether   *)
(* its plan has a walk or a materialised half (opaque).                    *)
(***************************************************************************)
IsRule(r) ==
    /\ r.head \in Rels
    /\ r.opaque \in BOOLEAN
    /\ r.via \in {0} \cup PosReads(r)
    /\ \A i \in r.inst : IsInstance(i) /\ RelOf[i.head] = r.head

(***************************************************************************)
(* The dependencies of a set of rules.                                     *)
(***************************************************************************)
Edges(R) ==
    UNION {{[from |-> q, to |-> r.head, neg |-> FALSE] : q \in PosReads(r)} \cup
           {[from |-> q, to |-> r.head, neg |-> TRUE]  : q \in NegReads(r)} : r \in R}

(***************************************************************************)
(* A rule planned under the recursion vector rec: the join on other than   *)
(* leading columns is a permutation lookup (perm) if its relation is       *)
(* recursive, else a hash join (or a lookup, for a large relation, which   *)
(* the increments do not follow either).                                   *)
(***************************************************************************)
Planned(rec, r) ==
    [head |-> r.head, opaque |-> r.opaque, via |-> r.via, inst |-> r.inst, perm |-> r.via \in rec]

\* With stratum and is_recursive, whatever they were.
Flagged(st, r) ==
    [head |-> r.head, opaque |-> r.opaque, via |-> r.via, inst |-> r.inst, perm |-> r.perm,
     stratum |-> st.strata[r.head], rec |-> r.head \in st.rec]

Compiled(st, r) == Flagged(st, Planned(st.rec, r))

-----------------------------------------------------------------------------
Stratum(seq, s) == SelectSeq(seq, LAMBDA r : r.stratum = s)

(***************************************************************************)
(* Evaluating stratum by stratum, the code collects a stratum's rules in   *)
(* an array and drops those beyond its end.                                *)
(***************************************************************************)
Collected(seq) == SubSeq(seq, 1, Min({Len(seq), StratumCap}))

TopStratum(seq) == Max({0} \cup {r.stratum : r \in Range(seq)})

(***************************************************************************)
(* ruleStratumOrder: low strata first, source order within one.            *)
(***************************************************************************)
StratumOrder(seq) == FlattenSeq([s \in 1 .. TopStratum(seq) + 1 |-> Stratum(seq, s - 1)])

(***************************************************************************)
(* evalNonrecursive: at most Len(seq) + 1 passes over the rules, each rule *)
(* reading what the ones before it have committed (execRuleBatched).       *)
(***************************************************************************)
Pass(seq, store) == FoldLeft(LAMBDA s, r : s \cup Derive(r.inst, s), store, seq)

EvalNonrecursive(seq, store) ==
    LET order == StratumOrder(seq)
    IN  Iterate(LAMBDA s : Pass(order, s), Len(seq) + 1, store)

(***************************************************************************)
(* evalStratumRecursive: the stratum's other rules first, then the seed    *)
(* and the semi-naive rounds (module SemiNaive has them step by step).  An *)
(* increment (ivm) starts from the views, and only joins the delta.        *)
(***************************************************************************)
EvalRecursive(seq, store, ivm, delta) ==
    LET s1    == EvalNonrecursive(SelectSeq(seq, LAMBDA r : ~r.rec), store)
        rec   == {r \in Range(seq) : r.rec}
        I     == UNION {r.inst : r \in rec}
        own   == {r.head : r \in rec}
        ext   == s1 \ OfRels(s1, own)
        start == IF ivm THEN OfRels(s1, own) ELSE {}
        seed  == IF ivm THEN Fire(I, delta \ OfRels(delta, own), s1) ELSE Derive(I, s1)
        round(p) ==
            LET nd == Fire(I, p.new, p.idb \cup ext) \ p.idb
            IN  [idb |-> p.idb \cup nd, new |-> nd]
        first == [idb |-> start \cup seed, new |-> seed \ start]
    IN  s1 \cup Iterate(round, Cardinality(Facts), first).idb

(***************************************************************************)
(* vmExecuteMode up to stratum n: without a recursive rule one             *)
(* evalNonrecursive over the whole program, else stratum by stratum.       *)
(***************************************************************************)
EvalStrata(prog, store, ivm, delta, n) ==
    LET eval(s, k) ==
            LET seq == Stratum(prog, k)
            IN  IF \E r \in Range(seq) : r.rec
                THEN EvalRecursive(Collected(seq), s, ivm, delta)
                ELSE EvalNonrecursive(Collected(seq), s)
    IN  IF \E r \in Range(prog) : r.rec
        THEN FoldLeft(eval, store, [k \in 1 .. n |-> k - 1])
        ELSE EvalNonrecursive(SelectSeq(prog, LAMBDA r : r.stratum < n), store)

-----------------------------------------------------------------------------
(***************************************************************************)
(* The meaning of a program, defined apart from the evaluator: stratum by  *)
(* stratum, the least set closed under the rules of the stratum.           *)
(***************************************************************************)
Closure(I, S) == Iterate(LAMBDA c : c \cup Derive(I, c), Cardinality(Facts), S)

Meaning(prog, S) ==
    FoldLeft(LAMBDA T, k : Closure(UNION {r.inst : r \in {q \in Range(prog) : q.stratum = k}}, T),
             S, [k \in 1 .. TopStratum(prog) + 1 |-> k - 1])

\* No rule is dropped.
Fits(prog) == \A k \in 0 .. TopStratum(prog) : Len(Stratum(prog, k)) <= StratumCap

=============================================================================
