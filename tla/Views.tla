------------------------------- MODULE Views -------------------------------
(***************************************************************************)
(* Incremental maintenance of the derived views: the facts a caller adds   *)
(* and deletes between two consolidations, the pending deltas they leave,  *)
(* and the consolidation that brings the views up to date by one of four   *)
(* algorithms: full evaluation, DRed, semi-naive increments, propagation.  *)
(* Rules are loaded in batches that add up to one program.                 *)
(*                                                                         *)
(* A relation's view is relation.d with its overlay, its base is           *)
(* relation.base with the overlay.  One set holds the views of all         *)
(* relations, one the bases.  Aggregates, variadic relations and list and  *)
(* range builtins are not modelled.                                        *)
(***************************************************************************)
EXTENDS ProgramContract

CONSTANTS
    Inputs,     \* the facts the caller may assert
    Programs,   \* the programs it may load: sets of batches, sequences of rules
    Fragile     \* bound: the facts whose loads may fail with the base in place

ASSUME ViewsAssumption ==
    /\ Inputs \subseteq Facts /\ Fragile \subseteq Inputs
    /\ \A p \in Programs : \A b \in p : b \in Seq(Range(b)) /\ \A r \in Range(b) : IsRule(r)

VARIABLES
    rules,  \* crules: the rules with their stratum and is_recursive (rec)
    base,   \* the asserted facts
    view,   \* the facts a query sees
    split,  \* relations whose base and view are separate (rel_reset_view)
    delta,  \* delta_pending
    del,    \* del_pending
    full,   \* full_reeval_pending
    dirty,  \* fixpoint_dirty
    missed, \* history: DRed met an instance that lost two body facts at once
    torn,   \* history: an evaluation failed and nothing remembers it
    untold  \* history: facts of failed loads that no consolidation was told of

vars == <<rules, base, view, split, delta, del, full, dirty, missed, torn, untold>>

-----------------------------------------------------------------------------
(***************************************************************************)
(* Relations and strata.                                                   *)
(***************************************************************************)
Rules == Range(rules)

\* ivmRelIsHead.
HeadRels == {r.head : r \in Rules}

MaxStratum == TopStratum(rules)

(***************************************************************************)
(* Unless all is to be evaluated anew, views contain the asserted facts    *)
(* but those of failed loads, and only heads have others; pending deltas   *)
(* exist only while the views are marked dirty.                            *)
(***************************************************************************)
TypeOK ==
    /\ \A r \in Rules : IsRule(r) /\ r.stratum \in Nat /\ r.rec \in BOOLEAN
    /\ full \/ base \ untold \subseteq view
    /\ untold \subseteq base
    /\ view \subseteq Facts
    /\ RelsOf(view \ base) \subseteq HeadRels
    /\ delta \subseteq Facts
    /\ del \subseteq Facts
    /\ ~dirty => delta = {} /\ del = {} /\ ~full
    /\ split \subseteq HeadRels
    /\ {full, dirty, missed, torn} \subseteq BOOLEAN

-----------------------------------------------------------------------------
\* rel_reset_view of every head.
ResetHeads(R) == (view \ OfRels(view, R)) \cup OfRels(base, R)

Execute(n) == EvalStrata(rules, ResetHeads(HeadRels), FALSE, {}, n)

ExecuteIvm(n) == EvalStrata(rules, view, TRUE, delta, n)

-----------------------------------------------------------------------------
(***************************************************************************)
(* vm_propagate_deltas: a queue of batches, one relation each.  A batch    *)
(* drives every atom over its relation; the heads that are new become a    *)
(* batch of their own.                                                     *)
(***************************************************************************)
PropagateOne(s) ==
    LET fire(t, r) ==
            LET new == Fire(r.inst, Head(s.queue), t.view) \ t.view
            IN  [view  |-> t.view \cup new,
                 queue |-> IF new = {} THEN t.queue ELSE Append(t.queue, new)]
    IN  FoldLeft(fire, [s EXCEPT !.queue = Tail(@)], rules)

Propagate(n) ==
    LET batches == [i \in 1 .. NRels |-> OfRels(delta, {i})]
        start   == [view |-> view, queue |-> SelectSeq(batches, LAMBDA b : b # {})]
    IN  Iterate(LAMBDA s : IF s.queue = <<>> THEN s ELSE PropagateOne(s), n, start).view

MaxBatches == NRels + Cardinality(Facts)

-----------------------------------------------------------------------------
(***************************************************************************)
(* Relations and the heads that read them, however far.                    *)
(***************************************************************************)
Downstream(R) ==
    Iterate(LAMBDA S : S \cup {r.head : r \in {q \in Rules : Reads(q) \cap S # {}}}, NRels, R)

(***************************************************************************)
(* vm_dred_delete.  With negation in the program, the heads of the rules   *)
(* that negate and all that read them are rebuilt from their base.         *)
(* (The mutant forgets those that read them.)                              *)
(***************************************************************************)
FaultyFullReset == {r.head : r \in {q \in Rules : HasNegation(q)}}

FullReset ==
    IF delta \cup del = {} THEN {}
    ELSE Downstream({r.head : r \in {q \in Rules : HasNegation(q)}})

(***************************************************************************)
(* Elsewhere every fact is over-deleted that some instance derives from an *)
(* over-deleted one, the other atoms reading the views as they are.        *)
(***************************************************************************)
Over ==
    LET reset   == FullReset
        I       == UNION {r.inst : r \in {q \in Rules : q.head \notin reset}}
        grow(S) == S \cup Fire(I, S \ OfRels(S, reset), view)
    IN  Iterate(grow, Cardinality(Facts), del)

Affected == Downstream(RelsOf(delta \cup Over) \cup FullReset)

(***************************************************************************)
(* The views without what was over-deleted and is not asserted, the reset  *)
(* heads at their base.                                                    *)
(***************************************************************************)
Pruned ==
    LET reset == FullReset
        over  == Over
        left  == view \ (over \ (base \cup OfRels(over, reset)))
    IN  (left \ OfRels(left, reset)) \cup OfRels(base, reset)

\* Re-derivation of the affected heads of the first n strata.
DRed(n) ==
    LET heads == Affected
        rederive(s, k) ==
            LET seq == SelectSeq(Stratum(rules, k), LAMBDA r : r.head \in heads)
            IN  EvalNonrecursive(Collected(seq), s)
    IN  FoldLeft(rederive, Pruned, [k \in 1 .. n |-> k - 1])

-----------------------------------------------------------------------------
(***************************************************************************)
(* Which algorithm a consolidation runs.                                   *)
(***************************************************************************)
\* vm_ivm_eligible.  (The mutant takes any recursive relation for one's own.)
FaultyIvmEligible ==
    \A r \in Rules :
        /\ ~HasNegation(r) /\ ~r.opaque /\ r.via = 0
        /\ r.rec => \A R \in PosReads(r) \cap HeadRels : \E q \in Rules : q.rec /\ q.head = R

IvmEligible ==
    \A r \in Rules :
        /\ ~HasNegation(r) /\ ~r.opaque
        /\ r.via # 0 => /\ r.perm
                        /\ \E q \in Rules : q.rec /\ q.head = r.via /\ q.stratum = r.stratum
        /\ r.rec => \A R \in PosReads(r) \cap HeadRels :
                        \E q \in Rules : q.rec /\ q.head = R /\ q.stratum = r.stratum

\* vm_dred_eligible.
DredEligible == \A r \in Rules : ~r.rec /\ ~r.opaque /\ r.via = 0

\* vm_has_recursive.
HasRecursive == \E r \in Rules : r.rec

Path ==
    LET decremental == del # {} \/ (delta # {} /\ ~IvmEligible)
    IN  IF full \/ (decremental /\ ~DredEligible) THEN "execute"
        ELSE IF decremental THEN "dred"
        ELSE IF ~IvmEligible THEN "execute"
        ELSE IF HasRecursive THEN "ivm"
        ELSE "propagate"

-----------------------------------------------------------------------------
Init ==
    /\ rules = <<>>
    /\ base = {}
    /\ view = {}
    /\ delta = {}
    /\ del = {}
    /\ split = {}
    /\ full = FALSE
    /\ dirty = FALSE
    /\ missed = FALSE
    /\ torn = FALSE
    /\ untold = {}

(***************************************************************************)
(* The strata of a batch alone (compile_rules) and of all rules, those of  *)
(* earlier batches included; relations recursive so far stay recursive.    *)
(***************************************************************************)
Seed == {r.head : r \in {q \in Rules : q.rec}}

BatchStrata(batch) == ComputeStrata(Edges(Range(batch)), Seed)

UnionStrata(batch) == ComputeStrata(Edges(Rules \cup Range(batch)), Seed)

(***************************************************************************)
(* The batch is planned under its own recursion and that of earlier ones.  *)
(* If the union makes another relation recursive, all rules are planned    *)
(* again under the union's.  Strata and flags of the union are published   *)
(* to every rule.  (The mutant leaves the rules of earlier batches as they *)
(* were.)                                                                  *)
(***************************************************************************)
FaultyPublished(batch) ==
    rules \o [k \in DOMAIN batch |-> Compiled(UnionStrata(batch), batch[k])]

Plans(batch) ==
    LET st  == UnionStrata(batch)
        own == [k \in DOMAIN batch |-> Planned(BatchStrata(batch).rec, batch[k])]
        all == rules \o batch
    IN  IF rules # <<>> /\ st.rec # Seed
        THEN [k \in DOMAIN all |-> Planned(st.rec, all[k])] ELSE rules \o own

Published(batch) ==
    LET st    == UnionStrata(batch)
        plans == Plans(batch)
    IN  [k \in DOMAIN plans |-> Flagged(st, plans[k])]

(***************************************************************************)
(* dl_load_rules of a further batch; each rule is loaded once (a bound).   *)
(* A batch that cannot be stratified, or makes the union so, is refused    *)
(* and leaves the program as it was.                                       *)
(***************************************************************************)
Loadable(batch) == {r.inst : r \in Rules} \cap {r.inst : r \in Range(batch)} = {}

Accepts(batch) == BatchStrata(batch).ok /\ UnionStrata(batch).ok

LoadRules(batch) ==
    /\ Loadable(batch)
    /\ Accepts(batch)
    /\ rules' = Published(batch)
    /\ full' = TRUE
    /\ dirty' = TRUE
    /\ UNCHANGED <<base, view, split, delta, del, missed, torn, untold>>

(***************************************************************************)
(* addFactApply: a fact the view has is a duplicate and is not recorded,   *)
(* be it asserted or derived.                                              *)
(***************************************************************************)
AddFact(f) ==
    /\ IF f \in view
       THEN UNCHANGED <<base, view, delta, full>>
       ELSE /\ base' = base \cup {f}
            /\ view' = view \cup {f}
            /\ IF RelOf[f] \in HeadRels
               THEN full' = TRUE /\ UNCHANGED delta
               ELSE delta' = delta \cup {f} /\ UNCHANGED full
    /\ dirty' = TRUE
    /\ UNCHANGED <<rules, split, del, missed, torn, untold>>

(***************************************************************************)
(* deleteFactApply: the base loses the fact; the view too where the two    *)
(* are one DAFSA.                                                          *)
(***************************************************************************)
DeleteFact(f) ==
    /\ IF f \notin base
       THEN UNCHANGED <<base, view, del>>
       ELSE /\ base' = base \ {f}
            /\ view' = IF RelOf[f] \in split THEN view ELSE view \ {f}
            /\ del' = del \cup {f}
    /\ dirty' = TRUE
    /\ untold' = untold \ {f}
    /\ UNCHANGED <<rules, split, delta, full, missed, torn>>

(***************************************************************************)
(* dl_load_facts of a file with the rows S of one relation, some of them   *)
(* new to its base.  The new base is in place first.                       *)
(***************************************************************************)
LoadBase(S) ==
    /\ Cardinality(RelsOf(S)) = 1
    /\ S \ base # {}
    /\ base' = base \cup S
    /\ view' = IF RelsOf(S) \subseteq split THEN view ELSE view \cup S

LoadFacts(S) ==
    /\ LoadBase(S)
    /\ IF RelsOf(S) \subseteq HeadRels
       THEN full' = TRUE /\ UNCHANGED delta
       ELSE delta' = delta \cup (S \ base) /\ UNCHANGED full
    /\ dirty' = TRUE
    /\ UNCHANGED <<rules, split, del, missed, torn, untold>>

-----------------------------------------------------------------------------
(***************************************************************************)
(* It returns early when the interner or the term store cannot be saved:   *)
(* nothing is pending for the rows the base has by then, and loading the   *)
(* file again finds no new ones.  Only a full evaluation is sure to see    *)
(* them.                                                                   *)
(***************************************************************************)
LoadFactsFail(S) ==
    /\ LoadBase(S)
    /\ untold' = IF full THEN untold ELSE untold \cup (S \ base)
    /\ UNCHANGED <<rules, split, delta, del, full, dirty, missed, torn>>

(***************************************************************************)
(* What a consolidation leaves when its evaluation succeeds.               *)
(***************************************************************************)
Settle ==
    /\ delta' = {}
    /\ del' = {}
    /\ full' = FALSE
    /\ dirty' = FALSE
    /\ UNCHANGED <<rules, base>>

\* vm_execute evaluates everything from the bases.
Evaluated ==
    /\ view' = Execute(MaxStratum + 1)
    /\ split' = HeadRels
    /\ missed' = FALSE
    /\ torn' = FALSE
    /\ untold' = {}

(***************************************************************************)
(* dl_compile: a full evaluation on demand.                                *)
(***************************************************************************)
Compile == rules # <<>> /\ Evaluated /\ Settle

(***************************************************************************)
(* dl_query: the same evaluation, and nothing is settled by it.            *)
(***************************************************************************)
Query ==
    /\ rules # <<>>
    /\ Evaluated
    /\ UNCHANGED <<rules, base, delta, del, full, dirty>>

(***************************************************************************)
(* Either of them failing: the heads are at their base, some strata        *)
(* evaluated, and no flag says so.                                         *)
(***************************************************************************)
EvaluateFail(n) ==
    /\ rules # <<>>
    /\ view' = Execute(n)
    /\ split' = HeadRels
    /\ torn' = (torn \/ ~full)
    /\ UNCHANGED <<rules, base, delta, del, full, dirty, missed, untold>>

(***************************************************************************)
(* consolidateInner, one action per branch.                                *)
(***************************************************************************)
Consolidates(path) == rules # <<>> /\ dirty /\ Path = path

Reevaluate == Consolidates("execute") /\ Evaluated /\ Settle

DRedDelete ==
    /\ Consolidates("dred")
    /\ view' = DRed(MaxStratum + 1)
    /\ missed' = (missed \/ \E r \in Rules : \E i \in r.inst : \E j, k \in DOMAIN i.body :
                     j # k /\ {i.body[j], i.body[k]} \subseteq del \ view)
    /\ Settle
    /\ UNCHANGED <<split, torn, untold>>

Increment ==
    /\ Consolidates("ivm")
    /\ view' = ExecuteIvm(MaxStratum + 1)
    /\ Settle
    /\ UNCHANGED <<split, missed, torn, untold>>

PropagateDeltas ==
    /\ Consolidates("propagate")
    /\ view' = Propagate(MaxBatches)
    /\ Settle
    /\ UNCHANGED <<split, missed, torn, untold>>

(***************************************************************************)
(* vm_execute fails inside a consolidation: it returns at once.  Pending   *)
(* deltas stay pending and bring the next consolidation here again; where  *)
(* there are none, the next change may take an incremental branch.         *)
(***************************************************************************)
ReevaluateFail(n) ==
    /\ Consolidates("execute")
    /\ view' = Execute(n)
    /\ split' = HeadRels
    /\ torn' = (torn \/ (~full /\ delta \cup del = {}))
    /\ UNCHANGED <<rules, base, delta, del, full, dirty, missed, untold>>

(***************************************************************************)
(* An incremental algorithm fails after n of its strata or batches: it has *)
(* dropped the deltas, so the next consolidation evaluates everything.     *)
(***************************************************************************)
IncrementFail(n) ==
    /\ \/ Consolidates("dred") /\ view' \in {view, DRed(n)}
       \/ Consolidates("ivm") /\ view' = ExecuteIvm(n)
       \/ Consolidates("propagate") /\ view' = Propagate(n)
    /\ full' = TRUE
    /\ delta' = {}
    /\ del' = {}
    /\ UNCHANGED <<rules, base, split, dirty, missed, torn, untold>>

Next ==
    \/ \E p \in Programs :
          /\ {r.inst : r \in Rules} \subseteq {r.inst : r \in UNION {Range(b) : b \in p}}
          /\ \E b \in p : LoadRules(b)
    \/ \E f \in Inputs : AddFact(f) \/ DeleteFact(f)
    \/ \E S \in SUBSET Inputs : LoadFacts(S)
    \/ \E S \in SUBSET Fragile : LoadFactsFail(S)
    \/ Compile \/ Query \/ Reevaluate \/ DRedDelete \/ Increment \/ PropagateDeltas
    \/ \E n \in 0 .. MaxStratum : EvaluateFail(n) \/ ReevaluateFail(n) \/ IncrementFail(n)

Spec == Init /\ [][Next]_vars

-----------------------------------------------------------------------------
\* What the program means for the asserted facts.
Model == Evaluation(Rules, base)

(***************************************************************************)
(* Properties.                                                             *)
(***************************************************************************)

(***************************************************************************)
(* Whatever was added, deleted and loaded since the last consolidation,    *)
(* and whichever algorithm it chose - also after one that failed half-way  *)
(* - the views it leaves (fixpoint_dirty = 0) are the model of the         *)
(* asserted facts.  The exceptions are the histories missed, torn and      *)
(* untold, and a program with more rules in a stratum than the evaluation  *)
(* collects.  It is false of a program without recursion that has a rule   *)
(* before one it needs, below a negation (Unlucky in MCViews).             *)
(***************************************************************************)
ViewsExact == rules # <<>> /\ Fits(rules) /\ ~dirty /\ ~missed /\ ~torn /\ untold = {} => view = Model

(***************************************************************************)
(* However the rules were split into loads, they are one program (dl.h,    *)
(* accumulation contract).  A load leaves every rule with the stratum, the *)
(* flag and the plan that loading all of them at once gives; a relation is *)
(* flagged recursive just when positive dependencies lead back to it;      *)
(* negated and recursive relations are below the rules that read them; and *)
(* the next batch is accepted just when all the rules together have no     *)
(* negation on a cycle.  Loads do not depend on the facts: states without  *)
(* facts have every program there is.                                      *)
(***************************************************************************)
OneProgram ==
    base \cup view = {} =>
    LET paths == Cycles(Rules)
    IN  /\ Rules = OneLoad(Rules)
        /\ \A r \in Rules :
              /\ r.rec = IsRecursive(Rules, r)
              /\ \A q \in Rules :
                    \/ q.head \in NegReads(r)
                    \/ q.head \in PosReads(r) /\ q.rec /\ <<r.head, q.head>> \notin paths
                    => q.stratum < r.stratum
        /\ \A b \in UNION Programs :
              Loadable(b) => (Accepts(b) <=> Stratifiable(Edges(Rules \cup Range(b))))

(***************************************************************************)
(* A consolidation takes an incremental algorithm only for a program and a *)
(* change that algorithm is for, everything else takes the full            *)
(* evaluation, and nothing takes it needlessly.  Strata and flags are what *)
(* the code goes by, dependency cycles what is promised.                   *)
(***************************************************************************)
RouteIsEligible ==
    LET path   == Path
        insert == InsertEligible(Rules)
        delete == DeleteEligible(Rules)
    IN  /\ path = "execute" => full \/ (IF del # {} \/ ~insert THEN ~delete \/ delta \cup del = {} ELSE FALSE)
        /\ path = "dred" => delete
        /\ path = "ivm" => insert /\ HasRecursion(Rules) /\ del = {}
        /\ path = "propagate" => insert /\ ~HasRecursion(Rules) /\ del = {}

(***************************************************************************)
(* The route a consolidation takes is one the program is eligible for, and *)
(* it does what that route is for: from views that were in order,          *)
(* propagation and increments keep what was derived and add just what      *)
(* follows; DRed leaves the asserted facts alone and retracts only what    *)
(* depends on a deleted fact or on a negation.                             *)
(***************************************************************************)
RoutesAsPromised ==
    rules # <<>> /\ dirty /\ ~missed /\ ~torn /\ untold = {} =>
    LET path == Path
    IN  /\ RouteIsEligible
        /\ path = "dred" => Retracts(Rules, view, base, del, DRed(MaxStratum + 1))
        /\ path = "ivm" => ExecuteIvm(MaxStratum + 1) = Incremented(Rules, view)
        /\ path = "propagate" => Propagate(MaxBatches) = Propagated(Rules, view)

(***************************************************************************)
(* The promise without the exception for DRed: deleting several facts      *)
(* before one consolidation is as good as deleting them one by one.        *)
(***************************************************************************)
DeletesExact == rules # <<>> /\ Fits(rules) /\ ~dirty /\ ~torn /\ untold = {} => view = Model

=============================================================================
