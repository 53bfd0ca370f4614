------------------------------ MODULE Queries ------------------------------
(***************************************************************************)
(* Queries that bring their own rules: dl_query_rules_ro for stratified    *)
(* ones, and dl_query_wfs_ro, which answers programs with negation through *)
(* a cycle by van Gelder's alternating fixpoint.  Both run on a clone of   *)
(* the database that Views maintains and change nothing; store is what     *)
(* its views hold.                                                         *)
(***************************************************************************)
EXTENDS Views

CONSTANTS
    ValuesOf,       \* the column values of a fact
    RebuildDenom,   \* WFS_REBUILD_DENOM (8 in the code)
    AdHoc           \* the programs of the queries: sequences of rules

ASSUME QueriesAssumption ==
    /\ DOMAIN ValuesOf = Facts /\ RebuildDenom \in Nat
    /\ \A q \in AdHoc : \A k \in DOMAIN q : IsRule(q[k])

HeadsOf(q) == {r.head : r \in Range(q)}

NegatedBy(q) == UNION {NegReads(r) : r \in Range(q)}

(***************************************************************************)
(* dl_query_rules_ro: the rules compiled alone and evaluated from scratch, *)
(* the heads being copies of the views they collide with.                  *)
(***************************************************************************)
QueryStrata(q) == ComputeStrata(Edges(Range(q)), {})

Failed == [ok |-> FALSE, facts |-> {}]

VmExecute(prog, store) == EvalStrata(prog, store, FALSE, {}, TopStratum(prog) + 1)

ExecuteUnder(st, q, store) ==
    IF st.ok THEN [ok |-> TRUE, facts |-> VmExecute([k \in DOMAIN q |-> Compiled(st, q[k])], store)]
             ELSE Failed

QueryRulesRo(q, store) == ExecuteUnder(QueryStrata(q), q, store)

-----------------------------------------------------------------------------
(***************************************************************************)
(* buildDomain: the values of the store and the constants of the rules.  A *)
(* value of a head or of a negated atom that no positive atom binds is a   *)
(* constant (checkSubset).  (The mutant leaves the constants out.)         *)
(***************************************************************************)
ValuesIn(S) == UNION {ValuesOf[f] : f \in S}

Constants(r) == UNION {ValuesIn({i.head} \cup i.neg) \ ValuesIn(Range(i.body)) : i \in r.inst}

FaultyActiveDomain(q, store) == ValuesIn(store)

ActiveDomain(q, store) == ValuesIn(store) \cup UNION {Constants(r) : r \in Range(q)}

\* enumerateProduct: what a relation P could hold.
Full(dom, P) == {f : f \in {g \in Facts : RelOf[g] = P /\ ValuesOf[g] \subseteq dom}}

(***************************************************************************)
(* The operator of the alternation: the program with each negated atom     *)
(* replaced by a positive one over the complement installed for it, which  *)
(* no rule writes, evaluated from scratch.                                 *)
(***************************************************************************)
Rewritten(q, complement) ==
    LET st == ComputeStrata({e \in Edges(Range(q)) : ~e.neg}, {})
    IN  [k \in DOMAIN q |->
            [Compiled(st, q[k]) EXCEPT
                !.inst = {[i EXCEPT !.neg = {}] : i \in {j \in @ : j.neg \subseteq complement}}]]

Gamma(q, store, complement) == OfRels(VmExecute(Rewritten(q, complement), store), HeadsOf(q))

(***************************************************************************)
(* The complement of the relation P for round k.  Each parity has its own  *)
(* materialisation, two rounds old; it takes the difference between S[k-2] *)
(* (prev3) and S[k] (prev) if that is small, and is rebuilt otherwise.     *)
(***************************************************************************)
Refreshed(dom, s, P) ==
    LET new     == OfRels(s.prev, {P})
        old     == OfRels(s.prev3, {P})
        entered == new \ old
        left    == old \ new
        filled  == Full(dom, P)
        changes == Cardinality(entered) + Cardinality(left)
    IN  IF s.round >= 2 /\ changes * RebuildDenom <= Cardinality(filled)
        THEN (OfRels(s.rels[s.round % 2], {P}) \ entered) \cup (left \cap filled)
        ELSE filled \ new

(***************************************************************************)
(* One round: refresh and install the complements, verify them             *)
(* (WFSVERIFY), evaluate, compare with the last two points, rotate.        *)
(***************************************************************************)
Verified(q, dom, s, complement) ==
    complement = UNION {Full(dom, P) \ s.prev : P \in NegatedBy(q)}

Compared(s, cur) ==
    IF cur = s.prev THEN "fixpoint"
    ELSE IF s.round >= 1 /\ cur = s.prev2 THEN "cycle"
    ELSE "running"

Rotated(s, complement, cur) ==
    IF Compared(s, cur) = "running"
    THEN [round |-> s.round + 1, prev |-> cur, prev2 |-> s.prev, prev3 |-> s.prev2,
          rels |-> [s.rels EXCEPT ![s.round % 2] = complement], cur |-> cur, end |-> "running"]
    ELSE [s EXCEPT !.cur = cur, !.end = Compared(s, cur)]

Installed(q, store, dom, s, complement) ==
    IF Verified(q, dom, s, complement)
    THEN Rotated(s, complement, Gamma(q, store, complement))
    ELSE [s EXCEPT !.end = "internal"]

Round(q, store, dom, s) ==
    Installed(q, store, dom, s, UNION {Refreshed(dom, s, P) : P \in NegatedBy(q)})

(***************************************************************************)
(* The bound on rounds: 10000 in the code.  Every second point grows, so   *)
(* twice as many as there are facts are enough.                            *)
(***************************************************************************)
RoundBound == 2 * Cardinality(Facts) + 2

Alternation(q, store) ==
    LET dom   == ActiveDomain(q, store)
        S0    == OfRels(store, HeadsOf(q))
        first == [round |-> 0, prev |-> S0, prev2 |-> {}, prev3 |-> {},
                  rels |-> [parity \in 0 .. 1 |-> {}], cur |-> {}, end |-> "running"]
    IN  Iterate(LAMBDA s : IF s.end = "running" THEN Round(q, store, dom, s) ELSE s,
                RoundBound, first)

(***************************************************************************)
(* checkNegatedAreHeads, the stratified fast path, the alternation and the *)
(* answer: the fixpoint, or the intersection of the two points of a cycle, *)
(* which must be comparable.                                               *)
(***************************************************************************)
NegatedAreHeads(q) == NegatedBy(q) \subseteq HeadsOf(q)

Comparable(A, B) ==
    \A P \in Rels : LET a == OfRels(A, {P})
                        b == OfRels(B, {P}) IN a \subseteq b \/ b \subseteq a

Answer(q, store, s) ==
    LET stored == store \ OfRels(store, HeadsOf(q))
    IN  CASE s.end = "fixpoint" -> [ok |-> TRUE, facts |-> stored \cup s.cur]
          [] s.end = "cycle" /\ Comparable(s.cur, s.prev) ->
                [ok |-> TRUE, facts |-> stored \cup (s.cur \cap s.prev)]
          [] OTHER -> Failed

WfsEvalQuery(q, store) ==
    IF ~NegatedAreHeads(q) THEN Failed
    ELSE IF QueryStrata(q).ok THEN QueryRulesRo(q, store)
    ELSE Answer(q, store, Alternation(q, store))

-----------------------------------------------------------------------------
(***************************************************************************)
(* The well-founded model, by unfounded sets: a fact is false when every   *)
(* derivation of it has a false fact, the negation of a true one, or needs *)
(* another such fact first.                                                *)
(***************************************************************************)
Founded(I, store, true, false) ==
    LET usable  == {i \in I : Range(i.body) \cap false = {} /\ i.neg \cap true = {}}
        grow(S) == S \cup {i.head : i \in {j \in usable : Range(j.body) \subseteq S}}
    IN  Iterate(grow, Cardinality(Facts), store)

WellFoundedModel(q, store) ==
    LET I       == UNION {r.inst : r \in Range(q)}
        holds(m, i) == Range(i.body) \subseteq m.true /\ i.neg \subseteq m.false
        step(m) == [true  |-> m.true \cup {i.head : i \in {j \in I : holds(m, j)}},
                    false |-> Facts \ Founded(I, store, m.true, m.false)]
    IN  Iterate(step, 2 * Cardinality(Facts), [true |-> store, false |-> {}])

-----------------------------------------------------------------------------
(***************************************************************************)
(* Queries with rules of their own.  dl_query_rules_ro refuses a program   *)
(* just when it has negation on a cycle, and answers any other as a full   *)
(* evaluation on a copy would.  dl_query_wfs_ro answers every program of   *)
(* its subset, stratified or not, with exactly the true facts of the       *)
(* well-founded model over the stored facts, heads that are stored         *)
(* relations too included; of a stratified one that is the same answer     *)
(* (dl.h:566-583).  The answer is a function of what is stored: the states *)
(* with facts that were only added have every case.                        *)
(***************************************************************************)
WfsExact ==
    rules = <<>> /\ delta = base /\ del = {} =>
    \A q \in AdHoc : Len(q) <= StratumCap =>
        LET ro     == QueryRulesRo(q, view)
            answer == WfsEvalQuery(q, view)
        IN  /\ ro.ok <=> Stratifiable(Edges(Range(q)))
            /\ ro.ok => ro.facts = AnswerRo(Range(q), view)
            /\ NegatedAreHeads(q) =>
                  /\ answer.ok /\ answer.facts = WellFoundedModel(q, view).true
                  /\ ro.ok => answer = ro

=============================================================================
