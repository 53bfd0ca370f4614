--------------------------- MODULE ProgramProofs ---------------------------
(***************************************************************************)
(* Semi-naive evaluation is exact for every set of rules, facts and        *)
(* inserted facts: the proof of []Exact.                                   *)
(*                                                                         *)
(* Soundness is that idb stays within the least model.  Completeness is    *)
(* that an instance whose body idb satisfies either has its head in idb    *)
(* already or reads the last delta, so the round that finds no candidate   *)
(* leaves idb closed.                                                      *)
(*                                                                         *)
(* The second part is about the strata that evaluation works through       *)
(* (Stratify): which rules compute_strata accepts, and what it promises of *)
(* their order.                                                            *)
(*                                                                         *)
(* The third part is about the program those strata are of (Views): that   *)
(* rules loaded in batches are one program, and that its flags send every  *)
(* head to the route its rules call for.                                   *)
(*                                                                         *)
(* The fourth part is about queries with rules (Queries): the complements  *)
(* that the alternation keeps by differences are exact.                    *)
(***************************************************************************)
EXTENDS Queries, SemiNaive, FiniteSetTheorems, WellFoundedInduction, TLAPS

Closed(p, x, S) == Derive(p, S \cup x) \subseteq S

(***************************************************************************)
(* What the instance reads beyond delta has been derived already.          *)
(***************************************************************************)
Pending(p, x, S, d) ==
    \A r \in p :
        /\ \A i \in DOMAIN r.body : r.body[i] \in S \cup x
        /\ r.neg \cap x = {}
        => r.head \in S \/ \E i \in DOMAIN r.body : r.body[i] \in d

SeedInv ==
    pc = "seed" =>
        /\ ivm => Positive(prog) /\ headView = Least(prog, headBase, ext \ fresh)
        /\ ~ivm => headView = headBase

WorkInv ==
    pc \in {"round", "write"} =>
        /\ idb \subseteq Least(prog, headBase, ext)
        /\ Pending(prog, ext, idb, rdDelta)
        /\ ivm => headBase \subseteq headView /\ idb = headView \cup added
        /\ ~ivm => headView = headBase /\ Derive(prog, headBase \cup ext) \subseteq idb

WriteInv == pc = "write" => Closed(prog, ext, idb)

IInv == FixpointTypeOK /\ SeedInv /\ WorkInv /\ WriteInv /\ Exact

(***************************************************************************)
(* What a rule of a stratum derives is a fact of its heads, and its        *)
(* negated atoms read only what is below the stratum.                      *)
(***************************************************************************)
LEMMA InstanceShape ==
    ASSUME NEW p \in RuleSets, NEW r \in p
    PROVE  r.head \in Heads /\ r.neg \cap Heads = {}
  BY RuleSetsAssumption

\* Rules derive heads only.
LEMMA HeadsOnly ==
    ASSUME NEW p \in RuleSets, NEW s, NEW d
    PROVE  Derive(p, s) \subseteq Heads /\ Fire(p, d, s) \subseteq Heads
  BY InstanceShape DEF Derive, Fire

(***************************************************************************)
(* Least is a model, and lies within every model.                          *)
(***************************************************************************)
LEMMA LeastInHeads ==
    ASSUME NEW p, NEW b, NEW x
    PROVE  Least(p, b, x) \subseteq Heads
  BY DEF Least

\* The least model is below every model.
LEMMA LeastBelow ==
    ASSUME NEW p, NEW b, NEW x, NEW S \in SUBSET Heads, IsModel(p, b, x, S)
    PROVE  Least(p, b, x) \subseteq S
  BY DEF Least

\* The least model is a model.
LEMMA LeastIsModel ==
    ASSUME NEW p \in RuleSets, NEW b \in SUBSET Heads, NEW x
    PROVE  IsModel(p, b, x, Least(p, b, x))
<1> DEFINE L == Least(p, b, x)
<1>1. b \subseteq L
  BY DEF Least, IsModel
<1>2. ASSUME NEW r \in p,
             \A i \in DOMAIN r.body : r.body[i] \in L \cup x,
             r.neg \cap (L \cup x) = {}
      PROVE  r.head \in L
  <2>1. r.head \in Heads /\ r.neg \cap Heads = {}
    BY InstanceShape
  <2>2. ASSUME NEW S \in SUBSET Heads, IsModel(p, b, x, S)
        PROVE  r.head \in S
    <3>1. \A i \in DOMAIN r.body : r.body[i] \in S \cup x
      BY <1>2, <2>2, LeastBelow
    <3>2. r.neg \cap (S \cup x) = {}
      BY <1>2, <2>1
    <3> QED
      BY <2>2, <3>1, <3>2 DEF IsModel, Derive
  <2> QED
    BY <2>1, <2>2 DEF Least
<1>3. Derive(p, L \cup x) \subseteq L
  BY <1>2 DEF Derive
<1> QED
  BY <1>1, <1>3 DEF IsModel

(***************************************************************************)
(* What a round derives from facts of the least model is in it.            *)
(***************************************************************************)
LEMMA FireSound ==
    ASSUME NEW p \in RuleSets, NEW b \in SUBSET Heads, NEW x, NEW S, NEW d,
           S \subseteq Least(p, b, x), d \subseteq S \cup x
    PROVE  Fire(p, d, S \cup x) \subseteq Least(p, b, x)
<1> DEFINE L == Least(p, b, x)
<1>1. ASSUME NEW r \in p,
             NEW i \in DOMAIN r.body,
             r.body[i] \in d,
             \A j \in DOMAIN r.body \ {i} : r.body[j] \in S \cup x,
             r.neg \cap (S \cup x) = {}
      PROVE  r.head \in L
  <2>1. \A j \in DOMAIN r.body : r.body[j] \in L \cup x
    BY <1>1
  <2>2. r.neg \cap (L \cup x) = {}
    BY <1>1, InstanceShape, LeastInHeads
  <2>3. r.head \in Derive(p, L \cup x)
    BY <2>1, <2>2 DEF Derive
  <2> QED
    BY <2>3, LeastIsModel DEF IsModel
<1> QED
  BY <1>1 DEF Fire

(***************************************************************************)
(* Deriving from scratch from facts of the least model stays in it.        *)
(***************************************************************************)
LEMMA DeriveSound ==
    ASSUME NEW p \in RuleSets, NEW b \in SUBSET Heads, NEW x, NEW S,
           S \subseteq Least(p, b, x)
    PROVE  Derive(p, S \cup x) \subseteq Least(p, b, x)
<1> DEFINE L == Least(p, b, x)
<1>1. ASSUME NEW r \in p,
             \A i \in DOMAIN r.body : r.body[i] \in S \cup x,
             r.neg \cap (S \cup x) = {}
      PROVE  r.head \in L
  <2>1. r.neg \cap (L \cup x) = {}
    BY <1>1, InstanceShape, LeastInHeads
  <2>2. r.head \in Derive(p, L \cup x)
    BY <1>1, <2>1 DEF Derive
  <2> QED
    BY <2>2, LeastIsModel DEF IsModel
<1> QED
  BY <1>1 DEF Derive

(***************************************************************************)
(* The next round's candidates keep the Pending relation, and finding none *)
(* means that idb is closed.                                               *)
(***************************************************************************)
LEMMA RoundKeepsPending ==
    ASSUME NEW p \in RuleSets, NEW x, NEW S \in SUBSET Heads, NEW d \in SUBSET S,
           Pending(p, x, S, d)
    PROVE  LET nd == Fire(p, d, S \cup x) \ S
           IN  Pending(p, x, S \cup nd, nd)
<1> DEFINE nd == Fire(p, d, S \cup x) \ S
<1>1. ASSUME NEW r \in p,
             \A i \in DOMAIN r.body : r.body[i] \in (S \cup nd) \cup x,
             r.neg \cap x = {},
             \A i \in DOMAIN r.body : r.body[i] \notin nd
      PROVE  r.head \in S \cup nd
  <2>1. \A i \in DOMAIN r.body : r.body[i] \in S \cup x
    BY <1>1
  <2>2. CASE r.head \in S
    BY <2>2
  <2>3. CASE \E i \in DOMAIN r.body : r.body[i] \in d
    <3>1. r.neg \cap (S \cup x) = {}
      BY <1>1, InstanceShape
    <3> QED
      BY <2>1, <2>3, <3>1 DEF Fire
  <2> QED
    BY <1>1, <2>1, <2>2, <2>3 DEF Pending
<1> QED
  BY <1>1 DEF Pending

\* A round that derives nothing new from its delta leaves a closed set: the loop of run_stratum may stop.
LEMMA NoCandidatesClosed ==
    ASSUME NEW p \in RuleSets, NEW x, NEW S \in SUBSET Heads, NEW d \in SUBSET S,
           Pending(p, x, S, d),
           Fire(p, d, S \cup x) \subseteq S
    PROVE  Closed(p, x, S)
<1>1. ASSUME NEW r \in p,
             \A i \in DOMAIN r.body : r.body[i] \in S \cup x,
             r.neg \cap (S \cup x) = {}
      PROVE  r.head \in S
  <2>1. CASE \E i \in DOMAIN r.body : r.body[i] \in d
    BY <1>1, <2>1 DEF Fire
  <2>2. CASE ~\E i \in DOMAIN r.body : r.body[i] \in d
    BY <1>1, <2>2 DEF Pending
  <2> QED
    BY <2>1, <2>2
<1> QED
  BY <1>1 DEF Closed, Derive

(***************************************************************************)
(* The seeds establish it: from scratch, every rule has run on the         *)
(* asserted facts; incrementally, on every atom that reads a fresh fact.   *)
(***************************************************************************)
LEMMA ScratchSeed ==
    ASSUME NEW p \in RuleSets, NEW b \in SUBSET Heads, NEW x
    PROVE  LET new == Derive(p, b \cup x) IN Pending(p, x, new, new)
<1> DEFINE new == Derive(p, b \cup x)
<1>1. ASSUME NEW r \in p,
             \A i \in DOMAIN r.body : r.body[i] \in new \cup x,
             r.neg \cap x = {},
             \A i \in DOMAIN r.body : r.body[i] \notin new
      PROVE  r.head \in new
  <2>1. r.neg \cap (b \cup x) = {}
    BY <1>1, InstanceShape
  <2>2. \A i \in DOMAIN r.body : r.body[i] \in b \cup x
    BY <1>1
  <2> HIDE DEF new
  <2>3. r.head \in Derive(p, b \cup x)
    BY <2>1, <2>2 DEF Derive
  <2> QED
    BY <2>3 DEF new
<1> QED
  BY <1>1 DEF Pending

\* The incremental seed: what is fresh in the lower strata is a delta to start from.
LEMMA FreshSeed ==
    ASSUME NEW p \in RuleSets, NEW b \in SUBSET Heads, NEW x, NEW f \in SUBSET x,
           Positive(p),
           NEW S, S = Least(p, b, x \ f)
    PROVE  LET new == Fire(p, f, S \cup x) \ S
           IN  Pending(p, x, S \cup new, new)
<1> DEFINE new == Fire(p, f, S \cup x) \ S
<1>1. ASSUME NEW r \in p,
             \A i \in DOMAIN r.body : r.body[i] \in (S \cup new) \cup x,
             \A i \in DOMAIN r.body : r.body[i] \notin new
      PROVE  r.head \in S \cup new
  <2>1. \A i \in DOMAIN r.body : r.body[i] \in S \cup x
    BY <1>1
  <2>2. r.neg = {}
    BY DEF Positive
  <2>3. CASE \E i \in DOMAIN r.body : r.body[i] \in f
    BY <2>1, <2>2, <2>3 DEF Fire
  <2>4. CASE ~\E i \in DOMAIN r.body : r.body[i] \in f
    <3>1. r.head \in Derive(p, S \cup (x \ f))
      BY <2>1, <2>2, <2>4 DEF Derive
    <3> QED
      BY <3>1, LeastIsModel DEF IsModel
  <2> QED
    BY <2>3, <2>4
<1> QED
  BY <1>1 DEF Pending

(***************************************************************************)
(* Without negation, more facts below the stratum derive more.             *)
(***************************************************************************)
LEMMA LeastGrows ==
    ASSUME NEW p \in RuleSets, NEW b \in SUBSET Heads, NEW x, NEW f \in SUBSET x,
           Positive(p)
    PROVE  Least(p, b, x \ f) \subseteq Least(p, b, x)
<1> DEFINE L == Least(p, b, x)
<1>1. IsModel(p, b, x, L)
  BY LeastIsModel
<1>2. ASSUME NEW r \in p,
             \A i \in DOMAIN r.body : r.body[i] \in L \cup (x \ f)
      PROVE  r.head \in L
  <2>1. r.neg = {}
    BY DEF Positive
  <2>2. r.head \in Derive(p, L \cup x)
    BY <1>2, <2>1 DEF Derive
  <2> QED
    BY <1>1, <2>2 DEF IsModel
<1>3. Derive(p, L \cup (x \ f)) \subseteq L
  BY <1>2 DEF Derive
<1>4. IsModel(p, b, x \ f, L)
  BY <1>1, <1>3 DEF IsModel
<1> QED
  BY <1>4, LeastInHeads, LeastBelow

(***************************************************************************)
(* From scratch: when no rule joins two facts of the heads, or none was    *)
(* asserted, a closed idb and the asserted facts are together closed.      *)
(***************************************************************************)
LEMMA ScratchClosed ==
    ASSUME NEW p \in RuleSets, NEW b \in SUBSET Heads, NEW x \in SUBSET (Facts \ Heads),
           NEW S \in SUBSET Heads,
           b = {} \/ Linear(p),
           Derive(p, b \cup x) \subseteq S,
           Closed(p, x, S)
    PROVE  IsModel(p, b, x, b \cup S)
<1>1. ASSUME NEW r \in p,
             \A i \in DOMAIN r.body : r.body[i] \in b \cup S \cup x,
             r.neg \cap (b \cup S \cup x) = {}
      PROVE  r.head \in S
  <2>1. CASE \A i \in DOMAIN r.body : r.body[i] \in S \cup x
    BY <1>1, <2>1 DEF Closed, Derive
  <2>2. CASE \A i \in DOMAIN r.body : r.body[i] \in b \cup x
    BY <1>1, <2>2 DEF Derive
  <2>3. CASE /\ \E i \in DOMAIN r.body : r.body[i] \notin S \cup x
             /\ \E i \in DOMAIN r.body : r.body[i] \notin b \cup x
    <3>1. PICK i \in DOMAIN r.body : r.body[i] \notin S \cup x
      BY <2>3
    <3>2. PICK j \in DOMAIN r.body : r.body[j] \notin b \cup x
      BY <2>3
    <3>3. i \in RecAtoms(r) /\ j \in RecAtoms(r)
      BY <1>1, <3>1, <3>2 DEF RecAtoms
    <3>4. i = j
      BY <1>1, <3>1, <3>3 DEF Linear
    <3> QED
      BY <1>1, <3>1, <3>2, <3>4
  <2> QED
    BY <2>1, <2>2, <2>3
<1>2. Derive(p, (b \cup S) \cup x) \subseteq b \cup S
  BY <1>1 DEF Derive
<1> QED
  BY <1>2 DEF IsModel

(***************************************************************************)
(* The initial state and the steps.                                        *)
(***************************************************************************)
LEMMA InitInv == FixpointInit => IInv
  BY LeastInHeads DEF FixpointInit, IInv, FixpointTypeOK, SeedInv, WorkInv, WriteInv, Exact

\* The first pass keeps the invariant.
LEMMA SeedStep ==
    ASSUME IInv, SeedRound
    PROVE  IInv'
<1> USE DEF IInv, FixpointTypeOK
<1> DEFINE new == IF ivm THEN Fire(prog, fresh, headView \cup ext) \ headView
                          ELSE Derive(prog, headView \cup ext)
<1>1. new \subseteq Heads
  BY HeadsOnly
<1>2. FixpointTypeOK'
  BY <1>1 DEF SeedRound, inputs
<1>3. CASE ivm
  <2>1. Positive(prog) /\ headView = Least(prog, headBase, ext \ fresh)
    BY <1>3 DEF SeedRound, SeedInv
  <2>2. headView \subseteq Least(prog, headBase, ext) /\ headBase \subseteq headView
    BY <2>1, LeastGrows, LeastIsModel DEF IsModel
  <2>3. new \subseteq Least(prog, headBase, ext)
    BY <1>3, <2>2, FireSound
  <2>4. Pending(prog, ext, headView \cup new, new)
    BY <1>3, <2>1, FreshSeed
  <2>5. CASE new = {}
    <3>1. Fire(prog, {}, headView \cup ext) \subseteq headView
      BY DEF Fire
    <3>2. Closed(prog, ext, headView)
      BY <2>4, <2>5, <3>1, NoCandidatesClosed
    <3>3. IsModel(prog, headBase, ext, headView)
      BY <2>2, <3>2 DEF Closed, IsModel
    <3>4. headView = Least(prog, headBase, ext)
      BY <2>2, <3>3, LeastBelow
    <3> QED
      BY <1>2, <2>5, <3>4 DEF SeedRound, inputs, SeedInv, WorkInv, WriteInv, Exact
  <2>6. CASE new # {}
    <3>1. /\ idb' = headView \cup new /\ rdDelta' = new /\ added' = new /\ pc' = "round"
          /\ UNCHANGED <<inputs, headView>>
      BY <1>3, <2>6 DEF SeedRound
    <3> HIDE DEF new
    <3>2. WorkInv'
      BY <1>3, <2>2, <2>3, <2>4, <3>1 DEF inputs, WorkInv
    <3> QED
      BY <1>2, <3>1, <3>2 DEF SeedInv, WriteInv, Exact
  <2> QED
    BY <2>5, <2>6
<1>4. CASE ~ivm
  <2>1. headView = headBase
    BY <1>4 DEF SeedRound, SeedInv
  <2>2. headBase \subseteq Least(prog, headBase, ext)
    BY LeastIsModel DEF IsModel
  <2>3. new \subseteq Least(prog, headBase, ext)
    BY <1>4, <2>1, <2>2, DeriveSound
  <2>4. Pending(prog, ext, new, new)
    BY <1>4, <2>1, ScratchSeed
  <2>5. CASE new = {}
    <3>1. IsModel(prog, headBase, ext, headBase)
      BY <1>4, <2>1, <2>5 DEF IsModel
    <3>2. headBase = Least(prog, headBase, ext)
      BY <2>2, <3>1, LeastBelow
    <3> QED
      BY <1>2, <2>1, <2>5, <3>2 DEF SeedRound, inputs, SeedInv, WorkInv, WriteInv, Exact
  <2>6. CASE new # {}
    <3>1. /\ idb' = new /\ rdDelta' = new /\ pc' = "round"
          /\ UNCHANGED <<inputs, headView>>
      BY <1>4, <2>6 DEF SeedRound
    <3>2. Derive(prog, headBase \cup ext) \subseteq new
      BY <1>4, <2>1
    <3> HIDE DEF new
    <3>3. WorkInv'
      BY <1>4, <2>1, <2>3, <2>4, <3>1, <3>2 DEF inputs, WorkInv
    <3> QED
      BY <1>2, <3>1, <3>3 DEF SeedInv, WriteInv, Exact
  <2> QED
    BY <2>5, <2>6
<1> QED
  BY <1>3, <1>4

\* A round keeps the invariant.
LEMMA RoundStep ==
    ASSUME IInv, FixpointRound
    PROVE  IInv'
<1> USE DEF IInv, FixpointTypeOK
<1>1. NextDelta \subseteq Heads
  BY HeadsOnly DEF NextDelta
<1>2. FixpointTypeOK'
  BY <1>1 DEF FixpointRound, inputs
<1>3. WorkInv /\ pc = "round"
  BY DEF FixpointRound
<1>4. CASE NextDelta = {}
  <2>1. Fire(prog, rdDelta, idb \cup ext) \subseteq idb
    BY <1>4 DEF NextDelta
  <2>2. Closed(prog, ext, idb)
    BY <1>3, <2>1, NoCandidatesClosed DEF WorkInv
  <2>3. pc' = "write" /\ UNCHANGED <<inputs, headView, idb, rdDelta, added>>
    BY <1>4 DEF FixpointRound
  <2>4. WorkInv' /\ WriteInv'
    BY <1>3, <2>2, <2>3 DEF inputs, WorkInv, WriteInv
  <2> QED
    BY <1>2, <2>3, <2>4 DEF SeedInv, Exact
<1>5. CASE NextDelta # {}
  <2>1. /\ idb' = idb \cup NextDelta /\ rdDelta' = NextDelta
        /\ added' = added \cup NextDelta /\ pc' = "round"
        /\ UNCHANGED <<inputs, headView>>
    BY <1>3, <1>5 DEF FixpointRound
  <2>2. NextDelta \subseteq Least(prog, headBase, ext)
    BY <1>3, FireSound DEF NextDelta, WorkInv
  <2>3. Pending(prog, ext, idb \cup NextDelta, NextDelta)
    BY <1>3, RoundKeepsPending DEF NextDelta, WorkInv
  <2>4. WorkInv'
    BY <1>3, <2>1, <2>2, <2>3 DEF inputs, WorkInv
  <2> QED
    BY <1>2, <2>1, <2>4 DEF SeedInv, WriteInv, Exact
<1> QED
  BY <1>4, <1>5

\* Writing the result back keeps the invariant.
LEMMA WriteStep ==
    ASSUME IInv, Write
    PROVE  IInv'
<1> USE DEF IInv, FixpointTypeOK
<1>1. FixpointTypeOK'
  BY DEF Write, inputs
<1>2. WorkInv /\ Closed(prog, ext, idb) /\ pc = "write"
  BY DEF Write, WriteInv
<1>3. pc' = "done" /\ UNCHANGED <<inputs, idb, rdDelta, added>>
      /\ headView' = headView \cup (IF ivm THEN added ELSE idb)
  BY DEF Write
<1>4. ASSUME Covered
      PROVE  headView' = Least(prog, headBase, ext)
  <2>1. headView' \subseteq Least(prog, headBase, ext)
    BY <1>2, <1>3, LeastIsModel DEF WorkInv, IsModel
  <2>2. CASE ivm
    <3>1. headView' = idb /\ headBase \subseteq idb
      BY <1>2, <1>3, <2>2 DEF WorkInv
    <3>2. IsModel(prog, headBase, ext, idb)
      BY <1>2, <3>1 DEF Closed, IsModel
    <3> QED
      BY <2>1, <3>1, <3>2, LeastBelow
  <2>3. CASE ~ivm
    <3>1. headView' = headBase \cup idb /\ Derive(prog, headBase \cup ext) \subseteq idb
      BY <1>2, <1>3, <2>3 DEF WorkInv
    <3>2. headBase = {} \/ Linear(prog)
      BY <1>4, <2>3 DEF Covered
    <3>3. IsModel(prog, headBase, ext, headBase \cup idb)
      BY <1>2, <3>1, <3>2, ScratchClosed
    <3> QED
      BY <2>1, <3>1, <3>3, LeastBelow
  <2> QED
    BY <2>2, <2>3
<1>5. Exact'
  BY <1>3, <1>4 DEF Exact, Covered, inputs
<1> QED
  BY <1>1, <1>3, <1>5 DEF SeedInv, WorkInv, WriteInv

\* Every step keeps the invariant.
LEMMA NextInv == IInv /\ [FixpointNext]_fixpointVars => IInv'
<1> SUFFICES ASSUME IInv, [FixpointNext]_fixpointVars PROVE IInv'
  OBVIOUS
<1>1. CASE SeedRound
  BY <1>1, SeedStep
<1>2. CASE FixpointRound
  BY <1>2, RoundStep
<1>3. CASE Write
  BY <1>3, WriteStep
<1>4. CASE UNCHANGED fixpointVars
  BY <1>4 DEF fixpointVars, IInv, FixpointTypeOK, SeedInv, WorkInv, WriteInv, Exact, Covered
<1> QED
  BY <1>1, <1>2, <1>3, <1>4 DEF FixpointNext

(***************************************************************************)
(* The sets of evalStratumRecursive keep their shape: what the last round  *)
(* found and what the cycle added are in idb, and only facts of the        *)
(* stratum's heads are written.                                            *)
(***************************************************************************)
THEOREM SemiNaiveTypes == FixpointSpec => []FixpointTypeOK
<1>1. IInv => FixpointTypeOK
  BY DEF IInv
<1> QED
  BY <1>1, InitInv, NextInv, PTL DEF FixpointSpec

(***************************************************************************)
(* evalStratumRecursive leaves exactly the least model of the stratum in   *)
(* its views, from scratch and incrementally, for every set of rules and   *)
(* every set of facts; from scratch with asserted facts of the heads, for  *)
(* rules that join at most one of them.                                    *)
(***************************************************************************)
THEOREM SemiNaiveExact == FixpointSpec => []Exact
<1>1. IInv => Exact
  BY DEF IInv
<1> QED
  BY <1>1, InitInv, NextInv, PTL DEF FixpointSpec

-----------------------------------------------------------------------------
(***************************************************************************)
(* The strata: compute_strata accepts exactly the stratifiable rules, and  *)
(* the strata it gives are in the order evaluation needs.                  *)
(***************************************************************************)

(***************************************************************************)
(* A set of naturals that is not empty has a least member.                 *)
(***************************************************************************)
LEMMA LeastNumber ==
    ASSUME NEW T \in SUBSET Nat, T # {}
    PROVE  \E x \in T : \A y \in T : x <= y
<1> DEFINE R == OpToRel(<, Nat)
<1>1. \A x, y \in Nat : x < y => <<x, y>> \in R
  BY DEF OpToRel
<1>2. IsWellFoundedOn(R, Nat)
  BY NatLessThanWellFounded
<1> HIDE DEF R
<1>3. PICK x \in T : \A y \in T : ~ (<<y, x>> \in R)
  BY <1>2, WFMin
<1>4. ASSUME NEW y \in T PROVE x <= y
  <2>1. x \in Nat /\ y \in Nat /\ <<y, x>> \notin R
    BY <1>3
  <2>2. ~ (y < x)
    BY <1>1, <2>1
  <2> QED BY <2>1, <2>2
<1> QED BY <1>4

(***************************************************************************)
(* Induction up to a bound, over the set of numbers a statement holds of:  *)
(* what the loops of compute_strata do in their passes is proved by it.    *)
(***************************************************************************)
LEMMA UpTo ==
    ASSUME NEW n \in Nat, NEW G, 0 \in G, \A k \in 1 .. n : k - 1 \in G => k \in G
    PROVE  0 .. n \subseteq G
<1> DEFINE Left == {k \in 0 .. n : k \notin G}
<1>1. Left \in SUBSET Nat
  OBVIOUS
<1>2. Left = {}
  <2> SUFFICES ASSUME Left # {} PROVE FALSE
    OBVIOUS
  <2>1. PICK k \in Left : \A l \in Left : k <= l
    <3> HIDE DEF Left
    <3> QED BY <1>1, LeastNumber
  <2>2. k \in 1 .. n /\ k - 1 \in 0 .. n /\ ~ (k <= k - 1)
    OBVIOUS
  <2>3. k - 1 \in G
    BY <2>1, <2>2
  <2> QED BY <2>2, <2>3
<1> QED BY <1>2

(***************************************************************************)
(* The results of the passes of a loop: f[k] is what k of them leave of x. *)
(***************************************************************************)
IsRun(f, D, g, x, n) == f \in [0 .. n -> D] /\ f[0] = x /\ \A k \in 1 .. n : f[k] = g[f[k - 1]]

(***************************************************************************)
(* A loop of a known number of passes has its results.                     *)
(***************************************************************************)
LEMMA Iterates ==
    ASSUME NEW D, NEW g \in [D -> D], NEW x \in D, NEW n \in Nat
    PROVE  \E f : IsRun(f, D, g, x, n)
<1> DEFINE Run(f, m) == f \in [0 .. m -> D] /\ f = [k \in 0 .. m |-> IF k = 0 THEN x ELSE g[f[k - 1]]]
           G == {m \in Nat : \E f : Run(f, m)}
<1>1. 0 \in G
  <2>1. Run([k \in 0 .. 0 |-> x], 0)
    OBVIOUS
  <2> QED BY <2>1
<1>2. ASSUME NEW m \in 1 .. n, m - 1 \in G PROVE m \in G
  <2>1. PICK f : Run(f, m - 1)
    BY <1>2
  <2>2. PICK h : h = [k \in 0 .. m |-> IF k = m THEN g[f[m - 1]] ELSE f[k]]
    OBVIOUS
  <2>3. f \in [0 .. m - 1 -> D] /\ m - 1 \in 0 .. m - 1 /\ g[f[m - 1]] \in D
    BY <2>1
  <2>4. ASSUME NEW k \in 0 .. m
        PROVE  h[k] \in D /\ h[k] = IF k = 0 THEN x ELSE g[h[k - 1]]
    <3>1. CASE k = m
      BY <2>2, <2>3, <3>1
    <3>2. CASE k # m
      <4>1. k \in 0 .. m - 1
        BY <3>2
      <4>2. f[k] \in D /\ f[k] = IF k = 0 THEN x ELSE g[f[k - 1]]
        BY <2>1, <4>1
      <4>3. k # 0 => k - 1 \in 0 .. m /\ k - 1 # m
        BY <4>1
      <4> QED BY <2>2, <3>2, <4>2, <4>3
    <3> QED BY <3>1, <3>2
  <2>5. h = [k \in 0 .. m |-> h[k]]
    BY <2>2
  <2>6. Run(h, m)
    BY <2>4, <2>5
  <2> QED BY <2>6
<1>3. n \in G
  <2> HIDE DEF G
  <2>1. 0 .. n \subseteq G
    BY <1>1, <1>2, UpTo
  <2> QED BY <2>1
<1>4. PICK f : Run(f, n)
  BY <1>3
<1>5. f[0] = x /\ \A k \in 1 .. n : f[k] = g[f[k - 1]]
  <2>1. 0 \in 0 .. n /\ \A k \in 1 .. n : k \in 0 .. n /\ k # 0
    OBVIOUS
  <2> QED BY <1>4, <2>1
<1> QED BY <1>4, <1>5 DEF IsRun

(***************************************************************************)
(* Numbers given to relations, and what a dependency adds to the number it *)
(* carries.                                                                *)
(***************************************************************************)
Numbered == SUBSET (Rels \X Nat)

Inc(up, e) == IF e \in up THEN 1 ELSE 0

(***************************************************************************)
(* One pass of the number assignment keeps what is there and adds, for     *)
(* each dependency and each number of the relation read, the number that   *)
(* the head needs.                                                         *)
(***************************************************************************)
LEMMA RaiseShape ==
    ASSUME NEW E \in SUBSET Edge, NEW up, NEW S \in Numbered
    PROVE  /\ Raise(E, up, S) \in Numbered /\ S \subseteq Raise(E, up, S)
           /\ \A e \in E, p \in S : e.from = p[1] => <<e.to, p[2] + Inc(up, e)>> \in Raise(E, up, S)
           /\ \A q \in Raise(E, up, S) :
                q \in S \/ \E e \in E, p \in S : e.from = p[1] /\ q = <<e.to, p[2] + Inc(up, e)>>
<1>1. \A e \in E, p \in S : e.from = p[1] => <<e.to, p[2] + Inc(up, e)>> \in Raise(E, up, S)
  <2> TAKE e \in E, p \in S
  <2> HAVE e.from = p[1]
  <2>1. <<e, p>> \in {y \in E \X S : y[1].from = y[2][1]}
    OBVIOUS
  <2> QED BY <2>1 DEF Raise, Inc
<1>2. \A q \in Raise(E, up, S) :
        q \in S \/ \E e \in E, p \in S : e.from = p[1] /\ q = <<e.to, p[2] + Inc(up, e)>>
  BY DEF Raise, Inc
<1>3. \A e \in E, p \in S : <<e.to, p[2] + Inc(up, e)>> \in Rels \X Nat
  BY DEF Edge, Numbered, Inc
<1>4. S \subseteq Raise(E, up, S)
  BY DEF Raise
<1> QED BY <1>1, <1>2, <1>3, <1>4 DEF Numbered

(***************************************************************************)
(* The numbers after the last pass are the last of a sequence that each    *)
(* pass extends by one.                                                    *)
(***************************************************************************)
LEMMA SettledRun ==
    ASSUME NEW E \in SUBSET Edge, NEW up, NEW S \in Numbered
    PROVE  \E f \in [0 .. NRels -> Numbered] :
             /\ f[0] = S /\ Settled(E, up, S) = f[NRels]
             /\ \A k \in 1 .. NRels : f[k] = Raise(E, up, f[k - 1])
<1> DEFINE g == [T \in Numbered |-> Raise(E, up, T)]
           Run(f) == f = [k \in 0 .. NRels |-> IF k = 0 THEN S ELSE Raise(E, up, f[k - 1])]
           it == CHOOSE f : Run(f)
<1>1. g \in [Numbered -> Numbered]
  BY RaiseShape
<1>2. PICK f \in [0 .. NRels -> Numbered] :
        f[0] = S /\ \A k \in 1 .. NRels : f[k] = g[f[k - 1]]
  <2> HIDE DEF g
  <2>1. PICK f : IsRun(f, Numbered, g, S, NRels)
    BY <1>1, NRelsAssumption, Iterates
  <2> QED BY <2>1 DEF IsRun
<1>3. \A k \in 0 .. NRels : k # 0 => k - 1 \in 0 .. NRels /\ f[k - 1] \in Numbered
  BY NRelsAssumption
<1>4. ASSUME NEW k \in 0 .. NRels PROVE f[k] = IF k = 0 THEN S ELSE Raise(E, up, f[k - 1])
  <2>1. CASE k = 0
    BY <1>2, <2>1
  <2>2. CASE k # 0
    <3>1. k \in 1 .. NRels
      BY <2>2, NRelsAssumption
    <3>2. f[k] = g[f[k - 1]]
      BY <1>2, <3>1
    <3> QED BY <1>3, <2>2, <3>2
  <2> QED BY <2>1, <2>2
<1>5. Run(f)
  <2>1. f = [k \in 0 .. NRels |-> f[k]]
    OBVIOUS
  <2> QED BY <1>4, <2>1
<1>6. Run(it)
  BY <1>5
<1>7. Settled(E, up, S) = it[NRels]
  BY DEF Settled, Iterate
<1> HIDE DEF it
<1>8. it[0] = S /\ \A k \in 1 .. NRels : it[k] = Raise(E, up, it[k - 1])
  BY <1>6, NRelsAssumption
<1> DEFINE G == {k \in 0 .. NRels : it[k] \in Numbered}
<1>9. 0 .. NRels \subseteq G
  <2>1. 0 \in G
    BY <1>8, NRelsAssumption
  <2>2. ASSUME NEW k \in 1 .. NRels, k - 1 \in G PROVE k \in G
    <3>1. k \in 0 .. NRels
      BY NRelsAssumption
    <3>2. PICK T \in Numbered : T = it[k - 1]
      BY <2>2
    <3>3. Raise(E, up, T) \in Numbered
      BY RaiseShape
    <3> QED BY <1>8, <3>1, <3>2, <3>3
  <2> HIDE DEF G
  <2> QED BY <2>1, <2>2, NRelsAssumption, UpTo
<1>10. it \in [0 .. NRels -> Numbered]
  <2>1. it = [k \in 0 .. NRels |-> it[k]]
    BY <1>6
  <2> QED BY <1>9, <2>1
<1> QED BY <1>7, <1>8, <1>10

(***************************************************************************)
(* Numbers up to b.                                                        *)
(***************************************************************************)
Below(b) == SUBSET (Rels \X (0 .. b))

(***************************************************************************)
(* A pass raises the numbers by at most one, so NRels passes by at most    *)
(* NRels: the numbers of an assignment are bounded, whatever the rules     *)
(* are.                                                                    *)
(***************************************************************************)
LEMMA SettledShape ==
    ASSUME NEW E \in SUBSET Edge, NEW up, NEW b \in Nat, NEW S \in Below(b)
    PROVE  Settled(E, up, S) \in Below(b + NRels) /\ S \subseteq Settled(E, up, S)
<1>1. S \in Numbered
  BY DEF Below, Numbered
<1>2. PICK f \in [0 .. NRels -> Numbered] :
        /\ f[0] = S /\ Settled(E, up, S) = f[NRels]
        /\ \A k \in 1 .. NRels : f[k] = Raise(E, up, f[k - 1])
  BY <1>1, SettledRun
<1> DEFINE G == {k \in 0 .. NRels : f[k] \in Below(b + k) /\ S \subseteq f[k]}
<1>3. 0 \in G
  BY <1>2, NRelsAssumption
<1>4. ASSUME NEW k \in 1 .. NRels, k - 1 \in G PROVE k \in G
  <2>1. k \in 0 .. NRels /\ k - 1 \in 0 .. NRels /\ b + (k - 1) \in Nat
    BY NRelsAssumption
  <2>2. PICK T \in Numbered : T = f[k - 1]
    BY <2>1
  <2>3. T \in Below(b + (k - 1)) /\ S \subseteq T
    BY <1>4, <2>2
  <2>4. f[k] = Raise(E, up, T)
    BY <1>2, <2>2
  <2>5. S \subseteq f[k]
    <3>1. T \subseteq Raise(E, up, T)
      BY RaiseShape
    <3> QED BY <2>3, <2>4, <3>1
  <2>6. ASSUME NEW q \in f[k] PROVE q \in Rels \X (0 .. b + k)
    <3>1. CASE q \in T
      <4>1. q \in Rels \X (0 .. b + (k - 1))
        BY <2>3, <3>1 DEF Below
      <4> QED BY <4>1, NRelsAssumption
    <3>2. CASE \E e \in E, p \in T : e.from = p[1] /\ q = <<e.to, p[2] + Inc(up, e)>>
      <4>1. PICK e \in E, p \in T : q = <<e.to, p[2] + Inc(up, e)>>
        BY <3>2
      <4>2. e.to \in Rels /\ p[2] \in 0 .. b + (k - 1) /\ Inc(up, e) \in {0, 1}
        BY <2>3 DEF Edge, Below, Inc
      <4>3. p[2] + Inc(up, e) \in 0 .. b + k
        BY <2>1, <4>2, NRelsAssumption
      <4> QED BY <4>1, <4>2, <4>3
    <3> QED BY <2>4, <3>1, <3>2, RaiseShape
  <2>7. f[k] \in Below(b + k)
    BY <2>6 DEF Below
  <2> QED BY <2>1, <2>5, <2>7
<1>5. 0 .. NRels \subseteq G
  <2> HIDE DEF G
  <2> QED BY <1>3, <1>4, NRelsAssumption, UpTo
<1>6. NRels \in G
  BY <1>5, NRelsAssumption
<1> QED BY <1>2, <1>6

(***************************************************************************)
(* A relation that has a number has a greatest one, its stratum.           *)
(***************************************************************************)
LEMMA StratumIs ==
    ASSUME NEW b \in Nat, NEW S \in Below(b), NEW p \in S
    PROVE  /\ StratumOf(S, p[1]) \in 0 .. b /\ <<p[1], StratumOf(S, p[1])>> \in S
           /\ p[2] <= StratumOf(S, p[1])
<1> DEFINE T == {q[2] : q \in {x \in S : x[1] = p[1]}}
           U == {b - y : y \in T}
<1>1. p[2] \in T
  OBVIOUS
<1>2. \A x \in S : x = <<x[1], x[2]>> /\ x[2] \in 0 .. b
  BY DEF Below
<1>3. T \subseteq 0 .. b /\ \A y \in T : <<p[1], y>> \in S
  BY <1>2
<1> HIDE DEF T
<1>4. PICK z \in U : \A u \in U : z <= u
  <2>1. U \in SUBSET Nat /\ U # {}
    BY <1>1, <1>3
  <2> HIDE DEF U
  <2> QED BY <2>1, LeastNumber
<1>5. PICK y \in T : z = b - y
  OBVIOUS
<1>6. \A u \in T : y >= u
  <2> SUFFICES ASSUME NEW u \in T PROVE y >= u
    OBVIOUS
  <2>1. z <= b - u /\ u \in 0 .. b /\ y \in 0 .. b
    BY <1>3, <1>4
  <2> QED BY <1>5, <2>1
<1>7. StratumOf(S, p[1]) = CHOOSE x \in T : \A u \in T : x >= u
  BY DEF StratumOf, Max, T
<1>8. StratumOf(S, p[1]) \in T /\ \A u \in T : StratumOf(S, p[1]) >= u
  BY <1>6, <1>7
<1>9. p[2] <= StratumOf(S, p[1])
  BY <1>1, <1>3, <1>8
<1> QED BY <1>3, <1>8, <1>9

(***************************************************************************)
(* When another pass changes nothing, a head is at least as high as what   *)
(* it reads, and higher along a raising dependency: the order evaluation   *)
(* relies on.                                                              *)
(***************************************************************************)
LEMMA FixedOrders ==
    ASSUME NEW E \in SUBSET Edge, NEW up, NEW b \in Nat, NEW S \in Below(b),
           Rels \X {0} \subseteq S, Raise(E, up, S) = S, NEW e \in E
    PROVE  /\ StratumOf(S, e.from) \in Nat /\ StratumOf(S, e.to) \in Nat
           /\ StratumOf(S, e.from) <= StratumOf(S, e.to)
           /\ e \in up => StratumOf(S, e.from) < StratumOf(S, e.to)
<1>1. S \in Numbered /\ e.from \in Rels /\ e.to \in Rels
  BY DEF Below, Numbered, Edge
<1>2. PICK p \in S : p[1] = e.from /\ p = <<e.from, 0>>
  BY <1>1
<1>3. PICK q \in S : q = <<e.from, StratumOf(S, e.from)>>
  BY <1>2, StratumIs
<1>4. q[1] = e.from /\ q[2] = StratumOf(S, e.from) /\ q[2] \in Nat
  BY <1>1, <1>3 DEF Below
<1>5. PICK x \in S : x = <<e.to, q[2] + Inc(up, e)>>
  BY <1>1, <1>4, RaiseShape
<1>6. x[1] = e.to /\ x[2] = q[2] + Inc(up, e) /\ x[2] \in Nat
  BY <1>1, <1>5 DEF Below
<1>7. x[2] <= StratumOf(S, e.to) /\ StratumOf(S, e.to) \in Nat
  <2>1. x[2] <= StratumOf(S, x[1]) /\ StratumOf(S, x[1]) \in 0 .. b
    BY StratumIs
  <2> QED BY <1>6, <2>1
<1> QED BY <1>4, <1>6, <1>7 DEF Inc

(***************************************************************************)
(* Reachability: one doubling of the known paths, and the dependencies as  *)
(* paths.                                                                  *)
(***************************************************************************)
Transitive(L) == \A a, c, d : <<a, c>> \in L /\ <<c, d>> \in L => <<a, d>> \in L

Compose(R) == R \cup {<<x[1][1], x[2][2]>> : x \in {y \in R \X R : y[1][2] = y[2][1]}}

Steps(E) == {<<e.from, e.to>> : e \in E}

(***************************************************************************)
(* A doubling keeps the paths and joins two at a common end.               *)
(***************************************************************************)
LEMMA ComposeShape ==
    ASSUME NEW R \in SUBSET (Rels \X Rels)
    PROVE  /\ Compose(R) \in SUBSET (Rels \X Rels) /\ R \subseteq Compose(R)
           /\ \A a, c, d : <<a, c>> \in R /\ <<c, d>> \in R => <<a, d>> \in Compose(R)
           /\ \A p \in Compose(R) :
                p \in R \/ \E a, c, d : p = <<a, d>> /\ <<a, c>> \in R /\ <<c, d>> \in R
<1>1. \A a, c, d : <<a, c>> \in R /\ <<c, d>> \in R => <<a, d>> \in Compose(R)
  <2> TAKE a, c, d
  <2> HAVE <<a, c>> \in R /\ <<c, d>> \in R
  <2>1. << <<a, c>>, <<c, d>> >> \in {y \in R \X R : y[1][2] = y[2][1]}
    OBVIOUS
  <2> QED BY <2>1 DEF Compose
<1>2. \A p \in Compose(R) :
        p \in R \/ \E a, c, d : p = <<a, d>> /\ <<a, c>> \in R /\ <<c, d>> \in R
  <2> SUFFICES ASSUME NEW p \in Compose(R), p \notin R
               PROVE  \E a, c, d : p = <<a, d>> /\ <<a, c>> \in R /\ <<c, d>> \in R
    OBVIOUS
  <2>1. PICK x \in R \X R : x[1][2] = x[2][1] /\ p = <<x[1][1], x[2][2]>>
    BY DEF Compose
  <2>2. x[1] \in R /\ x[2] \in R /\ x[1] = <<x[1][1], x[1][2]>> /\ x[2] = <<x[2][1], x[2][2]>>
    OBVIOUS
  <2>3. <<x[1][1], x[1][2]>> \in R /\ <<x[1][2], x[2][2]>> \in R
    BY <2>1, <2>2
  <2> QED BY <2>1, <2>3
<1>3. Compose(R) \in SUBSET (Rels \X Rels)
  BY DEF Compose
<1>4. R \subseteq Compose(R)
  BY DEF Compose
<1> QED BY <1>1, <1>2, <1>3, <1>4

(***************************************************************************)
(* The paths are the last of a sequence that each doubling extends by one. *)
(***************************************************************************)
LEMMA PathsRun ==
    ASSUME NEW E \in SUBSET Edge
    PROVE  \E f \in [0 .. NRels -> SUBSET (Rels \X Rels)] :
             /\ f[0] = Steps(E) /\ Paths(E) = f[NRels]
             /\ \A k \in 1 .. NRels : f[k] = Compose(f[k - 1])
<1> DEFINE D == SUBSET (Rels \X Rels)
           g == [T \in D |-> Compose(T)]
           S == Steps(E)
           Run(f) == f = [k \in 0 .. NRels |-> IF k = 0 THEN S ELSE Compose(f[k - 1])]
           it == CHOOSE f : Run(f)
<1>1. g \in [D -> D]
  BY ComposeShape
<1>0. S \in D
  BY DEF Steps, Edge
<1>2. PICK f \in [0 .. NRels -> D] :
        f[0] = S /\ \A k \in 1 .. NRels : f[k] = g[f[k - 1]]
  <2> HIDE DEF g, D, S
  <2>1. PICK f : IsRun(f, D, g, S, NRels)
    BY <1>0, <1>1, NRelsAssumption, Iterates
  <2> QED BY <2>1 DEF IsRun
<1>3. \A k \in 0 .. NRels : k # 0 => k - 1 \in 0 .. NRels /\ f[k - 1] \in D
  BY NRelsAssumption
<1>4. ASSUME NEW k \in 0 .. NRels PROVE f[k] = IF k = 0 THEN S ELSE Compose(f[k - 1])
  <2>1. CASE k = 0
    BY <1>2, <2>1
  <2>2. CASE k # 0
    <3>1. k \in 1 .. NRels
      BY <2>2, NRelsAssumption
    <3>2. f[k] = g[f[k - 1]]
      BY <1>2, <3>1
    <3> QED BY <1>3, <2>2, <3>2
  <2> QED BY <2>1, <2>2
<1>5. Run(f)
  <2>1. f = [k \in 0 .. NRels |-> f[k]]
    OBVIOUS
  <2> HIDE DEF S, D, g
  <2> QED BY <1>4, <2>1
<1>6. Run(it)
  <2> HIDE DEF Run
  <2> QED BY <1>5
<1>7. Paths(E) = it[NRels]
  BY DEF Paths, Iterate, Compose, Steps
<1> HIDE DEF it, S
<1>8. it[0] = S /\ \A k \in 1 .. NRels : it[k] = Compose(it[k - 1])
  BY <1>6, NRelsAssumption
<1> DEFINE G == {k \in 0 .. NRels : it[k] \in D}
<1>9. 0 .. NRels \subseteq G
  <2>1. 0 \in G
    BY <1>0, <1>8, NRelsAssumption
  <2>2. ASSUME NEW k \in 1 .. NRels, k - 1 \in G PROVE k \in G
    <3>1. k \in 0 .. NRels
      BY NRelsAssumption
    <3>2. PICK T \in D : T = it[k - 1]
      BY <2>2
    <3>3. Compose(T) \in D
      BY ComposeShape
    <3> QED BY <1>8, <3>1, <3>2, <3>3
  <2> HIDE DEF G
  <2> QED BY <2>1, <2>2, NRelsAssumption, UpTo
<1>10. it \in [0 .. NRels -> D]
  <2>1. it = [k \in 0 .. NRels |-> it[k]]
    BY <1>6
  <2> QED BY <1>9, <2>1
<1> QED BY <1>7, <1>8, <1>10 DEF S

(***************************************************************************)
(* A transitive relation over the dependencies contains their paths: what  *)
(* follows them edge by edge holds along every path.                       *)
(***************************************************************************)
LEMMA PathsWithin ==
    ASSUME NEW E \in SUBSET Edge, NEW L, Transitive(L), Steps(E) \subseteq L
    PROVE  Paths(E) \subseteq L
<1>1. PICK f \in [0 .. NRels -> SUBSET (Rels \X Rels)] :
        /\ f[0] = Steps(E) /\ Paths(E) = f[NRels]
        /\ \A k \in 1 .. NRels : f[k] = Compose(f[k - 1])
  BY PathsRun
<1> DEFINE G == {k \in 0 .. NRels : f[k] \subseteq L}
<1>2. 0 \in G
  BY <1>1, NRelsAssumption
<1>3. ASSUME NEW k \in 1 .. NRels, k - 1 \in G PROVE k \in G
  <2>1. k \in 0 .. NRels /\ k - 1 \in 0 .. NRels
    BY NRelsAssumption
  <2>2. PICK T \in SUBSET (Rels \X Rels) : T = f[k - 1]
    BY <2>1
  <2>3. T \subseteq L
    BY <1>3, <2>2
  <2>4. \A p \in Compose(T) : p \in T \/ \E a, c, d : p = <<a, d>> /\ <<a, c>> \in T /\ <<c, d>> \in T
    BY ComposeShape
  <2>5. Compose(T) \subseteq L
    <3> SUFFICES ASSUME NEW p \in Compose(T), p \notin T PROVE p \in L
      BY <2>3
    <3>1. PICK a, c, d : p = <<a, d>> /\ <<a, c>> \in T /\ <<c, d>> \in T
      BY <2>4
    <3> QED BY <2>3, <3>1 DEF Transitive
  <2> QED BY <1>1, <2>1, <2>2, <2>5
<1>4. 0 .. NRels \subseteq G
  <2> HIDE DEF G
  <2> QED BY <1>2, <1>3, NRelsAssumption, UpTo
<1> QED BY <1>1, <1>4, NRelsAssumption

(***************************************************************************)
(* There are NRels relations, and a set of them has no more members.       *)
(***************************************************************************)
LEMMA SetOfRels ==
    /\ IsFiniteSet(Rels) /\ Cardinality(Rels) = NRels
    /\ \A Q \in SUBSET Rels : IsFiniteSet(Q) /\ Cardinality(Q) \in Nat /\ Cardinality(Q) <= NRels
<1>1. IsFiniteSet(Rels) /\ Cardinality(Rels) = NRels
  BY NRelsAssumption, FS_Interval DEF Rels
<1>2. ASSUME NEW Q \in SUBSET Rels
      PROVE  IsFiniteSet(Q) /\ Cardinality(Q) \in Nat /\ Cardinality(Q) <= NRels
  <2>1. IsFiniteSet(Q) /\ Cardinality(Q) <= Cardinality(Rels)
    BY <1>1, FS_Subset
  <2> QED BY <1>1, <2>1, FS_CardinalityType
<1> QED BY <1>1, <1>2

\* One edge more.
(***************************************************************************)
(* Paths extended by one dependency at their end.                          *)
(***************************************************************************)
Longer(E, R) == R \cup {<<x[1][1], x[2].to>> : x \in {y \in R \X E : y[1][2] = y[2].from}}

(***************************************************************************)
(* Such an extension keeps the paths and adds one dependency at their      *)
(* ends.                                                                   *)
(***************************************************************************)
LEMMA LongerShape ==
    ASSUME NEW E \in SUBSET Edge, NEW R \in SUBSET (Rels \X Rels)
    PROVE  /\ Longer(E, R) \in SUBSET (Rels \X Rels) /\ R \subseteq Longer(E, R)
           /\ \A a : \A e \in E : <<a, e.from>> \in R => <<a, e.to>> \in Longer(E, R)
           /\ \A p \in Longer(E, R) :
                p \in R \/ \E a \in Rels, e \in E : p = <<a, e.to>> /\ <<a, e.from>> \in R
<1>1. \A a : \A e \in E : <<a, e.from>> \in R => <<a, e.to>> \in Longer(E, R)
  <2> TAKE a
  <2> TAKE e \in E
  <2> HAVE <<a, e.from>> \in R
  <2>1. << <<a, e.from>>, e >> \in {y \in R \X E : y[1][2] = y[2].from}
    OBVIOUS
  <2> QED BY <2>1 DEF Longer
<1>2. \A p \in Longer(E, R) :
        p \in R \/ \E a \in Rels, e \in E : p = <<a, e.to>> /\ <<a, e.from>> \in R
  <2> SUFFICES ASSUME NEW p \in Longer(E, R), p \notin R
               PROVE  \E a \in Rels, e \in E : p = <<a, e.to>> /\ <<a, e.from>> \in R
    OBVIOUS
  <2>1. PICK x \in R \X E : x[1][2] = x[2].from /\ p = <<x[1][1], x[2].to>>
    BY DEF Longer
  <2>2. x[1] \in R /\ x[2] \in E /\ x[1] = <<x[1][1], x[1][2]>> /\ x[1][1] \in Rels
    OBVIOUS
  <2> QED BY <2>1, <2>2
<1>3. Longer(E, R) \in SUBSET (Rels \X Rels)
  <2>1. \A e \in E : e.to \in Rels
    BY DEF Edge
  <2> QED BY <2>1 DEF Longer
<1>4. R \subseteq Longer(E, R)
  BY DEF Longer
<1> QED BY <1>1, <1>2, <1>3, <1>4

(***************************************************************************)
(* NRels doublings find every path: the paths are transitive.  A path that *)
(* is new after k extensions by one dependency visits k + 1 relations, of  *)
(* which there are NRels, so NRels extensions find all of them, and a      *)
(* doubling finds what an extension does.                                  *)
(***************************************************************************)
LEMMA PathsClosed ==
    ASSUME NEW E \in SUBSET Edge
    PROVE  Transitive(Paths(E)) /\ Steps(E) \subseteq Paths(E) /\ Paths(E) \in SUBSET (Rels \X Rels)
<1> DEFINE D == SUBSET (Rels \X Rels)
           h == [T \in D |-> Longer(E, T)]
<1>0. Steps(E) \in D
  BY DEF Steps, Edge
<1>1. PICK f \in [0 .. NRels -> D] :
        /\ f[0] = Steps(E) /\ Paths(E) = f[NRels]
        /\ \A k \in 1 .. NRels : f[k] = Compose(f[k - 1])
  BY PathsRun
<1>2. PICK g \in [0 .. NRels -> D] :
        g[0] = Steps(E) /\ \A k \in 1 .. NRels : g[k] = Longer(E, g[k - 1])
  <2>1. h \in [D -> D]
    BY LongerShape
  <2>2. PICK l : IsRun(l, D, h, Steps(E), NRels)
    <3> HIDE DEF h, D
    <3> QED BY <1>0, <2>1, NRelsAssumption, Iterates
  <2>3. \A k \in 1 .. NRels : l[k - 1] \in D /\ h[l[k - 1]] = Longer(E, l[k - 1])
    BY <2>2, NRelsAssumption DEF IsRun
  <2> HIDE DEF h
  <2> QED BY <2>2, <2>3 DEF IsRun
<1> HIDE DEF h
<1>3. \A k \in 1 .. NRels : k - 1 \in 0 .. NRels /\ k \in 0 .. NRels
  BY NRelsAssumption
\* Every path of k edges more is found in k doublings.
<1>4. g[NRels] \subseteq f[NRels] /\ Steps(E) \subseteq f[NRels]
  <2> DEFINE G == {k \in 0 .. NRels : g[k] \subseteq f[k] /\ Steps(E) \subseteq f[k]}
  <2>1. 0 \in G
    BY <1>1, <1>2, NRelsAssumption
  <2>2. ASSUME NEW k \in 1 .. NRels, k - 1 \in G PROVE k \in G
    <3>1. PICK T \in D, U \in D : T = f[k - 1] /\ U = g[k - 1]
      BY <1>3
    <3>2. f[k] = Compose(T) /\ g[k] = Longer(E, U) /\ U \subseteq T /\ Steps(E) \subseteq T
      BY <1>1, <1>2, <2>2, <3>1
    <3>3. T \subseteq f[k] /\ \A a, c, d : <<a, c>> \in T /\ <<c, d>> \in T => <<a, d>> \in f[k]
      BY <3>2, ComposeShape
    <3>4. ASSUME NEW p \in Longer(E, U) PROVE p \in f[k]
      <4>1. CASE p \in U
        BY <3>2, <3>3, <4>1
      <4>2. CASE \E a \in Rels, e \in E : p = <<a, e.to>> /\ <<a, e.from>> \in U
        <5>1. PICK a \in Rels, e \in E : p = <<a, e.to>> /\ <<a, e.from>> \in U
          BY <4>2
        <5>2. <<a, e.from>> \in T /\ <<e.from, e.to>> \in T
          BY <3>2, <5>1 DEF Steps
        <5> QED BY <3>3, <5>1, <5>2
      <4> QED BY <4>1, <4>2, LongerShape
    <3> QED BY <1>3, <3>2, <3>3, <3>4
  <2>3. 0 .. NRels \subseteq G
    <3> HIDE DEF G
    <3> QED BY <2>1, <2>2, NRelsAssumption, UpTo
  <2> QED BY <2>3, NRelsAssumption
\* What is new after k edges has k + 1 relations behind it.
<1> DEFINE New(p, k) == p \in g[k] /\ (k # 0 => p \notin g[k - 1])
           Way(p, k) == \E Q \in SUBSET Rels : /\ Cardinality(Q) = k + 1
                                               /\ \A q \in Q : <<p[1], q>> \in g[k]
           G == {k \in 0 .. NRels : \A p \in Rels \X Rels : New(p, k) => Way(p, k)}
<1>5. 0 \in G
  <2> SUFFICES ASSUME NEW p \in Rels \X Rels, p \in g[0] PROVE Way(p, 0)
    BY NRelsAssumption
  <2>1. PICK Q \in SUBSET Rels : Q = {p[2]}
    OBVIOUS
  <2>2. Cardinality(Q) = 1
    BY <2>1, FS_Singleton
  <2>3. p = <<p[1], p[2]>>
    OBVIOUS
  <2>4. \A q \in Q : <<p[1], q>> \in g[0]
    BY <2>1, <2>3
  <2> QED BY <2>2, <2>4
<1>6. ASSUME NEW k \in 1 .. NRels, k - 1 \in G PROVE k \in G
  <2> SUFFICES ASSUME NEW p \in Rels \X Rels, New(p, k) PROVE Way(p, k)
    BY <1>3
  <2>1. PICK U \in D : U = g[k - 1]
    BY <1>3
  <2>2. g[k] = Longer(E, U) /\ p \in g[k] /\ p \notin U
    BY <1>2, <2>1
  <2>3. PICK a \in Rels, e \in E : p = <<a, e.to>> /\ <<a, e.from>> \in U
    <3>1. \A x \in Longer(E, U) :
            x \in U \/ \E a \in Rels, e \in E : x = <<a, e.to>> /\ <<a, e.from>> \in U
      BY LongerShape
    <3>2. p \in Longer(E, U)
      BY <2>2
    <3> QED BY <2>2, <3>1, <3>2
  <2>4. e.from \in Rels /\ e.to \in Rels
    BY DEF Edge
  <2>5. PICK r \in Rels \X Rels : r = <<a, e.from>>
    BY <2>4
  <2>6. New(r, k - 1)
    <3> SUFFICES ASSUME k - 1 # 0, r \in g[(k - 1) - 1] PROVE FALSE
      BY <2>1, <2>3, <2>5
    <3>1. k - 1 \in 1 .. NRels
      BY NRelsAssumption
    <3>2. PICK W \in D : W = g[(k - 1) - 1]
      BY <1>3, <3>1
    <3>3. U = Longer(E, W)
      BY <1>2, <2>1, <3>1, <3>2
    <3>4. p \in U
      BY <2>3, <2>5, <3>2, <3>3, LongerShape
    <3> QED BY <2>2, <3>4
  <2>7. Way(r, k - 1)
    <3> HIDE DEF New, Way
    <3> QED BY <1>6, <2>6
  <2>8. PICK Q \in SUBSET Rels : Cardinality(Q) = k /\ \A q \in Q : <<a, q>> \in U
    BY <2>1, <2>5, <2>7
  <2>9. e.to \notin Q
    BY <2>2, <2>3, <2>8
  <2>10. Cardinality(Q \cup {e.to}) = k + 1
    BY <2>8, <2>9, SetOfRels, FS_AddElement
  <2>11. \A q \in Q \cup {e.to} : <<p[1], q>> \in g[k]
    <3>1. U \subseteq g[k]
      BY <2>2, LongerShape
    <3> QED BY <2>2, <2>3, <2>8, <3>1
  <2>12. Q \cup {e.to} \in SUBSET Rels
    BY <2>4
  <2> QED BY <2>10, <2>11, <2>12
<1>7. NRels \in G
  <2>1. 0 .. NRels \subseteq G
    <3> HIDE DEF G
    <3> QED BY <1>5, <1>6, NRelsAssumption, UpTo
  <2> QED BY <2>1, NRelsAssumption
\* There are not that many: nothing is new after NRels edges.
<1>8. ASSUME NEW a \in Rels, NEW e \in E, <<a, e.from>> \in g[NRels]
      PROVE  <<a, e.to>> \in g[NRels]
  <2>1. NRels \in 1 .. NRels
    BY NRelsAssumption DEF Rels
  <2>2. e.from \in Rels /\ e.to \in Rels
    BY DEF Edge
  <2>3. PICK p \in Rels \X Rels : p = <<a, e.from>>
    BY <2>2
  <2>4. ~ Way(p, NRels)
    <3> SUFFICES ASSUME NEW Q \in SUBSET Rels, Cardinality(Q) = NRels + 1 PROVE FALSE
      OBVIOUS
    <3> QED BY SetOfRels, NRelsAssumption
  <2>5. ~ New(p, NRels)
    <3> HIDE DEF New, Way
    <3> QED BY <1>7, <2>4
  <2>6. PICK U \in D : U = g[NRels - 1]
    BY <1>3, <2>1
  <2>7. p \in U
    BY <1>8, <2>1, <2>3, <2>5, <2>6
  <2>8. g[NRels] = Longer(E, U)
    BY <1>2, <2>1, <2>6
  <2> QED BY <2>3, <2>7, <2>8, LongerShape
<1> HIDE DEF G
<1> DEFINE L == {p \in Rels \X Rels : \A a \in Rels : <<a, p[1]>> \in g[NRels] => <<a, p[2]>> \in g[NRels]}
<1>9. Paths(E) \subseteq L
  <2>1. Transitive(L)
    BY DEF Transitive
  <2>2. Steps(E) \subseteq L
    <3> SUFFICES ASSUME NEW e \in E PROVE <<e.from, e.to>> \in L
      BY DEF Steps
    <3>1. e.from \in Rels /\ e.to \in Rels
      BY DEF Edge
    <3> QED BY <1>8, <3>1
  <2> HIDE DEF L
  <2> QED BY <2>1, <2>2, PathsWithin
<1>10. g[NRels] \in D /\ Steps(E) \subseteq g[NRels]
  <2> DEFINE H == {k \in 0 .. NRels : Steps(E) \subseteq g[k]}
  <2>1. 0 \in H
    BY <1>2, NRelsAssumption
  <2>2. ASSUME NEW k \in 1 .. NRels, k - 1 \in H PROVE k \in H
    <3>1. PICK U \in D : U = g[k - 1]
      BY <1>3
    <3>2. U \subseteq Longer(E, U)
      BY LongerShape
    <3> QED BY <1>2, <1>3, <2>2, <3>1, <3>2
  <2>3. 0 .. NRels \subseteq H
    <3> HIDE DEF H
    <3> QED BY <2>1, <2>2, NRelsAssumption, UpTo
  <2> QED BY <2>3, NRelsAssumption
<1>11. Transitive(g[NRels])
  <2> SUFFICES ASSUME NEW a, NEW c, NEW d, <<a, c>> \in g[NRels], <<c, d>> \in g[NRels]
               PROVE  <<a, d>> \in g[NRels]
    BY DEF Transitive
  <2>1. <<c, d>> \in L
    BY <1>1, <1>4, <1>9
  <2>2. a \in Rels
    BY <1>10
  <2> QED BY <2>1, <2>2
<1>12. Paths(E) = g[NRels]
  <2>1. Paths(E) \subseteq g[NRels]
    BY <1>10, <1>11, PathsWithin
  <2> QED BY <1>1, <1>4, <2>1
<1> QED BY <1>10, <1>11, <1>12

(***************************************************************************)
(* Sets of dependencies of which none lies on a cycle.                     *)
(***************************************************************************)
OffCycles(E) == {u \in SUBSET E : \A e \in u : <<e.to, e.from>> \notin Paths(E) /\ e.to # e.from}

(***************************************************************************)
(* NRels passes settle the numbers when no raising dependency lies on a    *)
(* cycle, so the bound on the passes refuses no such program.  A number    *)
(* that is new after k passes has come along k + 1 different relations: on *)
(* a way back to one of them no dependency raises, so the number was there *)
(* before.                                                                 *)
(***************************************************************************)
LEMMA SettledCloses ==
    ASSUME NEW E \in SUBSET Edge, NEW up \in OffCycles(E), NEW S \in Numbered
    PROVE  Raise(E, up, Settled(E, up, S)) = Settled(E, up, S)
<1> DEFINE P == Paths(E)
<1>0. Transitive(P) /\ Steps(E) \subseteq P /\ P \in SUBSET (Rels \X Rels)
  BY PathsClosed
<1>r. \A T \in Numbered :
        /\ T \subseteq Raise(E, up, T)
        /\ \A q \in Raise(E, up, T) :
             q \in T \/ \E e \in E, p \in T : e.from = p[1] /\ q = <<e.to, p[2] + Inc(up, e)>>
  <2> TAKE T \in Numbered
  <2>1. T \subseteq Raise(E, up, T)
    BY RaiseShape
  <2>2. \A q \in Raise(E, up, T) :
          q \in T \/ \E e \in E, p \in T : e.from = p[1] /\ q = <<e.to, p[2] + Inc(up, e)>>
    BY DEF Raise, Inc
  <2> QED BY <2>1, <2>2
<1>1. PICK f \in [0 .. NRels -> Numbered] :
        /\ f[0] = S /\ Settled(E, up, S) = f[NRels]
        /\ \A k \in 1 .. NRels : f[k] = Raise(E, up, f[k - 1])
  BY SettledRun
<1>2. \A e \in E : e.from \in Rels /\ e.to \in Rels /\ <<e.from, e.to>> \in P
  BY <1>0 DEF Edge, Steps
<1>3. \A e \in E : <<e.to, e.from>> \in P \/ e.to = e.from => Inc(up, e) = 0
  BY DEF Inc, OffCycles
<1> HIDE DEF P
<1>4. \A k \in 1 .. NRels : k - 1 \in 0 .. NRels /\ k \in 0 .. NRels
  BY NRelsAssumption
\* What is new after k passes stands at the end of k + 1 relations.
<1> DEFINE New(p, k) == p \in f[k] /\ (k # 0 => p \notin f[k - 1])
           Behind(Q, p) == \A q \in Q : q = p[1] \/ <<q, p[1]>> \in P
           Along(Q, p, k) == \A q \in Q : q = p[1] \/ <<p[1], q>> \in P => <<q, p[2]>> \in f[k]
           Way(p, k) == \E Q \in SUBSET Rels : Cardinality(Q) = k + 1 /\ Behind(Q, p) /\ Along(Q, p, k)
           G == {k \in 0 .. NRels : \A p \in Rels \X Nat : New(p, k) => Way(p, k)}
<1>5. 0 \in G
  <2> SUFFICES ASSUME NEW p \in Rels \X Nat, p \in f[0] PROVE Way(p, 0)
    BY NRelsAssumption
  <2>1. PICK Q \in SUBSET Rels : Q = {p[1]}
    OBVIOUS
  <2>2. Cardinality(Q) = 1
    BY <2>1, FS_Singleton
  <2>3. p = <<p[1], p[2]>>
    OBVIOUS
  <2>4. Behind(Q, p) /\ Along(Q, p, 0)
    BY <2>1, <2>3
  <2> QED BY <2>2, <2>4
<1>6. ASSUME NEW k \in 1 .. NRels, k - 1 \in G PROVE k \in G
  <2> SUFFICES ASSUME NEW p \in Rels \X Nat, New(p, k) PROVE Way(p, k)
    BY <1>4
  <2>1. PICK U \in Numbered : U = f[k - 1]
    BY <1>4
  <2>2. f[k] = Raise(E, up, U) /\ p \in f[k] /\ p \notin U
    BY <1>1, <2>1
  <2>3. PICK e \in E, r \in U : e.from = r[1] /\ p = <<e.to, r[2] + Inc(up, e)>>
    <3>1. \A x \in Raise(E, up, U) :
            x \in U \/ \E e \in E, r \in U : e.from = r[1] /\ x = <<e.to, r[2] + Inc(up, e)>>
      BY RaiseShape
    <3>2. p \in Raise(E, up, U)
      BY <2>2
    <3> QED BY <2>2, <3>1, <3>2
  <2>4. r \in Rels \X Nat
    BY DEF Numbered
  <2>5. New(r, k - 1)
    <3> SUFFICES ASSUME k - 1 # 0, r \in f[(k - 1) - 1] PROVE FALSE
      BY <2>1, <2>3
    <3>1. k - 1 \in 1 .. NRels
      BY NRelsAssumption
    <3>2. PICK W \in Numbered : W = f[(k - 1) - 1]
      BY <1>4, <3>1
    <3>3. U = Raise(E, up, W) /\ r \in W
      BY <1>1, <2>1, <3>1, <3>2
    <3>4. p \in U
      <4>1. \A x \in E, y \in W : x.from = y[1] => <<x.to, y[2] + Inc(up, x)>> \in U
        BY <3>3, RaiseShape
      <4> QED BY <2>3, <3>3, <4>1
    <3> QED BY <2>2, <3>4
  <2>6. Way(r, k - 1)
    <3> HIDE DEF New, Way
    <3> QED BY <1>6, <2>4, <2>5
  <2>7. PICK Q \in SUBSET Rels :
          Cardinality(Q) = (k - 1) + 1 /\ Behind(Q, r) /\ Along(Q, r, k - 1)
    BY <2>6
  <2>8. p[1] = e.to /\ p[2] = r[2] + Inc(up, e) /\ r[1] = e.from /\ r[2] \in Nat
    BY <2>3, <2>4
  <2>9. \A a, c, d : <<a, c>> \in P /\ <<c, d>> \in P => <<a, d>> \in P
    BY <1>0 DEF Transitive
  <2>10. <<e.from, e.to>> \in P
    BY <1>2
\* On a cycle through e the number does not grow.
  <2>11. <<e.to, e.from>> \in P \/ e.to = e.from => p[2] = r[2]
    BY <1>3, <2>8
  <2>12. e.to \notin Q
    <3> SUFFICES ASSUME e.to \in Q PROVE FALSE
      OBVIOUS
    <3>1. e.to = e.from \/ <<e.to, e.from>> \in P
      BY <2>7, <2>8
    <3>2. <<e.to, r[2]>> \in U
      BY <2>1, <2>7, <2>8, <2>10
    <3>3. p = <<e.to, r[2]>>
      BY <2>3, <2>8, <2>11, <3>1
    <3> QED BY <2>2, <3>2, <3>3
  <2>13. PICK V \in SUBSET Rels : V = Q \cup {e.to}
    BY <1>2
  <2>14. Cardinality(V) = k + 1
    <3>1. IsFiniteSet(Q)
      BY SetOfRels
    <3>2. Cardinality(V) = Cardinality(Q) + 1
      BY <2>12, <2>13, <3>1, FS_AddElement
    <3> QED BY <2>7, <3>2
  <2>15. Behind(V, p)
    BY <2>7, <2>8, <2>9, <2>10, <2>13
  <2>16. Along(V, p, k)
    <3> SUFFICES ASSUME NEW q \in V, q = p[1] \/ <<p[1], q>> \in P PROVE <<q, p[2]>> \in f[k]
      OBVIOUS
    <3>1. CASE q = e.to
      BY <2>2, <2>3, <2>8, <3>1
    <3>2. CASE q # e.to
      <4>1. q \in Q /\ <<e.to, q>> \in P
        BY <2>8, <2>13, <3>2
      <4>2. <<e.to, e.from>> \in P
        BY <2>7, <2>8, <2>9, <4>1
      <4>3. <<e.from, q>> \in P
        BY <2>9, <2>10, <4>1
      <4>4. <<q, r[2]>> \in U
        BY <2>1, <2>7, <2>8, <4>1, <4>3
      <4>5. U \subseteq f[k]
        BY <1>r, <2>2
      <4> QED BY <2>11, <4>2, <4>4, <4>5
    <3> QED BY <3>1, <3>2
  <2> QED BY <2>14, <2>15, <2>16
<1>7. NRels \in G
  <2>1. 0 .. NRels \subseteq G
    <3> HIDE DEF G
    <3> QED BY <1>5, <1>6, NRelsAssumption, UpTo
  <2> QED BY <2>1, NRelsAssumption
\* There are not that many: nothing is new after NRels passes.
<1>8. PICK T \in Numbered : T = f[NRels]
  BY NRelsAssumption
<1>9. ASSUME NEW q \in Raise(E, up, T) PROVE q \in T
  <2> SUFFICES ASSUME q \notin T PROVE FALSE
    OBVIOUS
  <2>1. PICK e \in E, r \in T : e.from = r[1] /\ q = <<e.to, r[2] + Inc(up, e)>>
    BY <1>r
  <2>2. NRels \in 1 .. NRels /\ r \in Rels \X Nat
    BY <1>2, NRelsAssumption DEF Rels, Numbered
  <2>3. ~ Way(r, NRels)
    <3> SUFFICES ASSUME NEW Q \in SUBSET Rels, Cardinality(Q) = NRels + 1 PROVE FALSE
      OBVIOUS
    <3> QED BY SetOfRels, NRelsAssumption
  <2>4. ~ New(r, NRels)
    <3> HIDE DEF New, Way
    <3> QED BY <1>7, <2>2, <2>3
  <2>5. PICK U \in Numbered : U = f[NRels - 1]
    BY <1>4, <2>2
  <2>6. r \in U /\ T = Raise(E, up, U)
    BY <1>1, <1>8, <2>2, <2>4, <2>5
  <2>7. q \in T
    <3>1. \A x \in E, y \in U : x.from = y[1] => <<x.to, y[2] + Inc(up, x)>> \in T
      BY <2>6, RaiseShape
    <3> QED BY <2>1, <2>6, <3>1
  <2> QED BY <2>7
<1>10. T \subseteq Raise(E, up, T)
  BY <1>r
<1>11. Raise(E, up, T) = T
  BY <1>9, <1>10
<1> QED BY <1>1, <1>8, <1>11

(***************************************************************************)
(* In stratifiable rules two relations that reach each other do so without *)
(* negation: the components the search finds on the positive dependencies  *)
(* are those of all the dependencies.                                      *)
(***************************************************************************)
LEMMA CyclesArePositive ==
    ASSUME NEW E \in SUBSET Edge, Stratifiable(E), NEW N, N = {e \in E : e.neg}
    PROVE  \A a, c : <<a, c>> \in Paths(E) /\ <<c, a>> \in Paths(E) => <<a, c>> \in Paths(E \ N)
<1> DEFINE P == Paths(E)
           Q == Paths(E \ N)
           L == {p \in P : <<p[2], p[1]>> \in P => p \in Q}
<1>1. Transitive(P) /\ Steps(E) \subseteq P /\ P \in SUBSET (Rels \X Rels)
  BY PathsClosed
<1>2. Transitive(Q) /\ Steps(E \ N) \subseteq Q
  <2>1. E \ N \in SUBSET Edge
    OBVIOUS
  <2> QED BY <2>1, PathsClosed
<1>3. Steps(E) \subseteq L
  <2> SUFFICES ASSUME NEW e \in E, <<e.to, e.from>> \in P PROVE <<e.from, e.to>> \in Q
    BY <1>1 DEF Steps
  <2>1. e \in E \ N
    BY DEF Stratifiable
  <2> QED BY <1>2, <2>1 DEF Steps
<1> HIDE DEF P, Q
<1>4. Transitive(L)
  <2> SUFFICES ASSUME NEW a, NEW c, NEW d, <<a, c>> \in L, <<c, d>> \in L PROVE <<a, d>> \in L
    BY DEF Transitive
  <2>1. <<a, c>> \in P /\ <<c, d>> \in P /\ <<a, d>> \in P
    BY <1>1 DEF Transitive
  <2>2. ASSUME <<d, a>> \in P PROVE <<a, d>> \in Q
    <3>1. <<c, a>> \in P /\ <<d, c>> \in P
      BY <1>1, <2>1, <2>2 DEF Transitive
    <3>2. <<a, c>> \in Q /\ <<c, d>> \in Q
      BY <3>1
    <3> QED BY <1>2, <3>2 DEF Transitive
  <2> QED BY <2>1, <2>2
<1>5. P \subseteq L
  <2> HIDE DEF L
  <2> QED BY <1>3, <1>4, PathsWithin DEF P
<1> SUFFICES ASSUME NEW a, NEW c, <<a, c>> \in P, <<c, a>> \in P PROVE <<a, c>> \in Q
  BY DEF P, Q
<1>6. <<a, c>> \in L
  BY <1>5
<1> QED BY <1>6

(***************************************************************************)
(* The parts of ComputeStrata by name: the negated dependencies, the first *)
(* assignment, the recursive relations, the dependencies that raise in the *)
(* second assignment, and that assignment.                                 *)
(***************************************************************************)
Negated(E) == {e \in E : e.neg}

First(E) == Settled(E, Negated(E), Rels \X {0})

RecursiveIn(E, seed) == Recursive(E, Paths(E \ Negated(E)), seed)

Apart(E, seed) ==
    Negated(E) \cup {e \in E : /\ e.from \in RecursiveIn(E, seed)
                               /\ e.to \notin Component(Paths(E \ Negated(E)), e.from)}

Second(E, seed) == Settled(E, Apart(E, seed), First(E))

(***************************************************************************)
(* What ComputeStrata returns, in these names.                             *)
(***************************************************************************)
LEMMA ComputedStrata ==
    ASSUME NEW E, NEW seed
    PROVE  /\ ComputeStrata(E, seed).ok =
                (/\ Raise(E, Negated(E), First(E)) = First(E)
                 /\ Raise(E, Apart(E, seed), Second(E, seed)) = Second(E, seed)
                 /\ \A e \in Negated(E) : StratumOf(Second(E, seed), e.to) > StratumOf(Second(E, seed), e.from))
           /\ ComputeStrata(E, seed).strata = [r \in Rels |-> StratumOf(Second(E, seed), r)]
           /\ ComputeStrata(E, seed).rec = RecursiveIn(E, seed)
  BY DEF ComputeStrata, Negated, First, RecursiveIn, Apart, Second

(***************************************************************************)
(* Both assignments give every relation a number, and bounded ones.        *)
(***************************************************************************)
LEMMA SecondShape ==
    ASSUME NEW E \in SUBSET Edge, NEW seed
    PROVE  /\ First(E) \in Below(NRels) /\ Second(E, seed) \in Below(NRels + NRels)
           /\ Rels \X {0} \subseteq First(E) /\ Rels \X {0} \subseteq Second(E, seed)
<1>1. PICK S \in Below(0) : S = Rels \X {0}
  <2>1. 0 .. 0 = {0}
    OBVIOUS
  <2> QED BY <2>1 DEF Below
<1>2. 0 \in Nat /\ NRels \in Nat
  BY NRelsAssumption
<1>3. First(E) \in Below(0 + NRels) /\ S \subseteq First(E)
  BY <1>1, <1>2, SettledShape DEF First
<1>4. 0 + NRels = NRels
  BY <1>2
<1>5. First(E) \in Below(NRels)
  BY <1>3, <1>4
<1>6. Second(E, seed) \in Below(NRels + NRels) /\ First(E) \subseteq Second(E, seed)
  BY <1>2, <1>5, SettledShape DEF Second
<1> QED BY <1>1, <1>3, <1>5, <1>6

(***************************************************************************)
(* When compute_strata accepts the rules, each relation is in a stratum at *)
(* or above every relation its rules read, above every one they negate,    *)
(* and above a recursive one unless the two are mutually recursive: each   *)
(* relation is complete when a higher stratum reads it.                    *)
(***************************************************************************)
THEOREM StrataAreOrdered ==
    ASSUME NEW E \in SUBSET Edge, NEW seed, NEW st, st = ComputeStrata(E, seed), st.ok
    PROVE  /\ st.strata \in [Rels -> Nat]
           /\ \A e \in E :
                /\ st.strata[e.from] <= st.strata[e.to]
                /\ e.neg => st.strata[e.from] < st.strata[e.to]
                /\ e.from \in st.rec /\ st.strata[e.from] = st.strata[e.to] =>
                     e.to \in Component(Paths({x \in E : ~ x.neg}), e.from)
<1>1. PICK S \in Below(NRels + NRels) : S = Second(E, seed)
  BY SecondShape
<1>2. NRels + NRels \in Nat
  BY NRelsAssumption
<1>3. Rels \X {0} \subseteq S /\ Raise(E, Apart(E, seed), S) = S
  BY <1>1, SecondShape, ComputedStrata
<1>4. st.strata = [r \in Rels |-> StratumOf(S, r)] /\ st.rec = RecursiveIn(E, seed)
  BY <1>1, ComputedStrata
<1>5. ASSUME NEW r \in Rels PROVE StratumOf(S, r) \in Nat
  <2>1. PICK p \in S : p = <<r, 0>>
    BY <1>3
  <2>2. p[1] = r /\ StratumOf(S, p[1]) \in 0 .. NRels + NRels
    BY <1>2, <2>1, StratumIs
  <2> QED BY <2>2
<1>6. ASSUME NEW e \in E
      PROVE  /\ e.from \in Rels /\ e.to \in Rels
             /\ StratumOf(S, e.from) \in Nat
             /\ StratumOf(S, e.from) <= StratumOf(S, e.to)
             /\ e \in Apart(E, seed) => StratumOf(S, e.from) < StratumOf(S, e.to)
  <2>1. e.from \in Rels /\ e.to \in Rels
    BY DEF Edge
  <2> QED BY <1>2, <1>3, <1>5, <2>1, FixedOrders
<1>7. {x \in E : ~ x.neg} = E \ Negated(E)
  BY DEF Edge, Negated
<1>8. ASSUME NEW e \in E
      PROVE  /\ e.neg => e \in Apart(E, seed)
             /\ e.from \in st.rec /\ e.to \notin Component(Paths({x \in E : ~ x.neg}), e.from)
                  => e \in Apart(E, seed)
  BY <1>4, <1>7 DEF Apart, Negated
<1>9. ASSUME NEW e \in E
      PROVE  /\ st.strata[e.from] <= st.strata[e.to]
             /\ e \in Apart(E, seed) => st.strata[e.from] < st.strata[e.to]
             /\ st.strata[e.from] \in Nat
  BY <1>4, <1>6
<1>10. ASSUME NEW e \in E PROVE e \in Apart(E, seed) => st.strata[e.from] # st.strata[e.to]
  BY <1>9
<1> QED BY <1>4, <1>5, <1>8, <1>9, <1>10

(***************************************************************************)
(* Mutually recursive relations share a stratum, so the loop that          *)
(* evaluates a stratum to its fixpoint has all the rules of the recursion. *)
(***************************************************************************)
THEOREM OneStratumPerComponent ==
    ASSUME NEW E \in SUBSET Edge, NEW seed, NEW st, st = ComputeStrata(E, seed), st.ok,
           NEW r \in Rels, NEW q \in Component(Paths({x \in E : ~ x.neg}), r)
    PROVE  st.strata[q] = st.strata[r]
<1> DEFINE L == {p \in Rels \X Rels : st.strata[p[1]] <= st.strata[p[2]]}
<1>1. st.strata \in [Rels -> Nat] /\ \A e \in E : st.strata[e.from] <= st.strata[e.to]
  BY StrataAreOrdered
<1>2. Transitive(L)
  <2> SUFFICES ASSUME NEW a, NEW c, NEW d, <<a, c>> \in L, <<c, d>> \in L PROVE <<a, d>> \in L
    BY DEF Transitive
  <2>1. a \in Rels /\ c \in Rels /\ d \in Rels
    OBVIOUS
  <2>2. st.strata[a] \in Nat /\ st.strata[c] \in Nat /\ st.strata[d] \in Nat
    BY <1>1, <2>1
  <2> QED BY <2>1, <2>2
<1>3. PICK F \in SUBSET Edge : F = {x \in E : ~ x.neg}
  OBVIOUS
<1>4. Steps(F) \subseteq L
  BY <1>1, <1>3 DEF Steps, Edge
<1>5. Paths(F) \subseteq L
  <2> HIDE DEF L
  <2> QED BY <1>2, <1>4, PathsWithin
<1>6. q = r \/ (<<r, q>> \in L /\ <<q, r>> \in L /\ q \in Rels)
  BY <1>3, <1>5 DEF Component
<1>7. CASE <<r, q>> \in L /\ <<q, r>> \in L /\ q \in Rels
  <2>1. st.strata[r] \in Nat /\ st.strata[q] \in Nat
    BY <1>1, <1>7
  <2> QED BY <1>7, <2>1
<1> QED BY <1>6, <1>7

(***************************************************************************)
(* compute_strata accepts no rules with a negation on a cycle of           *)
(* dependencies, whatever relations were recursive before (seed).          *)
(***************************************************************************)
THEOREM AcceptedIsStratifiable ==
    ASSUME NEW E \in SUBSET Edge, NEW seed, ComputeStrata(E, seed).ok
    PROVE  Stratifiable(E)
<1>1. PICK st : st = ComputeStrata(E, seed)
  OBVIOUS
<1> DEFINE L == {p \in Rels \X Rels : st.strata[p[1]] <= st.strata[p[2]]}
<1>2. /\ st.strata \in [Rels -> Nat]
      /\ \A e \in E : /\ st.strata[e.from] <= st.strata[e.to]
                      /\ e.neg => st.strata[e.from] < st.strata[e.to]
  BY <1>1, StrataAreOrdered
<1>3. Transitive(L)
  <2> SUFFICES ASSUME NEW a, NEW c, NEW d, <<a, c>> \in L, <<c, d>> \in L PROVE <<a, d>> \in L
    BY DEF Transitive
  <2>1. a \in Rels /\ c \in Rels /\ d \in Rels
    OBVIOUS
  <2>2. st.strata[a] \in Nat /\ st.strata[c] \in Nat /\ st.strata[d] \in Nat
    BY <1>2, <2>1
  <2> QED BY <2>1, <2>2
<1>4. Steps(E) \subseteq L
  BY <1>2 DEF Steps, Edge
<1>5. Paths(E) \subseteq L
  <2> HIDE DEF L
  <2> QED BY <1>3, <1>4, PathsWithin
<1>6. ASSUME NEW e \in E, e.neg PROVE <<e.to, e.from>> \notin Paths(E) /\ e.to # e.from
  <2>1. st.strata[e.from] \in Nat /\ st.strata[e.to] \in Nat /\ st.strata[e.from] < st.strata[e.to]
    BY <1>2, <1>6 DEF Edge
  <2>2. <<e.to, e.from>> \notin L
    BY <2>1
  <2> QED BY <1>5, <2>1, <2>2
<1> QED BY <1>6 DEF Stratifiable

(***************************************************************************)
(* compute_strata refuses no rules without a negation on a cycle, for any  *)
(* number of relations: neither the bound on the passes, nor the second    *)
(* assignment, which raises the readers of recursive relations, nor the    *)
(* last comparison turns them down.                                        *)
(***************************************************************************)
THEOREM StratifiableIsAccepted ==
    ASSUME NEW E \in SUBSET Edge, NEW seed, Stratifiable(E)
    PROVE  ComputeStrata(E, seed).ok
<1> DEFINE N == Negated(E)
           P == Paths(E)
           Q == Paths(E \ N)
<1>1. N \in OffCycles(E)
  BY DEF OffCycles, Negated, Stratifiable
<1>2. \A a, c : <<a, c>> \in P /\ <<c, a>> \in P => <<a, c>> \in Q
  BY CyclesArePositive DEF Negated
<1>3. Steps(E) \subseteq P
  BY PathsClosed
<1>4. Apart(E, seed) \in OffCycles(E)
  <2> SUFFICES ASSUME NEW e \in Apart(E, seed)
               PROVE  e \in E /\ <<e.to, e.from>> \notin P /\ e.to # e.from
    BY DEF OffCycles
  <2>1. CASE e \in N
    BY <1>1, <2>1 DEF OffCycles
  <2>2. CASE e \in E /\ e.to \notin Component(Q, e.from)
    <3>1. e.to # e.from /\ e.from \in Rels /\ e.to \in Rels
      BY <2>2 DEF Component, Edge
    <3>2. <<e.from, e.to>> \in P
      BY <1>3, <2>2 DEF Steps
    <3>3. <<e.to, e.from>> \notin P
      <4> SUFFICES ASSUME <<e.to, e.from>> \in P PROVE FALSE
        OBVIOUS
      <4>1. <<e.from, e.to>> \in Q /\ <<e.to, e.from>> \in Q
        BY <1>2, <3>2
      <4> QED BY <2>2, <3>1, <4>1 DEF Component
    <3> QED BY <2>2, <3>1, <3>3
  <2> QED BY <2>1, <2>2 DEF Apart
<1>5. /\ First(E) \in Below(NRels) /\ Second(E, seed) \in Below(NRels + NRels)
      /\ Rels \X {0} \subseteq Second(E, seed) /\ Rels \X {0} \in Numbered
  BY SecondShape DEF Numbered
<1>6. First(E) \in Numbered
  BY <1>5 DEF Below, Numbered
<1>7. Raise(E, N, First(E)) = First(E)
  BY <1>1, <1>5, SettledCloses DEF First
<1>8. PICK S \in Below(NRels + NRels) : S = Second(E, seed)
  BY <1>5
<1>9. Raise(E, Apart(E, seed), S) = S
  BY <1>4, <1>6, <1>8, SettledCloses DEF Second
<1>10. ASSUME NEW e \in N PROVE StratumOf(S, e.to) > StratumOf(S, e.from)
  <2>1. e \in E /\ e \in Apart(E, seed)
    BY DEF Negated, Apart
  <2>2. NRels + NRels \in Nat
    BY NRelsAssumption
  <2>3. /\ StratumOf(S, e.from) < StratumOf(S, e.to)
        /\ StratumOf(S, e.from) \in Nat /\ StratumOf(S, e.to) \in Nat
    BY <1>5, <1>8, <1>9, <2>1, <2>2, FixedOrders
  <2> QED BY <2>3
<1> QED BY <1>7, <1>8, <1>9, <1>10, ComputedStrata


-----------------------------------------------------------------------------
(***************************************************************************)
(* Fewer edges have fewer paths.                                           *)
(***************************************************************************)
LEMMA PathsGrow ==
    ASSUME NEW E \in SUBSET Edge, NEW F \in SUBSET E
    PROVE  Paths(F) \subseteq Paths(E)
<1>1. Transitive(Paths(E)) /\ Steps(E) \subseteq Paths(E)
  BY PathsClosed
<1>2. Steps(F) \subseteq Paths(E) /\ F \in SUBSET Edge
  BY <1>1 DEF Steps
<1> QED BY <1>1, <1>2, PathsWithin

(***************************************************************************)
(* A graph stays stratifiable when edges are taken away.                   *)
(***************************************************************************)
LEMMA StratifiableShrinks ==
    ASSUME NEW E \in SUBSET Edge, NEW F \in SUBSET E, Stratifiable(E)
    PROVE  Stratifiable(F)
<1>1. Paths(F) \subseteq Paths(E)
  BY PathsGrow
<1> QED BY <1>1 DEF Stratifiable

(***************************************************************************)
(* More edges, and more relations told to be recursive, make more          *)
(* relations recursive.                                                    *)
(***************************************************************************)
LEMMA RecursiveGrows ==
    ASSUME NEW E \in SUBSET Edge, NEW F \in SUBSET E, NEW S, NEW T, S \subseteq T
    PROVE  RecursiveIn(F, S) \subseteq RecursiveIn(E, T)
<1>1. Paths(F \ Negated(F)) \subseteq Paths(E \ Negated(E))
  <2>1. F \ Negated(F) \in SUBSET (E \ Negated(E)) /\ E \ Negated(E) \in SUBSET Edge
    BY DEF Negated
  <2> QED BY <2>1, PathsGrow
<1>2. ASSUME NEW r \in Rels, Component(Paths(F \ Negated(F)), r) # {r}
      PROVE  Component(Paths(E \ Negated(E)), r) # {r}
  BY <1>1, <1>2 DEF Component
<1> QED BY <1>2 DEF RecursiveIn, Recursive

(***************************************************************************)
(* To tell compute_strata of relations that it would find recursive by     *)
(* itself changes nothing.                                                 *)
(***************************************************************************)
LEMMA SeedTold ==
    ASSUME NEW E \in SUBSET Edge, NEW seed, seed \subseteq RecursiveIn(E, {})
    PROVE  /\ RecursiveIn(E, seed) = RecursiveIn(E, {})
           /\ ComputeStrata(E, seed) = ComputeStrata(E, {})
<1>1. RecursiveIn(E, seed) = RecursiveIn(E, {})
  BY DEF RecursiveIn, Recursive
<1>2. Recursive(E, Paths(E \ {e \in E : e.neg}), seed) = Recursive(E, Paths(E \ {e \in E : e.neg}), {})
  BY <1>1 DEF RecursiveIn, Negated
<1> QED BY <1>1, <1>2 DEF ComputeStrata

(***************************************************************************)
(* The edges of well-formed rules are edges between relations.             *)
(***************************************************************************)
LEMMA EdgesShape ==
    ASSUME NEW R, \A r \in R : IsRule(r)
    PROVE  Edges(R) \in SUBSET Edge
<1>1. ASSUME NEW r \in R, NEW i \in r.inst
      PROVE  RelsOf(Range(i.body)) \subseteq Rels /\ RelsOf(i.neg) \subseteq Rels
  <2>1. i.body \in Seq(Facts) /\ i.neg \subseteq Facts
    BY DEF IsRule, IsInstance
  <2>2. Range(i.body) \subseteq Facts
    BY <2>1 DEF Range
  <2> QED BY <2>1, <2>2, EvaluateAssumption DEF RelsOf
<1>2. ASSUME NEW r \in R
      PROVE  r.head \in Rels /\ PosReads(r) \subseteq Rels /\ NegReads(r) \subseteq Rels
  BY <1>1 DEF IsRule, PosReads, NegReads
<1>3. ASSUME NEW e \in Edges(R) PROVE e \in Edge
  <2>1. PICK r \in R : \/ \E q \in PosReads(r) : e = [from |-> q, to |-> r.head, neg |-> FALSE]
                       \/ \E q \in NegReads(r) : e = [from |-> q, to |-> r.head, neg |-> TRUE]
    BY DEF Edges
  <2>2. r.head \in Rels /\ PosReads(r) \subseteq Rels /\ NegReads(r) \subseteq Rels
    BY <1>2
  <2>3. ASSUME NEW q \in Rels, NEW n \in BOOLEAN, e = [from |-> q, to |-> r.head, neg |-> n]
        PROVE  e \in Edge
    BY <2>2, <2>3 DEF Edge
  <2> QED BY <2>1, <2>2, <2>3
<1> QED BY <1>3

(***************************************************************************)
(* More rules have more edges.                                             *)
(***************************************************************************)
LEMMA EdgesGrow ==
    ASSUME NEW R, NEW T, R \subseteq T
    PROVE  Edges(R) \subseteq Edges(T)
  BY DEF Edges

(***************************************************************************)
(* The edges of a rule depend on its head and its instances alone.         *)
(***************************************************************************)
LEMMA EdgesAlike ==
    ASSUME NEW R, NEW T,
           \A r \in R : \E q \in T : r.head = q.head /\ r.inst = q.inst
    PROVE  Edges(R) \subseteq Edges(T)
<1>1. ASSUME NEW e \in Edges(R) PROVE e \in Edges(T)
  <2>1. PICK r \in R : \/ \E x \in PosReads(r) : e = [from |-> x, to |-> r.head, neg |-> FALSE]
                       \/ \E x \in NegReads(r) : e = [from |-> x, to |-> r.head, neg |-> TRUE]
    BY DEF Edges
  <2>2. PICK q \in T : r.head = q.head /\ r.inst = q.inst
    OBVIOUS
  <2>3. PosReads(r) = PosReads(q) /\ NegReads(r) = NegReads(q)
    BY <2>2 DEF PosReads, NegReads
  <2> QED BY <2>1, <2>2, <2>3 DEF Edges
<1> QED BY <1>1

(***************************************************************************)
(* A compiled rule, field by field: the flags come from the strata, the    *)
(* rest is the source's.                                                   *)
(***************************************************************************)
LEMMA CompiledFields ==
    ASSUME NEW st, NEW r
    PROVE  /\ Compiled(st, r) = [head |-> r.head, opaque |-> r.opaque, via |-> r.via, inst |-> r.inst,
                                 perm |-> r.via \in st.rec, stratum |-> st.strata[r.head],
                                 rec |-> r.head \in st.rec]
           /\ Compiled(st, r).head = r.head /\ Compiled(st, r).inst = r.inst
           /\ Compiled(st, r).opaque = r.opaque /\ Compiled(st, r).via = r.via
           /\ Compiled(st, r).perm = (r.via \in st.rec)
           /\ Compiled(st, r).stratum = st.strata[r.head]
           /\ Compiled(st, r).rec = (r.head \in st.rec)
  BY DEF Compiled, Flagged, Planned

(***************************************************************************)
(* A plan whose route was chosen under the strata that flag it becomes the *)
(* rule those strata compile.                                              *)
(***************************************************************************)
LEMMA FlaggedAgain ==
    ASSUME NEW st, NEW q, q.perm = (q.via \in st.rec)
    PROVE  Flagged(st, q) = Compiled(st, q)
  BY CompiledFields DEF Flagged

(***************************************************************************)
(* The strata of a set of rules compiled in one load.                      *)
(***************************************************************************)
Strata(R) == ComputeStrata(Edges(R), {})

(***************************************************************************)
(* The inductive invariant of batched loading (dl_load_program): every     *)
(* rule the program holds is the rule that one compilation of all of them  *)
(* would make, and that compilation is accepted. OneProgram follows from   *)
(* it; by itself OneProgram says nothing of the rules' shape or of the     *)
(* strata's being accepted, without which the edges of an old rule could   *)
(* not be compared with those of the union.                                *)
(***************************************************************************)
ProgramInv ==
    /\ rules \in Seq(Rules)
    /\ \A r \in Rules : IsRule(r) /\ r = Compiled(Strata(Rules), r)
    /\ Strata(Rules).ok

(***************************************************************************)
(* The relations a new batch is told are recursive are so by the edges of  *)
(* the rules loaded already.                                               *)
(***************************************************************************)
LEMMA SeedIsRecursive ==
    ASSUME ProgramInv
    PROVE  Seed \subseteq RecursiveIn(Edges(Rules), {})
<1>1. ASSUME NEW r \in Rules, r.rec PROVE r.head \in RecursiveIn(Edges(Rules), {})
  <2>1. Compiled(Strata(Rules), r).rec = (r.head \in Strata(Rules).rec)
    BY CompiledFields
  <2>2. r = Compiled(Strata(Rules), r)
    BY DEF ProgramInv
  <2>3. r.rec = (r.head \in Strata(Rules).rec)
    BY <2>1, <2>2
  <2> QED BY <1>1, <2>3, ComputedStrata DEF Strata
<1> QED BY <1>1 DEF Seed

(***************************************************************************)
(* A batch is a sequence of well-formed rules.                             *)
(***************************************************************************)
LEMMA BatchShape ==
    ASSUME NEW p \in Programs, NEW b \in p
    PROVE  b \in Seq(Range(b)) /\ \A r \in Range(b) : IsRule(r)
  BY ViewsAssumption

(***************************************************************************)
(* The strata of the union, computed with the seed of the rules loaded     *)
(* already, are those of one load of everything; those of the batch alone  *)
(* find no more recursion; and for the first batch the two agree.          *)
(***************************************************************************)
LEMMA UnionIsOneLoad ==
    ASSUME ProgramInv, NEW b, \A r \in Range(b) : IsRule(r)
    PROVE  /\ UnionStrata(b) = Strata(Rules \cup Range(b))
           /\ Seed \subseteq BatchStrata(b).rec
           /\ BatchStrata(b).rec \subseteq UnionStrata(b).rec
           /\ Strata(Rules).rec \subseteq UnionStrata(b).rec
           /\ rules = <<>> => BatchStrata(b) = UnionStrata(b)
<1>1. PICK U : U = Rules \cup Range(b)
  OBVIOUS
<1>2. PICK E : E = Edges(U)
  OBVIOUS
<1>3. E \in SUBSET Edge
  BY <1>1, <1>2, EdgesShape DEF ProgramInv
<1>4. Edges(Rules) \in SUBSET E /\ Edges(Range(b)) \in SUBSET E
  BY <1>1, <1>2, EdgesGrow
<1>5. RecursiveIn(Edges(Rules), {}) \subseteq RecursiveIn(E, {})
  BY <1>3, <1>4, RecursiveGrows
<1>6. Seed \subseteq RecursiveIn(E, {})
  BY <1>5, SeedIsRecursive
<1>7. ComputeStrata(E, Seed) = ComputeStrata(E, {})
  BY <1>3, <1>6, SeedTold
<1>8. RecursiveIn(Edges(Range(b)), Seed) \subseteq RecursiveIn(E, Seed)
  BY <1>3, <1>4, RecursiveGrows
<1>9. Seed \subseteq RecursiveIn(Edges(Range(b)), Seed)
  BY DEF RecursiveIn, Recursive
<1>10. ASSUME rules = <<>> PROVE E = Edges(Range(b))
  <2>1. Rules = {}
    BY <1>10 DEF Rules, Range
  <2> QED BY <1>1, <1>2, <2>1
<1>11. RecursiveIn(E, Seed) = RecursiveIn(E, {})
  <2>1. ComputeStrata(E, Seed).rec = RecursiveIn(E, Seed) /\ ComputeStrata(E, {}).rec = RecursiveIn(E, {})
    BY ComputedStrata
  <2> QED BY <1>7, <2>1
<1>12. UnionStrata(b) = ComputeStrata(E, Seed) /\ BatchStrata(b) = ComputeStrata(Edges(Range(b)), Seed)
  BY <1>1, <1>2 DEF UnionStrata, BatchStrata
<1>13. BatchStrata(b).rec = RecursiveIn(Edges(Range(b)), Seed) /\ UnionStrata(b).rec = RecursiveIn(E, Seed)
  BY <1>12, ComputedStrata
<1>14. Strata(Rules).rec = RecursiveIn(Edges(Rules), {})
  BY ComputedStrata DEF Strata
<1> QED BY <1>1, <1>2, <1>5, <1>7, <1>8, <1>9, <1>10, <1>11, <1>12, <1>13, <1>14 DEF Strata

(***************************************************************************)
(* q is a plan of the source of r: the same rule but for its flags.        *)
(***************************************************************************)
PlanOf(q, r) ==
    /\ q.head = r.head
    /\ q.inst = r.inst
    /\ q.opaque = r.opaque
    /\ q.via = r.via

(***************************************************************************)
(* A load makes one plan of every rule, in order, and each has the route   *)
(* the union's strata call for: an old rule whose relation became          *)
(* recursive is planned again (recompile_for_union).                       *)
(***************************************************************************)
LEMMA PlansShape ==
    ASSUME ProgramInv, NEW b, b \in Seq(Range(b)), \A r \in Range(b) : IsRule(r)
    PROVE  /\ DOMAIN Plans(b) = 1 .. Len(rules) + Len(b)
           /\ \A k \in 1 .. Len(rules) + Len(b) :
                 /\ PlanOf(Plans(b)[k], (rules \o b)[k])
                 /\ Plans(b)[k].perm = (Plans(b)[k].via \in UnionStrata(b).rec)
<1>1. PICK all : all = rules \o b
  OBVIOUS
<1>2. PICK st : st = UnionStrata(b)
  OBVIOUS
<1>3. PICK own : own = [k \in DOMAIN b |-> Planned(BatchStrata(b).rec, b[k])]
  OBVIOUS
<1>4. rules \in Seq(Rules) /\ b \in Seq(Range(b))
  BY DEF ProgramInv
<1>5. DOMAIN all = 1 .. Len(rules) + Len(b)
  BY <1>1, <1>4
<1>6. Plans(b) = IF rules # <<>> /\ st.rec # Seed
                 THEN [k \in DOMAIN all |-> Planned(st.rec, all[k])] ELSE rules \o own
  BY <1>1, <1>2, <1>3 DEF Plans
<1>7. ASSUME NEW rec, NEW r
      PROVE  /\ PlanOf(Planned(rec, r), r)
             /\ Planned(rec, r).perm = (Planned(rec, r).via \in rec)
  BY DEF Planned, PlanOf
<1>8. CASE rules # <<>> /\ st.rec # Seed
  <2>1. Plans(b) = [k \in DOMAIN all |-> Planned(st.rec, all[k])]
    BY <1>6, <1>8
  <2> QED BY <1>1, <1>2, <1>5, <1>7, <2>1
<1>9. CASE ~ (rules # <<>> /\ st.rec # Seed)
  <2>1. Plans(b) = rules \o own
    BY <1>6, <1>9
  <2>2. BatchStrata(b).rec = st.rec
    BY <1>2, <1>9, UnionIsOneLoad
  <2>3. ASSUME NEW r \in Rules PROVE r.perm = (r.via \in st.rec)
    <3>1. rules # <<>>
      BY <2>3 DEF Rules, Range
    <3>2. Strata(Rules).rec = st.rec
      <4>1. st.rec = Seed
        BY <1>9, <3>1
      <4>2. Seed \subseteq Strata(Rules).rec
        BY SeedIsRecursive, ComputedStrata DEF Strata
      <4> QED BY <1>2, <4>1, <4>2, UnionIsOneLoad
    <3>3. r = Compiled(Strata(Rules), r)
      BY DEF ProgramInv
    <3>4. Compiled(Strata(Rules), r).perm = (r.via \in Strata(Rules).rec)
      BY CompiledFields
    <3> QED BY <3>2, <3>3, <3>4
  <2>4. Len(own) = Len(b) /\ own \in Seq({own[k] : k \in DOMAIN b}) /\ DOMAIN b = 1 .. Len(b)
    <3>1. DOMAIN b = 1 .. Len(b) /\ Len(b) \in Nat
      BY <1>4
    <3>2. DOMAIN own = 1 .. Len(b)
      BY <1>3, <3>1
    <3>3. own \in [1 .. Len(b) -> {own[k] : k \in DOMAIN b}]
      BY <1>3, <3>1, <3>2
    <3>4. own \in Seq({own[k] : k \in DOMAIN b})
      BY <3>1, <3>3
    <3> QED BY <3>1, <3>2, <3>4
  <2>5. DOMAIN (rules \o own) = 1 .. Len(rules) + Len(b)
    <3>1. PICK W : W = Rules \cup {own[k] : k \in DOMAIN b}
      OBVIOUS
    <3>2. rules \in Seq(W) /\ own \in Seq(W) /\ Len(rules) \in Nat /\ Len(own) \in Nat
      BY <1>4, <2>4, <3>1
    <3>3. rules \o own \in Seq(W) /\ Len(rules \o own) = Len(rules) + Len(own)
      BY <3>2
    <3> QED BY <2>4, <3>3
  <2>6. ASSUME NEW k \in 1 .. Len(rules) + Len(b)
        PROVE  /\ PlanOf((rules \o own)[k], all[k])
               /\ (rules \o own)[k].perm = ((rules \o own)[k].via \in st.rec)
    <3>1. Len(rules) \in Nat /\ Len(b) \in Nat
      BY <1>4
    <3>2. CASE k <= Len(rules)
      <4>1. (rules \o own)[k] = rules[k] /\ all[k] = rules[k] /\ k \in DOMAIN rules
        BY <1>1, <1>4, <2>4, <3>1, <3>2
      <4>2. rules[k] \in Rules
        BY <4>1 DEF Rules, Range
      <4> QED BY <2>3, <4>1, <4>2 DEF PlanOf
    <3>3. CASE k > Len(rules)
      <4>1. PICK j \in 1 .. Len(b) : j = k - Len(rules)
        BY <3>1, <3>3
      <4>2. (rules \o own)[k] = own[j] /\ all[k] = b[j]
        BY <1>1, <1>4, <2>4, <3>1, <3>3, <4>1
      <4>3. own[j] = Planned(st.rec, b[j])
        BY <1>3, <2>2, <2>4, <4>1
      <4> QED BY <1>7, <4>2, <4>3
    <3>4. k <= Len(rules) \/ k > Len(rules)
      BY <3>1
    <3> QED BY <3>2, <3>3, <3>4
  <2> QED BY <1>1, <1>2, <2>1, <2>5, <2>6
<1> QED BY <1>8, <1>9

(***************************************************************************)
(* The positive edges are those that are not negated.                      *)
(***************************************************************************)
LEMMA PositiveEdges ==
    ASSUME NEW E
    PROVE  {e \in E : ~ e.neg} = E \ Negated(E)
  BY DEF Negated

(***************************************************************************)
(* In a stratifiable graph compute_strata calls recursive just the         *)
(* relations that lie on a cycle of positive edges: a relation that        *)
(* negates itself, which it also calls so, has no place in such a graph.   *)
(***************************************************************************)
LEMMA RecursiveIsCyclic ==
    ASSUME NEW E \in SUBSET Edge, Stratifiable(E), NEW h \in Rels
    PROVE  h \in RecursiveIn(E, {}) <=> <<h, h>> \in Paths({e \in E : ~ e.neg})
<1>1. PICK F : F = E \ Negated(E)
  OBVIOUS
<1>2. F \in SUBSET Edge /\ \A e \in F : e \in E /\ ~ e.neg
  BY <1>1 DEF Negated
<1>3. PICK P : P = Paths(F)
  OBVIOUS
<1>4. Transitive(P) /\ Steps(F) \subseteq P
  BY <1>2, <1>3, PathsClosed
<1>5. h \in RecursiveIn(E, {}) <=> \/ Component(P, h) # {h}
                                   \/ \E e \in E : e.from = h /\ e.to = h
  BY <1>1, <1>3 DEF RecursiveIn, Recursive
<1>6. ASSUME Component(P, h) # {h} PROVE <<h, h>> \in P
  <2>1. PICK q \in Rels : <<h, q>> \in P /\ <<q, h>> \in P
    BY <1>6 DEF Component
  <2> QED BY <1>4, <2>1 DEF Transitive
<1>7. ASSUME NEW e \in E, e.from = h, e.to = h PROVE <<h, h>> \in P
  <2>1. ~ e.neg
    BY <1>7 DEF Stratifiable
  <2>2. e \in F
    BY <1>1, <2>1 DEF Negated
  <2>3. <<e.from, e.to>> \in Steps(F)
    BY <2>2 DEF Steps
  <2> QED BY <1>4, <1>7, <2>3
<1>8. ASSUME <<h, h>> \in P
      PROVE  Component(P, h) # {h} \/ \E e \in E : e.from = h /\ e.to = h
  <2> DEFINE Circular(r) == Component(P, r) # {r} \/ \E e \in E : e.from = r /\ e.to = r
             L == {p \in P : p[1] = p[2] => Circular(p[1])}
  <2>1. Steps(F) \subseteq L
    <3>1. ASSUME NEW e \in F PROVE <<e.from, e.to>> \in L
      BY <1>2, <1>4, <3>1 DEF Steps
    <3> QED BY <3>1 DEF Steps
  <2>2. Transitive(L)
    <3> SUFFICES ASSUME NEW a, NEW c, NEW d, <<a, c>> \in L, <<c, d>> \in L PROVE <<a, d>> \in L
      BY DEF Transitive
    <3>1. <<a, c>> \in P /\ <<c, d>> \in P /\ <<a, d>> \in P
      BY <1>4 DEF Transitive
    <3>2. CASE a = d /\ a = c
      BY <3>1, <3>2
    <3>3. CASE a = d /\ a # c
      <4>1. P \subseteq Rels \X Rels
        BY <1>2, <1>3, PathsClosed
      <4>2. c \in Rels
        BY <3>1, <4>1
      <4>3. c \in Component(P, a)
        BY <3>1, <3>3, <4>2 DEF Component
      <4>4. Circular(a)
        BY <3>3, <4>3
      <4> QED BY <3>1, <4>4
    <3>4. CASE a # d
      BY <3>1, <3>4
    <3> QED BY <3>2, <3>3, <3>4
  <2>3. P \subseteq L
    <3> HIDE DEF L
    <3> QED BY <1>2, <1>3, <2>1, <2>2, PathsWithin
  <2>4. <<h, h>> \in L
    BY <1>8, <2>3
  <2> QED BY <2>4
<1>9. Paths({e \in E : ~ e.neg}) = P
  BY <1>1, <1>3, PositiveEdges
<1> QED BY <1>5, <1>6, <1>7, <1>8, <1>9

(***************************************************************************)
(* A batch that is accepted leaves the program as one load of all its      *)
(* rules would have made it.                                               *)
(***************************************************************************)
LEMMA LoadKeepsProgram ==
    ASSUME ProgramInv, NEW b, b \in Seq(Range(b)), \A r \in Range(b) : IsRule(r),
           Accepts(b), rules' = Published(b)
    PROVE  ProgramInv'
<1>1. PICK n : n = Len(rules) + Len(b)
  OBVIOUS
<1>2. PICK st : st = UnionStrata(b)
  OBVIOUS
<1>3. PICK plans : plans = Plans(b)
  OBVIOUS
<1>4. PICK all : all = rules \o b
  OBVIOUS
<1>5. rules \in Seq(Rules) /\ n \in Nat
  BY <1>1 DEF ProgramInv
<1>6. DOMAIN all = 1 .. n /\ Range(all) = Rules \cup Range(b)
  <2>1. /\ Len(rules) \in Nat /\ Len(b) \in Nat
        /\ DOMAIN rules = 1 .. Len(rules) /\ DOMAIN b = 1 .. Len(b)
    BY <1>5
  <2>2. DOMAIN all = 1 .. n
    BY <1>1, <1>4, <2>1
  <2>3. \A k \in 1 .. Len(rules) : k \in 1 .. n /\ all[k] = rules[k]
    BY <1>1, <1>4, <1>5, <2>1
  <2>4. \A k \in 1 .. Len(b) : k + Len(rules) \in 1 .. n /\ all[k + Len(rules)] = b[k]
    BY <1>1, <1>4, <1>5, <2>1
  <2>5. ASSUME NEW k \in 1 .. n PROVE all[k] \in Rules \cup Range(b)
    <3>1. CASE k <= Len(rules)
      <4>1. k \in DOMAIN rules /\ all[k] = rules[k]
        BY <2>1, <2>3, <3>1
      <4> QED BY <4>1 DEF Rules, Range
    <3>2. CASE k > Len(rules)
      <4>1. PICK j \in 1 .. Len(b) : k = j + Len(rules)
        <5>1. k - Len(rules) \in 1 .. Len(b) /\ k = (k - Len(rules)) + Len(rules)
          BY <1>1, <2>1, <3>2
        <5> QED BY <5>1
      <4>2. j \in DOMAIN b /\ all[k] = b[j]
        BY <2>1, <2>4, <4>1
      <4> QED BY <4>2 DEF Range
    <3> QED BY <2>1, <3>1, <3>2
  <2>6. ASSUME NEW r \in Rules \cup Range(b) PROVE \E k \in 1 .. n : all[k] = r
    <3>1. CASE r \in Rules
      <4>1. PICK k \in DOMAIN rules : rules[k] = r
        BY <3>1 DEF Rules, Range
      <4> QED BY <2>1, <2>3, <4>1
    <3>2. CASE r \in Range(b)
      <4>1. PICK k \in DOMAIN b : b[k] = r
        BY <3>2 DEF Range
      <4> QED BY <2>1, <2>4, <4>1
    <3> QED BY <3>1, <3>2
  <2> QED BY <2>2, <2>5, <2>6 DEF Range
<1>7. /\ DOMAIN plans = 1 .. n
      /\ \A k \in 1 .. n : PlanOf(plans[k], all[k]) /\ plans[k].perm = (plans[k].via \in st.rec)
  BY <1>1, <1>2, <1>3, <1>4, PlansShape
<1>8. rules' = [k \in 1 .. n |-> Compiled(st, plans[k])]
  <2>1. rules' = [k \in 1 .. n |-> Flagged(st, plans[k])]
    BY <1>2, <1>3, <1>7 DEF Published
  <2>2. \A k \in 1 .. n : Flagged(st, plans[k]) = Compiled(st, plans[k])
    BY <1>7, FlaggedAgain
  <2> QED BY <2>1, <2>2
<1>9. rules' \in Seq(Rules') /\ Rules' = {rules'[k] : k \in 1 .. n}
  <2>1. DOMAIN rules' = 1 .. n
    BY <1>8
  <2>2. Rules' = {rules'[k] : k \in 1 .. n}
    BY <2>1 DEF Rules, Range
  <2>3. rules' \in [1 .. n -> Rules']
    BY <1>8, <2>1, <2>2
  <2> QED BY <1>5, <2>2, <2>3
<1>10. ASSUME NEW k \in 1 .. n
       PROVE  /\ PlanOf(rules'[k], all[k]) /\ IsRule(rules'[k])
              /\ rules'[k] = Compiled(st, rules'[k])
  <2>1. PICK p : p = plans[k]
    OBVIOUS
  <2>2. PICK q : q = rules'[k]
    OBVIOUS
  <2>3. q = Compiled(st, p) /\ PlanOf(p, all[k])
    BY <1>7, <1>8, <2>1, <2>2
  <2>4. q.head = p.head /\ q.inst = p.inst /\ q.opaque = p.opaque /\ q.via = p.via
    BY <2>3, CompiledFields
  <2>5. PlanOf(q, all[k])
    BY <2>3, <2>4 DEF PlanOf
  <2>6. IsRule(all[k])
    BY <1>6 DEF Range, ProgramInv
  <2>7. IsRule(q)
    BY <2>5, <2>6 DEF IsRule, PlanOf, PosReads
  <2>8. Compiled(st, q) = Compiled(st, p)
    BY <2>4, CompiledFields
  <2> QED BY <2>2, <2>3, <2>5, <2>7, <2>8
<1>11. PICK R : R = Rules'
  OBVIOUS
<1>12. PICK U : U = Rules \cup Range(b)
  OBVIOUS
<1>13. Edges(R) = Edges(U)
  <2>1. ASSUME NEW r \in R PROVE \E q \in U : r.head = q.head /\ r.inst = q.inst
    <3>1. PICK k \in 1 .. n : r = rules'[k]
      BY <1>9, <1>11
    <3>2. all[k] \in U
      BY <1>6, <1>12 DEF Range
    <3> QED BY <1>10, <3>1, <3>2 DEF PlanOf
  <2>2. ASSUME NEW q \in U PROVE \E r \in R : q.head = r.head /\ q.inst = r.inst
    <3>1. PICK k \in 1 .. n : q = all[k]
      BY <1>6, <1>12 DEF Range
    <3>2. rules'[k] \in R
      BY <1>9, <1>11
    <3> QED BY <1>10, <3>1, <3>2 DEF PlanOf
  <2>3. Edges(R) \subseteq Edges(U)
    BY <2>1, EdgesAlike
  <2>4. Edges(U) \subseteq Edges(R)
    BY <2>2, EdgesAlike
  <2> QED BY <2>3, <2>4
<1>14. st = Strata(R)
  <2>1. st = Strata(U)
    BY <1>2, <1>12, UnionIsOneLoad
  <2> QED BY <1>13, <2>1 DEF Strata
<1>15. st.ok
  BY <1>2 DEF Accepts
<1>16. \A r \in R : IsRule(r) /\ r = Compiled(Strata(R), r)
  BY <1>9, <1>10, <1>11, <1>14
<1>17. rules' \in Seq(R) /\ Strata(R).ok
  BY <1>9, <1>11, <1>14, <1>15
<1> QED BY <1>11, <1>16, <1>17 DEF ProgramInv

(***************************************************************************)
(* The program is empty at first, and an empty program is one load.        *)
(***************************************************************************)
LEMMA ProgramInit == Init => ProgramInv
<1> SUFFICES ASSUME Init PROVE ProgramInv
  OBVIOUS
<1>1. rules = <<>> /\ Rules = {}
  BY DEF Init, Rules, Range
<1>2. Edges(Rules) = {}
  BY <1>1 DEF Edges
<1>3. Edges(Rules) \in SUBSET Edge /\ Stratifiable(Edges(Rules))
  BY <1>2 DEF Stratifiable
<1>4. Strata(Rules).ok
  BY <1>3, StratifiableIsAccepted DEF Strata
<1> QED BY <1>1, <1>4 DEF ProgramInv

(***************************************************************************)
(* No operation but a load writes the rules.                               *)
(***************************************************************************)
LEMMA ProgramNext == ProgramInv /\ [Next]_vars => ProgramInv'
<1> SUFFICES ASSUME ProgramInv, [Next]_vars PROVE ProgramInv'
  OBVIOUS
<1>1. ASSUME NEW p \in Programs, NEW b \in p, LoadRules(b) PROVE ProgramInv'
  <2>1. Accepts(b) /\ rules' = Published(b)
    BY <1>1 DEF LoadRules
  <2> QED BY <1>1, <2>1, BatchShape, LoadKeepsProgram
<1>2. ASSUME rules' = rules PROVE ProgramInv'
  BY <1>2 DEF ProgramInv, Rules
<1>3. CASE UNCHANGED vars
  BY <1>2, <1>3 DEF vars
<1>4. ASSUME NEW f \in Inputs, AddFact(f) \/ DeleteFact(f) PROVE ProgramInv'
  BY <1>2, <1>4 DEF AddFact, DeleteFact
<1>5. ASSUME NEW S, LoadFacts(S) \/ LoadFactsFail(S) PROVE ProgramInv'
  BY <1>2, <1>5 DEF LoadFacts, LoadFactsFail
<1>6. CASE Compile \/ Query \/ Reevaluate \/ DRedDelete \/ Increment \/ PropagateDeltas
  BY <1>2, <1>6 DEF Compile, Query, Reevaluate, DRedDelete, Increment, PropagateDeltas, Settle
<1>7. ASSUME NEW n \in 0 .. MaxStratum, EvaluateFail(n) \/ ReevaluateFail(n) \/ IncrementFail(n)
      PROVE  ProgramInv'
  BY <1>2, <1>7 DEF EvaluateFail, ReevaluateFail, IncrementFail
<1> QED BY <1>1, <1>3, <1>4, <1>5, <1>6, <1>7 DEF Next

(***************************************************************************)
(* A rule has an edge from every relation it reads.                        *)
(***************************************************************************)
LEMMA EdgeOfRead ==
    ASSUME NEW R, NEW r \in R, NEW x
    PROVE  /\ x \in NegReads(r) => [from |-> x, to |-> r.head, neg |-> TRUE] \in Edges(R)
           /\ x \in PosReads(r) => [from |-> x, to |-> r.head, neg |-> FALSE] \in Edges(R)
<1> DEFINE P(q) == {[from |-> y, to |-> q.head, neg |-> FALSE] : y \in PosReads(q)}
           N(q) == {[from |-> y, to |-> q.head, neg |-> TRUE] : y \in NegReads(q)}
<1>1. x \in NegReads(r) => [from |-> x, to |-> r.head, neg |-> TRUE] \in N(r)
  OBVIOUS
<1>2. x \in PosReads(r) => [from |-> x, to |-> r.head, neg |-> FALSE] \in P(r)
  OBVIOUS
<1>3. Edges(R) = UNION {P(q) \cup N(q) : q \in R}
  BY DEF Edges
<1> HIDE DEF P, N
<1>4. P(r) \subseteq Edges(R) /\ N(r) \subseteq Edges(R)
  BY <1>3
<1> QED BY <1>1, <1>2, <1>4

(***************************************************************************)
(* What OneProgram asks is part of the inductive invariant.                *)
(***************************************************************************)
LEMMA ProgramIsOne == ProgramInv => OneProgram
<1> SUFFICES ASSUME ProgramInv PROVE OneProgram
  OBVIOUS
<1>1. PICK E : E = Edges(Rules)
  OBVIOUS
<1>2. PICK st : st = Strata(Rules)
  OBVIOUS
<1>3. E \in SUBSET Edge
  BY <1>1, EdgesShape DEF ProgramInv
<1>4. st = ComputeStrata(E, {}) /\ st.ok
  BY <1>1, <1>2 DEF Strata, ProgramInv
<1>5. Stratifiable(E)
  BY <1>3, <1>4, AcceptedIsStratifiable
<1>6. Cycles(Rules) = Paths({e \in E : ~ e.neg})
  BY <1>1 DEF Cycles
<1>7. ASSUME NEW r \in Rules
      PROVE  /\ r = Compiled(st, r) /\ r.head \in Rels
             /\ r.stratum = st.strata[r.head] /\ r.rec = (r.head \in st.rec)
  <2>1. r = Compiled(st, r) /\ IsRule(r)
    BY <1>2 DEF ProgramInv
  <2>2. Compiled(st, r).stratum = st.strata[r.head] /\ Compiled(st, r).rec = (r.head \in st.rec)
    BY CompiledFields
  <2> QED BY <2>1, <2>2 DEF IsRule
<1>8. Rules = OneLoad(Rules)
  <2>1. OneLoad(Rules) = {Compiled(st, r) : r \in Rules}
    BY <1>1, <1>4 DEF OneLoad
  <2> QED BY <1>7, <2>1
<1>9. ASSUME NEW r \in Rules PROVE r.rec = IsRecursive(Rules, r)
  <2>1. st.rec = RecursiveIn(E, {})
    BY <1>4, ComputedStrata
  <2>2. r.head \in st.rec <=> <<r.head, r.head>> \in Cycles(Rules)
    BY <1>3, <1>5, <1>6, <1>7, <2>1, RecursiveIsCyclic
  <2>3. r.rec = (r.head \in st.rec)
    BY <1>7
  <2> QED BY <2>2, <2>3 DEF IsRecursive
<1>10. ASSUME NEW r \in Rules, NEW q \in Rules,
              \/ q.head \in NegReads(r)
              \/ q.head \in PosReads(r) /\ q.rec /\ <<r.head, q.head>> \notin Cycles(Rules)
       PROVE  q.stratum < r.stratum
  <2>1. q.stratum = st.strata[q.head] /\ r.stratum = st.strata[r.head] /\ q.head \in Rels /\ r.head \in Rels
    BY <1>7
  <2>2. st.strata \in [Rels -> Nat]
    BY <1>3, <1>4, StrataAreOrdered
  <2>3. CASE q.head \in NegReads(r)
    <3>1. PICK e \in E : e = [from |-> q.head, to |-> r.head, neg |-> TRUE]
      BY <1>1, <2>3, EdgeOfRead
    <3>2. e.neg /\ e.from = q.head /\ e.to = r.head
      BY <3>1
    <3>3. e.neg => st.strata[e.from] < st.strata[e.to]
      BY <1>3, <1>4, StrataAreOrdered
    <3> QED BY <2>1, <3>2, <3>3
  <2>4. CASE q.head \in PosReads(r) /\ q.rec /\ <<r.head, q.head>> \notin Cycles(Rules)
    <3>1. PICK e \in E : e = [from |-> q.head, to |-> r.head, neg |-> FALSE]
      BY <1>1, <2>4, EdgeOfRead
    <3>2. ~ e.neg /\ e.from = q.head /\ e.to = r.head
      BY <3>1
    <3>3. /\ st.strata[e.from] <= st.strata[e.to]
          /\ e.from \in st.rec /\ st.strata[e.from] = st.strata[e.to] =>
               e.to \in Component(Paths({x \in E : ~ x.neg}), e.from)
      BY <1>3, <1>4, StrataAreOrdered
    <3>4. q.head \in st.rec
      BY <1>7, <2>4
    <3>5. r.head \notin Component(Cycles(Rules), q.head)
      <4>1. r.head # q.head
        BY <1>9, <2>4 DEF IsRecursive
      <4> QED BY <2>4, <4>1 DEF Component
    <3>6. st.strata[q.head] # st.strata[r.head] /\ st.strata[q.head] <= st.strata[r.head]
      BY <1>6, <3>2, <3>3, <3>4, <3>5
    <3> QED BY <2>1, <2>2, <3>6
  <2> QED BY <1>10, <2>3, <2>4
<1>11. ASSUME NEW b \in UNION Programs
       PROVE  Accepts(b) <=> Stratifiable(Edges(Rules \cup Range(b)))
  <2>1. \A r \in Range(b) : IsRule(r)
    BY BatchShape
  <2>2. PICK F : F = Edges(Rules \cup Range(b))
    OBVIOUS
  <2>3. F \in SUBSET Edge /\ Edges(Range(b)) \in SUBSET F
    BY <2>1, <2>2, EdgesShape, EdgesGrow DEF ProgramInv
  <2>4. /\ UnionStrata(b) = ComputeStrata(F, Seed)
        /\ BatchStrata(b) = ComputeStrata(Edges(Range(b)), Seed)
    BY <2>2 DEF UnionStrata, BatchStrata
  <2>5. ASSUME Accepts(b) PROVE Stratifiable(F)
    BY <2>3, <2>4, <2>5, AcceptedIsStratifiable DEF Accepts
  <2>6. ASSUME Stratifiable(F) PROVE Accepts(b)
    <3>1. ComputeStrata(F, Seed).ok
      BY <2>3, <2>6, StratifiableIsAccepted
    <3>2. Stratifiable(Edges(Range(b)))
      BY <2>3, <2>6, StratifiableShrinks
    <3>3. Edges(Range(b)) \in SUBSET Edge
      BY <2>3
    <3>4. ComputeStrata(Edges(Range(b)), Seed).ok
      BY <3>2, <3>3, StratifiableIsAccepted
    <3> QED BY <2>4, <3>1, <3>4 DEF Accepts
  <2> QED BY <2>2, <2>5, <2>6
<1> QED BY <1>8, <1>9, <1>10, <1>11 DEF OneProgram

(***************************************************************************)
(* Rules loaded in batches are the program that one load of all of them    *)
(* would have made: the same strata, the same recursion flags and the same *)
(* routes, for all programs, batches and orders of loading, views, facts   *)
(* and deletions in between; and a batch is refused exactly when the       *)
(* program with it has no strata (dl_load_program, recompile_for_union).   *)
(***************************************************************************)
THEOREM BatchesAreOneProgram == Spec => []OneProgram
<1>1. Spec => []ProgramInv
  BY ProgramInit, ProgramNext, PTL DEF Spec
<1> QED BY <1>1, ProgramIsOne, PTL

-----------------------------------------------------------------------------
(***************************************************************************)
(* The flags of a loaded rule, by the strata of the program.               *)
(***************************************************************************)
LEMMA RuleFlags ==
    ASSUME ProgramInv, NEW st, st = Strata(Rules), NEW r \in Rules
    PROVE  /\ r.head \in Rels
           /\ r.stratum = st.strata[r.head]
           /\ r.rec = (r.head \in st.rec)
           /\ r.perm = (r.via \in st.rec)
<1>1. r = Compiled(st, r) /\ IsRule(r)
  BY DEF ProgramInv
<1>2. /\ Compiled(st, r).stratum = st.strata[r.head] /\ Compiled(st, r).rec = (r.head \in st.rec)
      /\ Compiled(st, r).perm = (r.via \in st.rec)
  BY CompiledFields
<1> QED BY <1>1, <1>2 DEF IsRule

(***************************************************************************)
(* The graph of the loaded rules is stratifiable, and Cycles is its        *)
(* positive reachability.                                                  *)
(***************************************************************************)
LEMMA ProgramGraph ==
    ASSUME ProgramInv, NEW E, E = Edges(Rules)
    PROVE  /\ E \in SUBSET Edge
           /\ Strata(Rules) = ComputeStrata(E, {}) /\ ComputeStrata(E, {}).ok
           /\ Strata(Rules).rec = RecursiveIn(E, {})
           /\ Stratifiable(E)
           /\ Cycles(Rules) = Paths({e \in E : ~ e.neg})
<1>1. E \in SUBSET Edge
  BY EdgesShape DEF ProgramInv
<1>2. Strata(Rules) = ComputeStrata(E, {}) /\ ComputeStrata(E, {}).ok
  BY DEF Strata, ProgramInv
<1>3. ComputeStrata(E, {}).rec = RecursiveIn(E, {})
  BY ComputedStrata
<1> QED BY <1>1, <1>2, <1>3, AcceptedIsStratifiable DEF Cycles

(***************************************************************************)
(* A loaded rule has the recursion flag exactly when its head lies on a    *)
(* cycle.                                                                  *)
(***************************************************************************)
LEMMA RecIsCycle ==
    ASSUME ProgramInv, NEW r \in Rules
    PROVE  r.rec = IsRecursive(Rules, r)
<1>1. PICK E : E = Edges(Rules)
  OBVIOUS
<1>2. /\ E \in SUBSET Edge /\ Stratifiable(E)
      /\ Strata(Rules).rec = RecursiveIn(E, {})
      /\ Cycles(Rules) = Paths({e \in E : ~ e.neg})
  BY <1>1, ProgramGraph
<1>3. r.head \in Rels /\ r.rec = (r.head \in Strata(Rules).rec)
  BY RuleFlags
<1>4. r.head \in RecursiveIn(E, {}) <=> <<r.head, r.head>> \in Cycles(Rules)
  BY <1>2, <1>3, RecursiveIsCyclic
<1> QED BY <1>2, <1>3, <1>4 DEF IsRecursive

(***************************************************************************)
(* A relation that a rule reads without negation is recursive in the       *)
(* rule's own stratum, as far as any rule's flags tell, exactly when the   *)
(* relation and the head lie on one cycle.                                 *)
(***************************************************************************)
LEMMA SameComponent ==
    ASSUME ProgramInv, NEW r \in Rules, NEW x \in PosReads(r)
    PROVE  (\E q \in Rules : q.rec /\ q.head = x /\ q.stratum = r.stratum) <=>
             (<<x, r.head>> \in Cycles(Rules) /\ <<r.head, x>> \in Cycles(Rules))
<1>1. PICK E : E = Edges(Rules)
  OBVIOUS
<1>2. PICK st : st = Strata(Rules)
  OBVIOUS
<1>3. /\ E \in SUBSET Edge /\ Stratifiable(E)
      /\ st = ComputeStrata(E, {}) /\ st.ok
      /\ st.rec = RecursiveIn(E, {})
      /\ Cycles(Rules) = Paths({e \in E : ~ e.neg})
  BY <1>1, <1>2, ProgramGraph
<1>4. PICK F : F = {e \in E : ~ e.neg}
  OBVIOUS
<1>5. F \in SUBSET Edge /\ Cycles(Rules) = Paths(F)
  BY <1>3, <1>4
<1>6. PICK P : P = Cycles(Rules)
  OBVIOUS
<1>7. Transitive(P) /\ Steps(F) \subseteq P /\ P \subseteq Rels \X Rels
  BY <1>5, <1>6, PathsClosed
<1>8. PICK e \in E : e = [from |-> x, to |-> r.head, neg |-> FALSE]
  BY <1>1, EdgeOfRead
<1>9. e.from = x /\ e.to = r.head /\ ~ e.neg /\ e \in F
  BY <1>4, <1>8
<1>10. <<x, r.head>> \in P /\ x \in Rels /\ r.head \in Rels
  <2>1. <<e.from, e.to>> \in Steps(F)
    BY <1>9 DEF Steps
  <2> QED BY <1>7, <1>9, <2>1
<1>11. ASSUME NEW q \in Rules, q.rec, q.head = x, q.stratum = r.stratum
       PROVE  <<r.head, x>> \in P
  <2>1. x \in st.rec /\ st.strata[x] = st.strata[r.head]
    BY <1>2, <1>11, RuleFlags
  <2>2. r.head \in Component(P, x)
    BY <1>3, <1>6, <1>9, <2>1, StrataAreOrdered
  <2>3. CASE r.head = x
    <3>1. <<q.head, q.head>> \in P
      BY <1>6, <1>11, RecIsCycle DEF IsRecursive
    <3> QED BY <1>11, <2>3, <3>1
  <2> QED BY <2>2, <2>3 DEF Component
<1>12. ASSUME <<r.head, x>> \in P
       PROVE  \E q \in Rules : q.rec /\ q.head = x /\ q.stratum = r.stratum
  <2>1. \E q \in Rules : q.head = x
    <3> DEFINE L == {p \in Rels \X Rels : \E q \in Rules : q.head = p[2]}
    <3>1. Steps(F) \subseteq L
      <4>1. ASSUME NEW d \in F PROVE <<d.from, d.to>> \in L
        <5>1. d \in Edges(Rules) /\ d \in Edge
          BY <1>1, <1>4, <1>5
        <5>2. \E q \in Rules : q.head = d.to
          BY <5>1 DEF Edges
        <5> QED BY <5>1, <5>2 DEF Edge
      <4> QED BY <4>1 DEF Steps
    <3>2. Transitive(L)
      BY DEF Transitive
    <3>3. P \subseteq L
      <4> HIDE DEF L
      <4> QED BY <1>5, <1>6, <3>1, <3>2, PathsWithin
    <3> QED BY <1>12, <3>3
  <2>2. PICK q \in Rules : q.head = x
    BY <2>1
  <2>3. <<x, x>> \in P
    BY <1>7, <1>10, <1>12 DEF Transitive
  <2>4. q.rec
    BY <1>6, <2>2, <2>3, RecIsCycle DEF IsRecursive
  <2>5. r.head \in Component(P, x)
    BY <1>10, <1>12 DEF Component
  <2>6. st.strata[r.head] = st.strata[x]
    <3>1. PICK y : y = r.head
      OBVIOUS
    <3>2. y \in Component(Paths({z \in E : ~ z.neg}), x)
      BY <1>3, <1>6, <2>5, <3>1
    <3>3. x \in Rels /\ E \in SUBSET Edge /\ st = ComputeStrata(E, {}) /\ st.ok
      BY <1>3, <1>10
    <3>4. st.strata[y] = st.strata[x]
      BY <3>2, <3>3, OneStratumPerComponent
    <3> QED BY <3>1, <3>4
  <2>7. q.stratum = r.stratum
    BY <1>2, <2>2, <2>6, RuleFlags
  <2> QED BY <2>2, <2>4, <2>7
<1> QED BY <1>6, <1>10, <1>11, <1>12

(***************************************************************************)
(* The flags that ProgramInv fixes decide eligibility.                     *)
(***************************************************************************)
LEMMA ProgramEligible == ProgramInv => RouteIsEligible
<1> SUFFICES ASSUME ProgramInv PROVE RouteIsEligible
  OBVIOUS
<1>1. \A r \in Rules : r.rec = IsRecursive(Rules, r)
  BY RecIsCycle
<1>2. ASSUME NEW r \in Rules, r.via # 0
      PROVE  (/\ r.perm
              /\ \E q \in Rules : q.rec /\ q.head = r.via /\ q.stratum = r.stratum)
             <=> <<r.via, r.head>> \in Cycles(Rules) /\ <<r.head, r.via>> \in Cycles(Rules)
  <2>1. r.via \in PosReads(r)
    BY <1>2 DEF ProgramInv, IsRule
  <2>2. ASSUME NEW q \in Rules, q.rec, q.head = r.via PROVE r.perm
    BY <2>2, RuleFlags
  <2> QED BY <2>1, <2>2, SameComponent
<1>3. ASSUME NEW r \in Rules, r.rec
      PROVE  (\A R \in PosReads(r) \cap HeadRels :
                 \E q \in Rules : q.rec /\ q.head = R /\ q.stratum = r.stratum)
             <=> \A q \in Rules : q.head \in PosReads(r) => <<r.head, q.head>> \in Cycles(Rules)
  <2>1. ASSUME NEW x \in PosReads(r), <<r.head, x>> \in Cycles(Rules)
        PROVE  <<x, r.head>> \in Cycles(Rules)
    <3>1. PICK E : E = Edges(Rules)
      OBVIOUS
    <3>2. PICK F : F = {e \in E : ~ e.neg}
      OBVIOUS
    <3>3. F \in SUBSET Edge /\ Cycles(Rules) = Paths(F)
      BY <3>1, <3>2, ProgramGraph
    <3>4. PICK e \in E : e = [from |-> x, to |-> r.head, neg |-> FALSE]
      BY <3>1, EdgeOfRead
    <3>5. e \in F /\ e.from = x /\ e.to = r.head
      BY <3>2, <3>4
    <3>6. <<e.from, e.to>> \in Steps(F)
      BY <3>5 DEF Steps
    <3> QED BY <3>3, <3>5, <3>6, PathsClosed
  <2>2. \A x \in PosReads(r) :
           (\E q \in Rules : q.rec /\ q.head = x /\ q.stratum = r.stratum) <=> <<r.head, x>> \in Cycles(Rules)
    BY <2>1, SameComponent
  <2> QED BY <2>2 DEF HeadRels
<1>4. IvmEligible <=> InsertEligible(Rules)
  BY <1>1, <1>2, <1>3 DEF IvmEligible, InsertEligible, Overridable
<1>5. DredEligible <=> DeleteEligible(Rules)
  BY <1>1 DEF DredEligible, DeleteEligible
<1>6. HasRecursive <=> HasRecursion(Rules)
  BY <1>1 DEF HasRecursive, HasRecursion
<1> QED BY <1>4, <1>5, <1>6 DEF RouteIsEligible, Path

(***************************************************************************)
(* A consolidation propagates, increments, retracts or evaluates anew by   *)
(* what the rules are: the strata and flags that vm_ivm_eligible,          *)
(* vm_dred_eligible and vm_has_recursive go by say what the dependency     *)
(* cycles of the program say, however its rules were batched.              *)
(***************************************************************************)
THEOREM RoutesAreEligible == Spec => []RouteIsEligible
<1>1. Spec => []ProgramInv
  BY ProgramInit, ProgramNext, PTL DEF Spec
<1> QED BY <1>1, ProgramEligible, PTL

-----------------------------------------------------------------------------
(***************************************************************************)
(* The negated relations held for this parity are the complement of S.     *)
(***************************************************************************)
Holds(q, dom, s, parity, S) ==
    \A P \in NegatedBy(q) : OfRels(s.rels[parity], {P}) = Full(dom, P) \ S

(***************************************************************************)
(* The seven fields of a state of the alternation, and no others.          *)
(***************************************************************************)
IsState(s) ==
    s = [round |-> s.round, prev |-> s.prev, prev2 |-> s.prev2, prev3 |-> s.prev3,
         rels |-> s.rels, cur |-> s.cur, end |-> s.end]

(***************************************************************************)
(* The invariant of dl_query_wfs_ro's rounds: the complement held for the  *)
(* parity of the last round is that of prev2, the fixpoint that round      *)
(* started from, and the one held for this round's parity, made two rounds *)
(* ago, is that of prev3.                                                  *)
(***************************************************************************)
AltInv(q, dom, s) ==
    /\ IsState(s)
    /\ s.end # "internal"
    /\ s.round \in Nat
    /\ s.rels = [parity \in 0 .. 1 |-> s.rels[parity]]
    /\ s.round >= 1 => Holds(q, dom, s, (s.round + 1) % 2, s.prev2)
    /\ s.round >= 2 => Holds(q, dom, s, s.round % 2, s.prev3)

(***************************************************************************)
(* To take what entered since two rounds ago out of a complement and to    *)
(* put in what left gives the complement of the previous fixpoint.         *)
(***************************************************************************)
LEMMA RefreshedExactly ==
    ASSUME NEW q, NEW dom, NEW s, AltInv(q, dom, s), NEW P \in NegatedBy(q)
    PROVE  Refreshed(dom, s, P) = Full(dom, P) \ s.prev
<1> DEFINE new     == OfRels(s.prev, {P})
           old     == OfRels(s.prev3, {P})
           entered == new \ old
           left    == old \ new
           filled  == Full(dom, P)
           kept    == OfRels(s.rels[s.round % 2], {P})
<1>1. \A f \in filled : RelOf[f] = P
  BY DEF Full
<1>2. filled \ new = filled \ s.prev /\ filled \ old = filled \ s.prev3
  BY <1>1 DEF OfRels
<1>3. Refreshed(dom, s, P) = filled \ new \/
      (s.round >= 2 /\ Refreshed(dom, s, P) = (kept \ entered) \cup (left \cap filled))
  BY DEF Refreshed
<1>4. s.round >= 2 => kept = filled \ s.prev3
  BY DEF AltInv, Holds
<1> HIDE DEF new, old, filled, kept
<1>5. ((filled \ old) \ (new \ old)) \cup ((old \ new) \cap filled) = filled \ new
  OBVIOUS
<1> QED BY <1>2, <1>3, <1>4, <1>5 DEF filled

(***************************************************************************)
(* A round keeps the complements exact, so the count that dl_query_wfs_ro  *)
(* compares them by agrees.                                                *)
(***************************************************************************)
LEMMA RoundVerified ==
    ASSUME NEW q, NEW store, NEW dom, NEW s, AltInv(q, dom, s), s.end = "running"
    PROVE  AltInv(q, dom, Round(q, store, dom, s))
<1>1. PICK c : c = UNION {Refreshed(dom, s, P) : P \in NegatedBy(q)}
  OBVIOUS
<1>2. PICK k : k = s.round
  OBVIOUS
<1>3. Verified(q, dom, s, c)
  BY <1>1, RefreshedExactly DEF Verified
<1>4. \A P \in NegatedBy(q) : OfRels(c, {P}) = Full(dom, P) \ s.prev
  <2>1. c = UNION {Full(dom, P) \ s.prev : P \in NegatedBy(q)}
    BY <1>3 DEF Verified
  <2>2. \A P : \A f \in Full(dom, P) : RelOf[f] = P
    BY DEF Full
  <2>3. ASSUME NEW P \in NegatedBy(q) PROVE OfRels(c, {P}) = Full(dom, P) \ s.prev
    <3>1. ASSUME NEW f \in OfRels(c, {P}) PROVE f \in Full(dom, P) \ s.prev
      <4>1. f \in c /\ RelOf[f] = P
        BY <3>1 DEF OfRels
      <4>2. PICK Q \in NegatedBy(q) : f \in Full(dom, Q) \ s.prev
        BY <2>1, <4>1
      <4>3. Q = P
        BY <2>2, <4>1, <4>2
      <4> QED BY <4>2, <4>3
    <3>2. ASSUME NEW f \in Full(dom, P) \ s.prev PROVE f \in OfRels(c, {P})
      <4>1. f \in c
        BY <2>1, <3>2
      <4>2. RelOf[f] = P
        BY <2>2, <3>2
      <4> QED BY <4>1, <4>2 DEF OfRels
    <3> QED BY <3>1, <3>2
  <2> QED BY <2>3
<1>5. PICK cur : cur = Gamma(q, store, c)
  OBVIOUS
<1>6. PICK n : n = Round(q, store, dom, s)
  OBVIOUS
<1>7. n = Rotated(s, c, cur)
  BY <1>1, <1>3, <1>5, <1>6 DEF Round, Installed
<1>8. /\ k \in Nat /\ k % 2 \in 0 .. 1 /\ (k + 1) % 2 \in 0 .. 1
      /\ (k + 1) % 2 # k % 2 /\ ((k + 1) + 1) % 2 = k % 2
  BY <1>2 DEF AltInv
<1>9. CASE Compared(s, cur) = "running"
  <2>1. PICK rels : rels = [s.rels EXCEPT ![k % 2] = c]
    OBVIOUS
  <2>2. n = [round |-> k + 1, prev |-> cur, prev2 |-> s.prev, prev3 |-> s.prev2,
             rels |-> rels, cur |-> cur, end |-> "running"]
    BY <1>2, <1>7, <1>9, <2>1 DEF Rotated
  <2>3. /\ n.round = k + 1 /\ n.prev2 = s.prev /\ n.prev3 = s.prev2 /\ n.rels = rels
        /\ n.end = "running" /\ IsState(n)
    BY <2>2 DEF IsState
  <2>4. s.rels = [parity \in 0 .. 1 |-> s.rels[parity]]
    BY DEF AltInv
  <2>5. rels = [parity \in 0 .. 1 |-> rels[parity]] /\ rels[k % 2] = c
        /\ rels[(k + 1) % 2] = s.rels[(k + 1) % 2]
    BY <1>8, <2>1, <2>4
  <2>6. Holds(q, dom, n, (n.round + 1) % 2, n.prev2)
    BY <1>4, <1>8, <2>3, <2>5 DEF Holds
  <2>7. n.round >= 2 => Holds(q, dom, n, n.round % 2, n.prev3)
    <3>1. k >= 1 => Holds(q, dom, s, (k + 1) % 2, s.prev2)
      BY <1>2 DEF AltInv
    <3> QED BY <1>8, <2>3, <2>5, <3>1 DEF Holds
  <2>8. n.round \in Nat /\ n.end # "internal" /\ n.rels = [parity \in 0 .. 1 |-> n.rels[parity]]
    BY <1>8, <2>3, <2>5
  <2> QED BY <1>6, <2>3, <2>6, <2>7, <2>8 DEF AltInv
<1>10. CASE Compared(s, cur) # "running"
  <2>1. n = [s EXCEPT !.cur = cur, !.end = Compared(s, cur)]
    BY <1>7, <1>10 DEF Rotated
  <2>2. Compared(s, cur) \in {"fixpoint", "cycle"}
    BY <1>10 DEF Compared
  <2>3. IsState(s)
    BY DEF AltInv
  <2>4. n = [round |-> s.round, prev |-> s.prev, prev2 |-> s.prev2, prev3 |-> s.prev3,
             rels |-> s.rels, cur |-> cur, end |-> Compared(s, cur)]
    BY <2>1, <2>3 DEF IsState
  <2>5. /\ n.round = s.round /\ n.prev2 = s.prev2 /\ n.prev3 = s.prev3 /\ n.rels = s.rels
        /\ n.end = Compared(s, cur) /\ IsState(n)
    BY <2>4 DEF IsState
  <2> QED BY <1>6, <2>2, <2>5 DEF AltInv, Holds
<1> QED BY <1>9, <1>10

(***************************************************************************)
(* The complements that dl_query_wfs_ro keeps up by the difference of two  *)
(* rounds are those it would build anew, in every round of every query     *)
(* over every store, so its verification never ends a query.               *)
(***************************************************************************)
THEOREM ComplementsAreExact ==
    ASSUME NEW q, NEW store, Cardinality(Facts) \in Nat
    PROVE  Alternation(q, store).end # "internal"
<1> DEFINE dom == ActiveDomain(q, store)
           first == [round |-> 0, prev |-> OfRels(store, HeadsOf(q)), prev2 |-> {}, prev3 |-> {},
                     rels |-> [parity \in 0 .. 1 |-> {}], cur |-> {}, end |-> "running"]
           step(s) == IF s.end = "running" THEN Round(q, store, dom, s) ELSE s
           Run(f, m) == f = [k \in 0 .. m |-> IF k = 0 THEN first ELSE step(f[k - 1])]
           G == {m \in Nat : \E f : Run(f, m)}
           it == CHOOSE f : Run(f, RoundBound)
<1>1. RoundBound \in Nat
  BY DEF RoundBound
<1>2. Alternation(q, store) = it[RoundBound]
  BY DEF Alternation, Iterate
<1> HIDE DEF first, step
<1>3. 0 \in G
  <2>1. Run([k \in 0 .. 0 |-> first], 0)
    OBVIOUS
  <2> QED BY <2>1
<1>4. ASSUME NEW m \in 1 .. RoundBound, m - 1 \in G PROVE m \in G
  <2>1. PICK f : Run(f, m - 1)
    BY <1>4
  <2>2. PICK h : h = [k \in 0 .. m |-> IF k = m THEN step(f[m - 1]) ELSE f[k]]
    OBVIOUS
  <2>3. ASSUME NEW k \in 0 .. m PROVE h[k] = IF k = 0 THEN first ELSE step(h[k - 1])
    <3>1. CASE k = m
      <4>1. m - 1 \in 0 .. m /\ m - 1 # m /\ k # 0
        BY <3>1
      <4> QED BY <2>2, <3>1, <4>1
    <3>2. CASE k # m
      <4>1. k \in 0 .. m - 1 /\ (k # 0 => k - 1 \in 0 .. m /\ k - 1 # m)
        BY <3>2
      <4>2. f[k] = IF k = 0 THEN first ELSE step(f[k - 1])
        BY <2>1, <4>1
      <4> QED BY <2>2, <3>2, <4>1, <4>2
    <3> QED BY <3>1, <3>2
  <2>4. h = [k \in 0 .. m |-> h[k]]
    BY <2>2
  <2>5. Run(h, m)
    BY <2>3, <2>4
  <2>6. m \in Nat
    BY <1>1
  <2> QED BY <2>5, <2>6
<1>5. RoundBound \in G
  <2> HIDE DEF G
  <2>1. 0 .. RoundBound \subseteq G
    BY <1>1, <1>3, <1>4, UpTo
  <2> QED BY <1>1, <2>1
<1>6. Run(it, RoundBound)
  BY <1>5
<1> DEFINE H == {m \in 0 .. RoundBound : AltInv(q, dom, it[m])}
<1>7. 0 \in H
  <2>0. 0 \in 0 .. RoundBound
    BY <1>1
  <2>1. it[0] = first
    <3>1. it[0] = IF 0 = 0 THEN first ELSE step(it[0 - 1])
      BY <1>6, <2>0
    <3> QED BY <3>1
  <2>2. AltInv(q, dom, first)
    BY DEF first, AltInv, IsState
  <2> QED BY <2>0, <2>1, <2>2
<1>8. ASSUME NEW m \in 1 .. RoundBound, m - 1 \in H PROVE m \in H
  <2>1. m \in 0 .. RoundBound /\ m # 0
    BY <1>1
  <2>2. it[m] = step(it[m - 1])
    BY <1>6, <2>1
  <2>3. AltInv(q, dom, it[m - 1])
    BY <1>8
  <2>4. AltInv(q, dom, it[m])
    BY <2>2, <2>3, RoundVerified DEF step
  <2> QED BY <2>1, <2>4
<1>9. RoundBound \in H
  <2> HIDE DEF H
  <2>1. 0 .. RoundBound \subseteq H
    BY <1>1, <1>7, <1>8, UpTo
  <2> QED BY <1>1, <2>1
<1> QED BY <1>2, <1>9 DEF AltInv

=============================================================================
