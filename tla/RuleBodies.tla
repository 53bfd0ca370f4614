------------------------------ MODULE RuleBodies ------------------------------
(***************************************************************************)
(* A rule as the parser hands it on, and what one evaluation of its body   *)
(* promises, in terms of the variables' values only.  The reference        *)
(* Bytecode is compared with, from the declarations of parser.h,           *)
(* compiler.h, vm.h and tupleset.h.                                        *)
(*                                                                         *)
(* A variable is a number.  Column values are the numbers below Modulus.   *)
(***************************************************************************)
EXTENDS TableReads

CONSTANTS
  Modulus,      \* 2^32 in the code
  MAX_FRAMES    \* join frames of the interpreter (8 in the code)

ASSUME RuleBodiesAssumption == Modulus \in Nat \ {0} /\ MAX_FRAMES \in Nat \ {0}

Word == 0 .. (Modulus - 1)

-----------------------------------------------------------------------------
(* The syntax tree *)

IsToken(t) == t.kind \in {"var", "int"} /\ t.val \in Nat

Comparisons == {"<", "<=", ">", ">=", "!="}
Builtins    == Comparisons \cup {"=", "range"}

\* pred is a relation or a builtin; agg is the operator of an aggregate and
\* "" otherwise; arith is the operator of `X = L op R`, whose args are X, L
\* and R, and "" otherwise; over is the relation of a range.
IsAtom(a) ==
  /\ \A j \in DOMAIN a.args : IsToken(a.args[j])
  /\ a.negated \in BOOLEAN
  /\ a.agg \in {"", "count", "sum", "min", "max"}
  /\ a.arith \in {"", "+", "-", "*", "/", "%"}
  /\ a.negated => a.pred \notin Builtins /\ a.agg = ""

IsRuleText(r) == IsAtom(r.head) /\ \A i \in DOMAIN r.body : IsAtom(r.body[i])

VarsOf(args) == {args[j].val : j \in {i \in DOMAIN args : args[i].kind = "var"}}

\* The variables an evaluation gives a value.  One that occurs in negated
\* atoms only asks whether any value is there.
Bindable(r) ==
  UNION {VarsOf(r.body[i].args) : i \in {k \in DOMAIN r.body :
           ~ r.body[k].negated /\ r.body[k].agg = ""}}

-----------------------------------------------------------------------------
(* The body atoms *)

Value(s, tok) == IF tok.kind = "int" THEN tok.val ELSE s[tok.val]

Compare(op, a, b) ==
  CASE op = "<"  -> a < b
    [] op = "<=" -> a <= b
    [] op = ">"  -> a > b
    [] op = ">=" -> a >= b
    [] op = "!=" -> a # b

\* Unsigned and wrapping; no value for a division by zero.
Compute(op, a, b) ==
  CASE op = "+" -> (a + b) % Modulus
    [] op = "-" -> (a - b) % Modulus
    [] op = "*" -> (a * b) % Modulus
    [] op \in {"/", "%"} /\ b = 0 -> Refused
    [] op = "/" -> a \div b
    [] op = "%" -> a % b

\* The distinct values of the first column in [lo, hi).
InRange(R, lo, hi) == {x \in {t[1] : t \in R} : lo <= x /\ x < hi}

\* Does a row agree with the arguments that have a value.
Agrees(t, args, s) ==
  \A j \in DOMAIN args :
    (args[j].kind = "int" \/ args[j].val \in DOMAIN s) => t[j] = Value(s, args[j])

\* R is what the atom's relation holds.
Holds(a, s, R) ==
  IF a.agg # "" THEN TRUE
  ELSE IF a.pred \in Comparisons THEN Compare(a.pred, Value(s, a.args[1]), Value(s, a.args[2]))
  ELSE IF a.pred = "=" /\ a.arith # ""
  THEN Value(s, a.args[1]) = Compute(a.arith, Value(s, a.args[2]), Value(s, a.args[3]))
  ELSE IF a.pred = "=" THEN Value(s, a.args[1]) = Value(s, a.args[2])
  ELSE IF a.pred = "range"
  THEN Value(s, a.args[1]) \in InRange(R, Value(s, a.args[2]), Value(s, a.args[3]))
  ELSE (\E t \in R : Agrees(t, a.args, s)) # a.negated

-----------------------------------------------------------------------------
(* The rule *)

\* The relation a body atom reads: its override, if it has one.
Source(r, i, db, ov) ==
  IF i \in DOMAIN ov THEN ov[i]
  ELSE IF r.body[i].pred = "range" THEN db[r.body[i].over]
  ELSE IF r.body[i].pred \in DOMAIN db THEN db[r.body[i].pred] ELSE {}

Solutions(r, db, ov) ==
  {s \in [Bindable(r) -> Word] : \A i \in DOMAIN r.body : Holds(r.body[i], s, Source(r, i, db, ov))}

\* The aggregate of a group of solutions, of the variable src but for count.
Folded(op, S, src) ==
  CASE op = "count" -> Cardinality(S) % Modulus
    [] op = "sum"   -> MapThenSumSet(LAMBDA s : s[src], S) % Modulus
    [] op = "min"   -> Min({s[src] : s \in S})
    [] op = "max"   -> Max({s[src] : s \in S})

\* The head tuples: one per solution, or with an aggregate one per group,
\* which the head's other variables name.
Heads(r, S) ==
  LET aggs  == {i \in DOMAIN r.body : r.body[i].agg # ""}
      args  == r.head.args
      tuple(s) == [j \in DOMAIN args |-> Value(s, args[j])]
  IN IF aggs = {} THEN {tuple(s) : s \in S}
     ELSE LET a     == r.body[CHOOSE i \in aggs : TRUE]
              res   == a.args[1].val
              same(s) == {u \in S : \A v \in VarsOf(args) \ {res} : u[v] = s[v]}
              src   == IF Len(a.args) > 1 THEN a.args[2].val ELSE res
          IN {[j \in DOMAIN args |-> IF args[j].val = res THEN Folded(a.agg, same(s), src)
                                     ELSE s[args[j].val]] : s \in S}

\* vm_exec_rule without an error.
RuleAnswers(r, db, ov) == Heads(r, Solutions(r, db, ov))

\* The compiler's switches: which of them are on makes no difference to the
\* answers.
Toggles(sizes) ==
  [bushy : BOOLEAN, reorder : BOOLEAN, perm_select : BOOLEAN, card_threshold : sizes]

\* A half of a bushy plan: the values its atoms alone give to the variables of
\* the interface, a sequence.
HalfOf(r, atoms, iface, db, ov) ==
  LET part  == SetToSortSeq(atoms, <)
      half  == [r EXCEPT !.body = [x \in DOMAIN part |-> r.body[part[x]]]]
      moved == [x \in {y \in DOMAIN part : part[y] \in DOMAIN ov} |-> ov[part[x]]]
  IN {[j \in DOMAIN iface |-> s[iface[j]]] : s \in Solutions(half, db, moved)}

\* Two halves joined on their first k columns: the shared columns, the left's
\* own, the right's own.
JoinOf(L, R, k) ==
  {l \o SubSeq(t, k + 1, Len(t)) : <<l, t>> \in {z \in L \X R : SubSeq(z[1], 1, k) = SubSeq(z[2], 1, k)}}

\* DL_E_FRAMES: the error is for bodies with more enumerating atoms than
\* there are frames, and for no others.
Enumerating(r) ==
  Cardinality({i \in DOMAIN r.body : /\ ~ r.body[i].negated /\ r.body[i].agg = ""
                                     /\ r.body[i].pred \notin Comparisons \cup {"="}})

MayOverflow(r) == Enumerating(r) > MAX_FRAMES

-----------------------------------------------------------------------------
(* Tuple sets: no duplicates, and the rows under a prefix are one stretch  *)
(* of the sorted array.                                                    *)

WithoutRepeats(seq) ==
  FoldLeft(LAMBDA s, t : IF Contains(s, t) THEN s ELSE Append(s, t), <<>>, seq)

Stretch(R, leading) ==
  LET seq == Ascending(R)
      at  == {i \in DOMAIN seq : IsPrefix(leading, seq[i])}
  IN [count |-> Cardinality(at), first |-> IF at = {} THEN 0 ELSE Min(at) - 1]
===============================================================================
