------------------------------- MODULE Bytecode -------------------------------
(***************************************************************************)
(* compile_one and the interpreter.  The body's relational atoms become    *)
(* enumerating instructions in an order chosen by cardinality, or two      *)
(* halves that are materialised and joined; filters and arithmetic follow, *)
(* then the projection.  The interpreter keeps a frame per enumerating     *)
(* instruction and backtracks into the last one that has a further row.    *)
(*                                                                         *)
(* String and list builtins, patterns and variadic relations are left out. *)
(* Rules are safe: the compiler's checks have accepted them.               *)
(***************************************************************************)
EXTENDS RuleBodies, TupleSet, TLC

CONSTANT
  FirstConst    \* slots from here on are the compiler's own; variables are below

BUSHY_MAX_CUT == 2

-----------------------------------------------------------------------------
(* The compiler *)

IsRelational(a) == ~ a.negated /\ a.agg = "" /\ a.pred \notin Builtins

Mask(r, i) == VarsOf(r.body[i].args)

\* A constant gets a slot of its own, here by its place in the rule (the head
\* is atom 0), which the instruction after the atom compares.
SlotOf(tok, i, j) == IF tok.kind = "var" THEN tok.val ELSE FirstConst + 4 * i + j
Slots(args, i) == [j \in DOMAIN args |-> SlotOf(args[j], i, j)]

emit_const(args, i) ==
  FlattenSeq([j \in DOMAIN args |->
    IF args[j].kind = "var" THEN <<>>
    ELSE <<[op |-> "EQ_CONST", a |-> SlotOf(args[j], i, j), imm |-> args[j].val]>>])

\* Greedy: the smallest relation next, then the most variables in common with
\* those placed, then the first.
RECURSIVE Reordered(_, _, _, _)
Reordered(r, o, placed, rest) ==
  IF rest = <<>> THEN placed
  ELSE LET size(k)   == o.card[r.body[rest[k]].pred]
           common(k) == Cardinality(Mask(r, rest[k]) \cap UNION {Mask(r, i) : i \in Range(placed)})
           before(k, l) == \/ size(k) < size(l)
                           \/ size(k) = size(l) /\ common(k) > common(l)
                           \/ size(k) = size(l) /\ common(k) = common(l) /\ k <= l
           best == CHOOSE k \in DOMAIN rest : \A l \in DOMAIN rest : before(k, l)
       IN Reordered(r, o, Append(placed, rest[best]), RemoveAt(rest, best))

reorder_pos_atoms(r, o, order) == Reordered(r, o, <<>>, order)

\* The columns bound already first, then the others.
JoinPerm(n, shared) == SelectSeq([j \in 1 .. n |-> j], LAMBDA j : j \in shared)
                         \o SelectSeq([j \in 1 .. n |-> j], LAMBDA j : j \notin shared)

\* An atom whose first column is not bound but another is: through a
\* permutation index if the relation is recursive, has that index already or
\* is large, else a hash join.
emit_nonleading_join(r, o, i, shared) ==
  LET a    == r.body[i]
      perm == JoinPerm(Len(a.args), shared)
      indexed == \/ a.pred \in o.recursive
                 \/ /\ o.perm_select
                    /\ <<a.pred, perm>> \in o.perms \/ o.card[a.pred] >= o.card_threshold
  IN [op |-> IF indexed THEN "LOOKUP_PERM" ELSE "HASH_JOIN", rel |-> a.pred,
      k |-> Cardinality(shared), slots |-> Slots(a.args, i), bi |-> i, perm |-> perm]

emit_pos_atom(r, o, i, bound, first) ==
  LET a      == r.body[i]
      n      == Len(a.args)
      shared == IF first THEN {}
                ELSE {j \in 1 .. n : a.args[j].kind = "var" /\ a.args[j].val \in bound}
      k      == Max({l \in 0 .. n : 1 .. l \subseteq shared})
      plain(op) == [op |-> op, rel |-> a.pred, k |-> k, slots |-> Slots(a.args, i), bi |-> i,
                    perm |-> [j \in 1 .. n |-> j]]
  IN <<CASE k > 0                  -> plain("LOOKUP")
         [] k = 0 /\ shared # {}   -> emit_nonleading_join(r, o, i, shared)
         [] k = 0 /\ shared = {}   -> plain("SCAN")>> \o emit_const(a.args, i)

emit_iface_project(slots) == <<[op |-> "PROJECT", slots |-> slots]>>

\* No projection at the end of the outermost sequence: that is the head's.
Iface(slots) == IF slots = <<>> THEN <<>> ELSE emit_iface_project(slots)

emit_leftdeep_seq(r, o, atoms, iface) ==
  FlattenSeq([x \in DOMAIN atoms |->
    emit_pos_atom(r, o, atoms[x],
                  UNION {Mask(r, atoms[y]) : y \in 1 .. (x - 1)}, x = 1)]) \o Iface(iface)

atoms_connected(r, S) ==
  LET grow(V) == V \cup {i \in S : \E j \in V : Mask(r, i) \cap Mask(r, j) # {}}
      reach   == FoldLeft(LAMBDA V, i : grow(V), {Min(S)}, SetToSeq(S))
  IN S \subseteq reach

MaskOf(r, S) == UNION {Mask(r, i) : i \in S}

\* The split into two connected parts of two atoms or more that share the
\* fewest variables; of several the one whose left part is the smallest as a
\* bit mask over the positions.  {} if there is none.
min_cut_split(r, atoms) ==
  LET n     == Len(atoms)
      of(P) == {atoms[x] : x \in P}
      splits == {P \in SUBSET (1 .. n) :
                   /\ Cardinality(P) >= 2 /\ n - Cardinality(P) >= 2
                   /\ atoms_connected(r, of(P)) /\ atoms_connected(r, of((1 .. n) \ P))}
      width(P) == Cardinality(MaskOf(r, of(P)) \cap MaskOf(r, of((1 .. n) \ P)))
      bits(P)  == MapThenSumSet(LAMBDA x : 2 ^ (x - 1), P)
  IN IF splits = {} THEN {}
     ELSE LET best == CHOOSE P \in splits : \A Q \in splits :
                        width(P) < width(Q) \/ (width(P) = width(Q) /\ bits(P) <= bits(Q))
          IN IF width(best) <= BUSHY_MAX_CUT THEN best ELSE {}

mask_to_slots(S) == SetToSortSeq(S, <)

\* Two halves, each materialised over [shared, private] variables, and their
\* join.  size counts the instructions of a half, so that it can be skipped;
\* a buffer is named by the atoms whose rows it holds.
MatBegin(atoms, code) ==
  <<[op |-> "MAT_BEGIN", buf |-> Range(atoms), size |-> Len(code)]>> \o code

MatJoin(la, ra, shared, lonly, ronly) ==
  [op |-> "MAT_JOIN", l |-> Range(la), r |-> Range(ra), k |-> Len(shared),
   slots |-> shared \o lonly \o ronly, bi |-> 0]

RECURSIVE emit_join(_, _, _, _)
emit_join(r, o, atoms, iface) ==
  LET halves(la, ra, shared, lonly, ronly) ==
        MatBegin(la, emit_join(r, o, la, shared \o lonly))
          \o MatBegin(ra, emit_join(r, o, ra, shared \o ronly))
          \o <<MatJoin(la, ra, shared, lonly, ronly)>> \o Iface(iface)
      over(la, ra, mL, mR) ==
        halves(la, ra, mask_to_slots(mL \cap mR), mask_to_slots(mL \ mR), mask_to_slots(mR \ mL))
      apart(la, ra) == over(la, ra, MaskOf(r, Range(la)), MaskOf(r, Range(ra)))
      among(P) == LET at == SelectSeq([x \in DOMAIN atoms |-> x], LAMBDA x : x \in P)
                  IN [y \in DOMAIN at |-> atoms[at[y]]]
      split(L) == IF L = {} THEN emit_leftdeep_seq(r, o, atoms, iface)
                  ELSE apart(among(L), among(DOMAIN atoms \ L))
  IN split(IF o.bushy /\ Len(atoms) >= 4 THEN min_cut_split(r, atoms) ELSE {})

emit_neg(r, i) ==
  emit_const(r.body[i].args, i)
    \o <<[op |-> "NEG_CHECK", rel |-> r.body[i].pred, slots |-> Slots(r.body[i].args, i)]>>

\* With negation the atoms stay in body order, the negated ones in place.
emit_in_order(r, o) ==
  LET pos == {i \in DOMAIN r.body : IsRelational(r.body[i])}
      one(i) == IF r.body[i].negated THEN emit_neg(r, i)
                ELSE IF i \in pos
                THEN emit_pos_atom(r, o, i, UNION {Mask(r, j) : j \in {l \in pos : l < i}}, i = Min(pos))
                ELSE <<>>
  IN FlattenSeq([i \in DOMAIN r.body |-> one(i)])

emit_relational(r, o) ==
  IF \E i \in DOMAIN r.body : r.body[i].negated THEN emit_in_order(r, o)
  ELSE LET pos   == SelectSeq([i \in DOMAIN r.body |-> i], LAMBDA i : IsRelational(r.body[i]))
           order == IF o.reorder THEN reorder_pos_atoms(r, o, pos) ELSE pos
       IN IF \E i \in DOMAIN r.body : r.body[i].agg # ""
          THEN emit_leftdeep_seq(r, o, order, <<>>)      \* no bushy plan
          ELSE emit_join(r, o, order, <<>>)

\* Equalities first, then what produces values, then the comparisons, each in
\* body order; a temporary of `X = L op R` is the slot after those of its
\* constants.
emit_builtin(r, i) ==
  LET a  == r.body[i]
      ss == Slots(a.args, i)
  IN emit_const(a.args, i) \o
     CASE a.pred = "=" /\ a.arith = "" -> <<[op |-> "EQ", a |-> ss[1], b |-> ss[2]]>>
       [] a.pred = "=" /\ a.arith # "" ->
            <<[op |-> "ARITH", a |-> ss[2], b |-> ss[3], c |-> FirstConst + 4 * i, imm |-> a.arith],
              [op |-> "EQ", a |-> ss[1], b |-> FirstConst + 4 * i]>>
       [] a.pred = "range" ->
            <<[op |-> "RANGE", a |-> ss[2], b |-> ss[3], c |-> ss[1], rel |-> a.over, slots |-> <<ss[1]>>,
               bi |-> i]>>
       [] a.pred \in Comparisons -> <<[op |-> "CMP", a |-> ss[1], b |-> ss[2], imm |-> a.pred]>>

emit_builtins(r) ==
  LET isEq(a)       == a.pred = "=" /\ a.arith = ""
      isProducer(a) == a.arith # "" \/ a.pred = "range"
      all(Is(_)) == FlattenSeq([i \in DOMAIN r.body |-> IF Is(r.body[i]) THEN emit_builtin(r, i) ELSE <<>>])
  IN all(isEq) \o all(isProducer) \o all(LAMBDA a : a.pred \in Comparisons)

\* AGG_ACC ends a binding as PROJECT does; the groups are emitted at the end.
emit_head(r) ==
  LET args == r.head.args
      aggs == {i \in DOMAIN r.body : r.body[i].agg # ""}
      a    == r.body[CHOOSE i \in aggs : TRUE]
      res  == a.args[1].val
      group == SelectSeq([j \in DOMAIN args |-> args[j].val], LAMBDA v : v # res)
  IN IF aggs = {} THEN emit_const(args, 0) \o <<[op |-> "PROJECT", slots |-> Slots(args, 0)]>>
     ELSE <<[op |-> "AGG_ACC", group |-> group, imm |-> a.agg, res |-> res,
             src |-> IF Len(a.args) > 1 THEN a.args[2].val ELSE res, slots |-> Slots(args, 0)]>>

\* o: the cardinalities at the time of the load.
compile_one(r, o) ==
  emit_relational(r, o) \o emit_builtins(r) \o emit_head(r) \o <<[op |-> "HALT"]>>

-----------------------------------------------------------------------------
(* The interpreter *)

\* bTry: an unbound slot takes the value, a bound one must have it.
bTry(acc, s, v) ==
  IF ~ acc.ok THEN acc
  ELSE IF s \in DOMAIN acc.b THEN [acc EXCEPT !.ok = acc.b[s] = v]
  ELSE [acc EXCEPT !.b = @ @@ (s :> v)]

\* Bind a row's columns after the first sc; its column pp is column perm[pp]
\* of the atom.
bindRowPerm(f, row, b) ==
  FoldLeft(LAMBDA acc, pp : bTry(acc, f.slots[f.perm[pp]], row[pp]),
           [ok |-> TRUE, b |-> b], [x \in 1 .. (Len(row) - f.sc) |-> x + f.sc])

\* A row is bound over what the last one left.
FaultySeekValid(m, f) ==
  LET hits == {x \in f.idx .. Len(f.rows) : bindRowPerm(f, f.rows[x], m.b).ok}
  IN IF hits = {} THEN <<>>
     ELSE <<[m EXCEPT !.frames = Append(@, [f EXCEPT !.idx = Min(hits)]),
                      !.b = bindRowPerm(f, f.rows[Min(hits)], m.b).b,
                      !.ip = f.ip + 1]>>

\* seekValidPerm: from row f.idx on, the first that can be bound over what was
\* bound when the frame was made; the machine after it, none if there is none.
seekValid(m, f) ==
  LET hits == {x \in f.idx .. Len(f.rows) : bindRowPerm(f, f.rows[x], f.saved).ok}
  IN IF hits = {} THEN <<>>
     ELSE <<[m EXCEPT !.frames = Append(@, [f EXCEPT !.idx = Min(hits)]),
                      !.b = bindRowPerm(f, f.rows[Min(hits)], f.saved).b,
                      !.ip = f.ip + 1]>>

\* The last frame with a further row goes on behind its instruction; with no
\* frame left the range is at its end.  Re-seeking a join or a scan binds
\* every column, a lookup those after its key.
RECURSIVE backtrack(_, _)
backtrack(m, end) ==
  IF m.frames = <<>> THEN [m EXCEPT !.ip = end]
  ELSE LET popped == [m EXCEPT !.frames = Front(@)]
           again  == seekValid(popped, [Last(m.frames) EXCEPT !.idx = @ + 1])
       IN IF again = <<>> THEN backtrack(popped, end) ELSE again[1]

\* An enumerating instruction with its rows.
Enumerate(m, end, in, rows, sc, perm) ==
  LET f    == [ip |-> m.ip, rows |-> rows, idx |-> 1, saved |-> m.b, slots |-> in.slots,
               sc |-> sc, perm |-> perm]
      next == seekValid(m, f)
  IN IF Len(m.frames) >= MAX_FRAMES THEN [m EXCEPT !.rc = "frames", !.ip = end]
     ELSE IF next = <<>> THEN backtrack(m, end) ELSE next[1]

Key(m, in) == [x \in 1 .. in.k |-> m.b[in.slots[in.perm[x]]]]

\* findOv: an override with no rows counts as none.
HasOv(env, in) == in.bi \in DOMAIN env.ov /\ env.ov[in.bi].data # <<>>

\* The rows of an override under a key: ts_prefix on its sorted array.
OvRows(ts, key) ==
  LET at == ts_prefix(ts, key) IN SubSeq(ts.data, at.first + 1, at.first + at.count)

Identity(n) == [j \in 1 .. n |-> j]

RowsFor(m, env, in) ==
  LET stored == env.db[in.rel]
      match(t) == \A x \in 1 .. in.k : t[in.perm[x]] = m.b[in.slots[in.perm[x]]]
      all    == IF HasOv(env, in) THEN Range(env.ov[in.bi].data) ELSE stored
  IN CASE in.op = "SCAN" -> IF HasOv(env, in) THEN env.ov[in.bi].data ELSE Prefix(stored, <<>>)
       [] in.op = "LOOKUP" -> IF HasOv(env, in) THEN OvRows(env.ov[in.bi], Key(m, in))
                              ELSE Prefix(stored, Key(m, in))
       [] in.op = "LOOKUP_PERM" ->
            IF HasOv(env, in) THEN OvRows(env.ov[in.bi], Key(m, in))
            ELSE Prefix({Permuted(t, in.perm) : t \in stored}, Key(m, in))
       [] in.op = "HASH_JOIN" -> Ascending({Permuted(t, in.perm) : t \in {u \in all : match(u)}})

\* matJoinBuild: left rows in order, with each the right rows that agree on
\* the shared columns, the last added first (hash chains).
matJoinBuild(l, r, k) ==
  FlattenSeq([x \in DOMAIN l.data |->
    [y \in DOMAIN SelectSeq(r.data, LAMBDA t : SubSeq(t, 1, k) = SubSeq(l.data[x], 1, k)) |->
       l.data[x] \o LET S == Reverse(SelectSeq(r.data, LAMBDA t : SubSeq(t, 1, k) = SubSeq(l.data[x], 1, k)))
                    IN SubSeq(S[y], k + 1, Len(S[y]))]])

\* OP_NEG_CHECK: descend the leading bound columns, then look for a row that
\* has the other bound ones too.
NegHit(m, R, slots) ==
  LET bound == {j \in DOMAIN slots : slots[j] \in DOMAIN m.b}
      lead  == Max({l \in 0 .. Len(slots) : 1 .. l \subseteq bound})
      walk  == Prefix(R, [j \in 1 .. lead |-> m.b[slots[j]]])
  IN \E t \in Range(walk) : \A j \in bound : t[j] = m.b[slots[j]]

\* OP_EQ: compare, or copy to the side that is not bound.
Equate(m, end, a, b) ==
  LET B == DOMAIN m.b
      ahead == [m EXCEPT !.ip = @ + 1]
  IN CASE a \in B /\ b \in B    -> IF m.b[a] = m.b[b] THEN ahead ELSE backtrack(m, end)
       [] a \in B /\ b \notin B -> [ahead EXCEPT !.b = @ @@ (b :> m.b[a])]
       [] a \notin B /\ b \in B -> [ahead EXCEPT !.b = @ @@ (a :> m.b[b])]
       [] OTHER -> ahead

\* OP_ARITH: in 32 bits; a division by zero backtracks.
Calculate(m, end, in) ==
  LET v == Compute(in.imm, m.b[in.a], m.b[in.b])
  IN IF v = Refused THEN backtrack(m, end)
     ELSE LET t == bTry([ok |-> TRUE, b |-> m.b], in.c, v)
          IN IF t.ok THEN [m EXCEPT !.b = t.b, !.ip = @ + 1] ELSE backtrack(m, end)

\* OP_RANGE: a test when X is bound, else a frame over the distinct values.
RangeStep(m, end, env, in) ==
  LET xs == InRange(env.db[in.rel], m.b[in.a], m.b[in.b])
  IN IF in.c \in DOMAIN m.b
     THEN IF m.b[in.c] \in xs THEN [m EXCEPT !.ip = @ + 1] ELSE backtrack(m, end)
     ELSE Enumerate(m, end, in, Ascending({<<x>> : x \in xs}), 0, <<1>>)

\* OP_AGG_ACC: into the bucket of the group's key.
Accumulate(m, in) ==
  LET key  == [x \in DOMAIN in.group |-> m.b[in.group[x]]]
      v    == IF in.imm = "count" THEN 1 ELSE m.b[in.src]
      old  == m.groups[key]
      new  == CASE in.imm \in {"count", "sum"} -> (old + v) % Modulus
                [] in.imm = "min" -> Min({old, v})
                [] in.imm = "max" -> Max({old, v})
  IN IF key \in DOMAIN m.groups THEN [m EXCEPT !.groups[key] = new]
     ELSE [m EXCEPT !.groups = @ @@ (key :> v % Modulus)]

\* The end of a binding: capture the row in the half's buffer, or give it out.
Project(m, env, in) ==
  LET row == [j \in DOMAIN in.slots |-> m.b[in.slots[j]]]
  IN IF env.capture THEN [m EXCEPT !.mat = ts_add(@, row).ts] ELSE [m EXCEPT !.out = @ \cup {row}]

RECURSIVE execRange(_, _, _, _)
execRange(p, m, end, env) ==
  LET in    == p[m.ip + 1]
      ahead == [m EXCEPT !.ip = @ + 1]
      test(holds) == IF holds THEN ahead ELSE backtrack(m, end)
      half  == execRange(p, [m EXCEPT !.ip = @ + 1, !.b = <<>>, !.frames = <<>>, !.mat = ts_init],
                         m.ip + 1 + in.size, [env EXCEPT !.capture = TRUE])
      step  ==
        CASE in.op = "SCAN" -> Enumerate(m, end, in, RowsFor(m, env, in), 0, in.perm)
          [] in.op \in {"LOOKUP", "LOOKUP_PERM", "HASH_JOIN"} ->
               Enumerate(m, end, in, RowsFor(m, env, in), in.k, in.perm)
          [] in.op = "MAT_BEGIN" ->
               IF half.rc # "ok" THEN [m EXCEPT !.rc = half.rc]
               ELSE [m EXCEPT !.ip = @ + 1 + in.size, !.pool = half.pool @@ (in.buf :> half.mat)]
          [] in.op = "MAT_JOIN" ->
               Enumerate(m, end, in, matJoinBuild(m.pool[in.l], m.pool[in.r], in.k), 0,
                         Identity(Len(in.slots)))
          [] in.op = "NEG_CHECK" -> test(~ NegHit(m, env.db[in.rel], in.slots))
          [] in.op = "EQ" -> Equate(m, end, in.a, in.b)
          [] in.op = "EQ_CONST" -> LET t == bTry([ok |-> TRUE, b |-> m.b], in.a, in.imm)
                                   IN IF t.ok THEN [ahead EXCEPT !.b = t.b] ELSE backtrack(m, end)
          [] in.op = "CMP" -> test(Compare(in.imm, m.b[in.a], m.b[in.b]))
          [] in.op = "ARITH" -> Calculate(m, end, in)
          [] in.op = "RANGE" -> RangeStep(m, end, env, in)
          [] in.op = "PROJECT" -> backtrack(Project(m, env, in), end)
          [] in.op = "AGG_ACC" -> backtrack(Accumulate(m, in), end)
          [] in.op = "HALT" -> [m EXCEPT !.ip = end]
  IN IF m.rc # "ok" \/ m.ip >= end THEN m ELSE execRange(p, step, end, env)

\* After the last binding, one tuple per group.
Emitted(p, m) ==
  LET accs == SelectSeq(p, LAMBDA in : in.op = "AGG_ACC")
      in   == accs[1]
      col(key, s) == IF s = in.res THEN m.groups[key]
                     ELSE key[CHOOSE x \in DOMAIN in.group : in.group[x] = s]
  IN IF accs = <<>> THEN m.out
     ELSE {[j \in DOMAIN in.slots |-> col(key, in.slots[j])] : key \in DOMAIN m.groups}

\* execRule: [rc, out], and the buffers of the bushy plan.
execRule(p, db, ov) ==
  LET start == [ip |-> 0, b |-> <<>>, frames |-> <<>>, out |-> {}, groups |-> <<>>,
                pool |-> <<>>, mat |-> ts_init, rc |-> "ok"]
      result(m) == [rc |-> m.rc, out |-> Emitted(p, m), pool |-> m.pool]
  IN result(execRange(p, start, Len(p), [db |-> db, ov |-> ov, capture |-> FALSE]))
===============================================================================
