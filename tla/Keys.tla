--------------------------------- MODULE Keys ---------------------------------
(***************************************************************************)
(* A relation as the set of its encoded keys in a DAFSA, and the order     *)
(* statistics relation.zig and dl.zig compute by walking it.               *)
(*                                                                         *)
(* A key is every column as Width digits, the most significant first, and  *)
(* a closing 0 (four bytes per column in the code).  A state of the DAFSA  *)
(* is the set of words it accepts, which is what minimisation identifies.  *)
(***************************************************************************)
EXTENDS Integers, Sequences, SequencesExt, FiniteSetsExt, TableReads

CONSTANTS Radix, Width      \* 256 and 4 in the code

ASSUME KeysAssumption == Radix \in Nat \ {0, 1} /\ Width \in Nat \ {0}

-----------------------------------------------------------------------------
(* The keys *)

\* The powers of the radix.
Weight[k \in 0 .. Width] == IF k = 0 THEN 1 ELSE Radix * Weight[k - 1]

\* The values Width digits can write: all of u32 in the code.
ColumnValues == 0 .. (Weight[Width] - 1)

\* Faulty variants (Faulty...) stand before the definition they vary; each makes
\* a property of Tables fail, none is used anywhere.
\* The least significant digit first, as the host may store it.
FaultyEncodeCol(v) == [d \in 1 .. Width |-> (v \div Weight[d - 1]) % Radix]

encodeCol(v) == [d \in 1 .. Width |-> (v \div Weight[Width - d]) % Radix]
encodeCols(cols) == FlattenSeq([i \in DOMAIN cols |-> encodeCol(cols[i])])
encodeKey(cols) == encodeCols(cols) \o <<0>>

\* The value of column i, digit by digit, and of the first n.
readColBe(key, i) ==
  LET v[d \in 0 .. Width] == IF d = 0 THEN 0 ELSE v[d - 1] * Radix + key[(i - 1) * Width + d]
  IN v[Width]
readColsBe(key, n) == [i \in 1 .. n |-> readColBe(key, i)]

-----------------------------------------------------------------------------
(* The DAFSA: a state is the set of the words accepted from it *)

dafsa_build_sorted(rows) == {encodeKey(t) : t \in rows}
trans_find(s, sym) == {Tail(w) : w \in {x \in s : x # <<>> /\ x[1] = sym}}
is_final(s) == <<>> \in s
edges(s) == SetToSortSeq({w[1] : w \in s \ {<<>>}}, <)

KeyBefore(u, v) ==
  \E i \in DOMAIN v : /\ \A j \in 1 .. (i - 1) : j \in DOMAIN u /\ u[j] = v[j]
                      /\ i \notin DOMAIN u \/ (i \in DOMAIN u /\ u[i] < v[i])
dafsa_rank_from(s, key) == Cardinality({w \in s : KeyBefore(w, key)})
dafsa_select_from(s, k) ==
  IF k < Cardinality(s) THEN CHOOSE w \in s : dafsa_rank_from(s, w) = k ELSE Refused
dafsa_range_count_from(s, lo, hi) == dafsa_rank_from(s, hi) - dafsa_rank_from(s, lo)

-----------------------------------------------------------------------------
(* Order statistics of one relation *)

\* The state under the first columns `leading`, {} when no key starts so.
rel_prefix_state(d, leading) ==
  LET word == encodeCols(leading)
      s[j \in 0 .. Len(word)] == IF j = 0 THEN d ELSE trans_find(s[j - 1], word[j])
  IN s[Len(word)]

rel_rank(d, cols) == dafsa_rank_from(d, encodeKey(cols))
rel_select(d, arity, k) ==
  LET key == dafsa_select_from(d, k)
  IN IF key = Refused THEN Refused ELSE readColsBe(key, arity)
rel_range_count(d, lo, hi) == dafsa_range_count_from(d, encodeKey(lo), encodeKey(hi))

\* The k bound columns are dropped from the arguments before they are encoded.
Suffix(cols, k) == SubSeq(cols, k + 1, Len(cols))

rel_rank_bound(d, leading, cols) ==
  LET s == rel_prefix_state(d, leading)
  IN IF s = {} THEN 0 ELSE dafsa_rank_from(s, encodeKey(Suffix(cols, Len(leading))))

rel_select_bound(d, arity, leading, k) ==
  LET s   == rel_prefix_state(d, leading)
      key == IF s = {} THEN Refused ELSE dafsa_select_from(s, k)
  IN IF key = Refused THEN Refused ELSE leading \o readColsBe(key, arity - Len(leading))

rel_range_count_bound(d, leading, lo, hi) ==
  LET s == rel_prefix_state(d, leading)
  IN IF s = {} THEN 0
     ELSE dafsa_range_count_from(s, encodeKey(Suffix(lo, Len(leading))),
                                 encodeKey(Suffix(hi, Len(leading))))

rel_has_col0(d, x) == rel_prefix_state(d, <<x>>) # {}

\* A scan by rank: from the rank of (lo, 0, ...) up to that of (hi, 0, ...).
rel_range_each(d, arity, lo, hi) ==
  LET first(v) == [i \in 1 .. arity |-> IF i = 1 THEN v ELSE 0]
      r0 == rel_rank(d, first(lo))
      r1 == rel_rank(d, first(hi))
  IN IF hi <= lo \/ r1 <= r0 THEN <<>>
     ELSE [k \in 1 .. (r1 - r0) |-> rel_select(d, arity, r0 + k - 1)]

-----------------------------------------------------------------------------
(* Permuted order statistics: permindex_build re-encodes the base rows *)

permindex_build(rows, perm) == {Permuted(t, perm) : t \in rows}

\* cols_out[perm[j]] = pcols[j]
unpermute(pcols, perm) == [c \in DOMAIN pcols |-> pcols[CHOOSE j \in DOMAIN perm : perm[j] = c]]

dl_rank_perm(pidx, perm, cols) == rel_rank(pidx, Permuted(cols, perm))
dl_select_perm(pidx, perm, k) ==
  LET pcols == rel_select(pidx, Len(perm), k)
  IN IF pcols = Refused THEN Refused ELSE unpermute(pcols, perm)
dl_range_count_perm(pidx, perm, lo, hi) ==
  rel_range_count(pidx, Permuted(lo, perm), Permuted(hi, perm))
===============================================================================
