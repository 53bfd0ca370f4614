------------------------------- MODULE TupleSet -------------------------------
(***************************************************************************)
(* The in-memory tuple set of tupleset.zig: rows in an array, and an       *)
(* open-addressing table of their positions that decides what is new.      *)
(* Rows are appended as they come; ts_sort puts them in order and rebuilds *)
(* the table, and only then may ts_prefix search.                          *)
(***************************************************************************)
EXTENDS TableReads

CONSTANT MinSlots       \* the smallest table (16 in the code)

ASSUME TupleSetAssumption == MinSlots \in Nat \ {0}

ts_init == [data |-> <<>>, htab |-> <<>>]

\* Any hash function will do; this one makes rows collide.
ts_hash_cols(cols) == FoldLeft(LAMBDA h, v : h + v, 0, cols)

Home(htab, cols) == ts_hash_cols(cols) % Len(htab)

\* Linear probing, around the end, from place i: to the row or a free place,
\* and to a free place.
RECURSIVE RowPlace(_, _, _)
RowPlace(ts, cols, i) ==
  IF ts.htab[i + 1] = 0 \/ ts.data[ts.htab[i + 1]] = cols THEN i + 1
  ELSE RowPlace(ts, cols, (i + 1) % Len(ts.htab))

RECURSIVE FreePlace(_, _)
FreePlace(htab, i) == IF htab[i + 1] = 0 THEN i + 1 ELSE FreePlace(htab, (i + 1) % Len(htab))

\* The row's position, 0 when it is not there.
ts_hash_find(ts, cols) ==
  IF ts.htab = <<>> THEN 0 ELSE ts.htab[RowPlace(ts, cols, Home(ts.htab, cols))]

ts_hash_insert(htab, cols, slot) == [htab EXCEPT ![FreePlace(htab, Home(htab, cols))] = slot]

\* The smallest power of two that holds need, and every entry hashed again.
RECURSIVE Doubled(_, _)
Doubled(cap, need) == IF cap >= need THEN cap ELSE Doubled(2 * cap, need)

ts_hash_grow(ts, need) ==
  LET empty == [i \in 1 .. Doubled(MinSlots, need) |-> 0]
      move(t, slot) == IF slot = 0 THEN t ELSE ts_hash_insert(t, ts.data[slot], slot)
  IN [ts EXCEPT !.htab = FoldLeft(move, empty, ts.htab)]

\* A table for n rows: grown when more than three quarters would be taken.
Roomy(ts, n) ==
  LET hcap == Len(ts.htab)
  IN IF hcap = 0 \/ n > hcap - (hcap \div 4) THEN ts_hash_grow(ts, (10 * n) \div 7) ELSE ts

ts_contains(ts, cols) == ts.data # <<>> /\ ts_hash_find(ts, cols) # 0

\* [ts, new].
ts_add(ts, cols) ==
  IF ts_hash_find(ts, cols) # 0 THEN [ts |-> ts, new |-> FALSE]
  ELSE LET n    == Len(ts.data) + 1
           room == Roomy([ts EXCEPT !.data = Append(@, cols)], n)
       IN [ts |-> [room EXCEPT !.htab = ts_hash_insert(@, cols, n)], new |-> TRUE]

\* The positions of the table as they were before the rows moved.
FaultyTsSort(ts) ==
  IF Len(ts.data) <= 1 THEN ts ELSE [ts EXCEPT !.data = SortSeq(@, Smaller)]

\* Sort, drop equal neighbours, rebuild the table.
ts_sort(ts) ==
  LET sorted == SortSeq(ts.data, Smaller)
      unique == SelectSeq([i \in DOMAIN sorted |-> <<i, sorted[i]>>],
                          LAMBDA p : p[1] = 1 \/ sorted[p[1] - 1] # p[2])
      data   == [i \in DOMAIN unique |-> unique[i][2]]
      empty  == [data |-> data, htab |-> [i \in DOMAIN ts.htab |-> 0]]
      enter(t, i) == LET room == Roomy(t, i) IN [room EXCEPT !.htab = ts_hash_insert(@, data[i], i)]
  IN IF Len(ts.data) <= 1 THEN ts ELSE FoldLeft(enter, empty, [i \in DOMAIN data |-> i])

\* The binary search for the first row that is not below p in its first
\* columns; positions count from 0.
RECURSIVE LowerBound(_, _, _, _)
LowerBound(data, p, lo, hi) ==
  IF lo >= hi THEN lo
  ELSE LET mid == lo + (hi - lo) \div 2
       IN IF Smaller(SubSeq(data[mid + 1], 1, Len(p)), p)
          THEN LowerBound(data, p, mid + 1, hi) ELSE LowerBound(data, p, lo, mid)

\* From the row found, back to the first match and on to the last.
ts_prefix(ts, p) ==
  LET n     == Len(ts.data)
      lo    == LowerBound(ts.data, p, 0, n)
      match(i) == i \in 0 .. (n - 1) /\ IsPrefix(p, ts.data[i + 1])
      first == Min({i \in 0 .. lo : \A k \in i .. lo : match(k)})
      last  == Min({i \in lo .. n : ~ match(i)})
  IN IF n = 0 \/ ~ match(lo) THEN [count |-> 0, first |-> 0]
     ELSE [count |-> last - first, first |-> first]
===============================================================================
