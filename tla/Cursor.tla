-------------------------------- MODULE Cursor --------------------------------
(***************************************************************************)
(* The tuples of a relation in the order of their keys: the depth-first    *)
(* walk of rel_prefix, the resumable cursor of iter.zig, the same walk     *)
(* kept as a stack of frames between calls, and the merge join over two    *)
(* cursors.                                                                *)
(*                                                                         *)
(* A cursor is the DAFSA d it walks, the arity, the bound columns          *)
(* `leading`, the stack `frames` of the states entered, each with the      *)
(* number of edges already taken, the symbols buf on the path, and whether *)
(* it is exhausted.                                                        *)
(***************************************************************************)
EXTENDS Keys

\* rel_prefix: walk the bound columns, then depth first; a final state is a tuple.
\* The overlay is empty: ovConsolidateForRead folds it in before the walk, and
\* rows left in it by a failing fold would follow unsorted.
RECURSIVE prefixDfs(_, _, _, _)
prefixDfs(s, buf, arity, leading) ==
  FoldLeft(LAMBDA found, e : found \o prefixDfs(trans_find(s, e), Append(buf, e), arity, leading),
           IF is_final(s) THEN <<leading \o readColsBe(buf, arity - Len(leading))>> ELSE <<>>,
           edges(s))

rel_prefix(d, arity, leading) ==
  IF Len(leading) > arity THEN Refused
  ELSE prefixDfs(rel_prefix_state(d, leading), <<>>, arity, leading)

\* vrel_prefix: one prefix walk per variant, from arity max(k, 1) upwards.
vrel_prefix(variants, leading) ==
  FlattenSeq([a \in 1 .. Len(variants) |->
                IF a < Max({1, Len(leading)}) THEN <<>> ELSE rel_prefix(variants[a], a, leading)])

-----------------------------------------------------------------------------
(* Cursors *)

\* Start over under `leading`; an absent prefix gives a valid empty cursor.
iter_reset_stack(d, arity, leading) ==
  LET root == rel_prefix_state(d, leading)
  IN [d |-> d, arity |-> arity, leading |-> leading, buf |-> <<>>,
      frames |-> IF root = {} /\ leading # <<>> THEN <<>> ELSE <<[state |-> root, next |-> 1]>>,
      exhausted |-> root = {} /\ leading # <<>>]

dl_iter_open(d, arity, leading) ==
  IF Len(leading) > arity THEN Refused ELSE iter_reset_stack(d, arity, leading)

\* A seek that does not wake an exhausted cursor.
FaultyIterSeek(it, leading) ==
  IF Len(leading) > it.arity THEN it
  ELSE [iter_reset_stack(it.d, it.arity, leading) EXCEPT !.exhausted = @ \/ it.exhausted]

dl_iter_seek(it, leading) ==
  IF Len(leading) > it.arity THEN it ELSE iter_reset_stack(it.d, it.arity, leading)

Pop(it) == [it EXCEPT !.frames = Front(@), !.exhausted = Len(it.frames) = 1]

\* One call: emit at a final state and backtrack, else descend the next edge
\* or backtrack.  The result is the cursor after the call and the tuple, or
\* Refused at the end of the enumeration.
RECURSIVE dl_iter_next(_)
dl_iter_next(it) ==
  IF it.exhausted THEN [it |-> it, row |-> Refused]
  ELSE
    LET top == Last(it.frames)
        out == edges(top.state)
        n   == Len(it.frames)
    IN IF is_final(top.state)
       THEN [it |-> Pop(it),
             row |-> it.leading \o readColsBe(it.buf, it.arity - Len(it.leading))]
       ELSE IF top.next > Len(out)
       THEN dl_iter_next(Pop(it))
       ELSE dl_iter_next(
              [it EXCEPT !.frames = Append([@ EXCEPT ![n].next = @ + 1],
                                           [state |-> trans_find(top.state, out[top.next]),
                                            next |-> 1]),
                         !.buf = Append(SubSeq(@, 1, n - 1), out[top.next])])

\* Every tuple a cursor still has to give.
RECURSIVE Drain(_)
Drain(it) ==
  LET r == dl_iter_next(it)
  IN IF r.row = Refused THEN <<>> ELSE <<r.row>> \o Drain(r.it)

\* The cursor after n calls.
RECURSIVE After(_, _)
After(it, n) == IF n = 0 THEN it ELSE After(dl_iter_next(it).it, n - 1)

-----------------------------------------------------------------------------
(* The merge join: compare the join columns, advance the smaller side;     *)
(* on equality buffer the whole right run and pair it with the left run.   *)

KeyOf(row, j) == SubSeq(row, 1, j)

\* The run of tuples with join columns `key`, from the tuple already read on;
\* also the first call result behind it.
RECURSIVE Run(_, _, _)
Run(r, key, j) ==
  IF r.row = Refused \/ KeyOf(r.row, j) # key THEN [rows |-> <<>>, rest |-> r]
  ELSE LET more == Run(dl_iter_next(r.it), key, j)
       IN [rows |-> <<r.row>> \o more.rows, rest |-> more.rest]

RECURSIVE JoinFrom(_, _, _)
JoinFrom(l, r, j) ==
  IF l.row = Refused \/ r.row = Refused THEN <<>>
  ELSE LET lk == KeyOf(l.row, j)
           rk == KeyOf(r.row, j)
       IN IF Smaller(lk, rk) THEN JoinFrom(dl_iter_next(l.it), r, j)
          ELSE IF Smaller(rk, lk) THEN JoinFrom(l, dl_iter_next(r.it), j)
          ELSE LET right == Run(r, rk, j)
                   left  == Run(l, lk, j)
               IN FlattenSeq([x \in DOMAIN left.rows |->
                                [y \in DOMAIN right.rows |-> <<left.rows[x], right.rows[y]>>]])
                  \o JoinFrom(left.rest, right.rest, j)

dl_merge_join(l, r, j) ==
  IF j = 0 \/ j > l.arity \/ j > r.arity THEN Refused
  ELSE JoinFrom(dl_iter_next(l), dl_iter_next(r), j)
===============================================================================
