--------------------------------- MODULE Lists --------------------------------
(***************************************************************************)
(* The list store of termstore.zig: cons cells interned by content.  The   *)
(* store is the sequence of its cells; cell i has the handle               *)
(* TERM_BASE + i - 1, and the first cell is the empty list.  A handle is a *)
(* number like any other column value; the index test tells them apart.    *)
(***************************************************************************)
EXTENDS Integers, Sequences, SequencesExt, FiniteSetsExt

CONSTANT TERM_BASE      \* 2^31 in the code

ASSUME ListsAssumption == TERM_BASE \in Nat \ {0}

TERM_NIL == TERM_BASE

term_create == <<[head |-> 0, tail |-> 0]>>

term_is_list(store, v) == v >= TERM_BASE /\ v - TERM_BASE < Len(store)

\* 0 for the empty list and for a value that is no list.
term_car(store, h) ==
  IF ~ term_is_list(store, h) \/ h = TERM_NIL THEN 0 ELSE store[h - TERM_BASE + 1].head
term_cdr(store, h) ==
  IF ~ term_is_list(store, h) \/ h = TERM_NIL THEN 0 ELSE store[h - TERM_BASE + 1].tail

\* A probe that takes the first cell with the same head for the same cell.
FaultyTermCons(store, head, tail) ==
  LET at == {i \in 2 .. Len(store) : store[i].head = head}
  IN IF ~ term_is_list(store, tail) THEN [store |-> store, h |-> 0]
     ELSE IF at # {} THEN [store |-> store, h |-> TERM_BASE + Min(at) - 1]
     ELSE [store |-> Append(store, [head |-> head, tail |-> tail]), h |-> TERM_BASE + Len(store)]

\* The cell of this content, a new one if there is none; 0 for a tail that is
\* no list.  The hash table holds the cells after the first.
term_cons(store, head, tail) ==
  LET cell == [head |-> head, tail |-> tail]
      at   == {i \in 2 .. Len(store) : store[i] = cell}
  IN IF ~ term_is_list(store, tail) THEN [store |-> store, h |-> 0]
     ELSE IF at # {} THEN [store |-> store, h |-> TERM_BASE + Min(at) - 1]
     ELSE [store |-> Append(store, cell), h |-> TERM_BASE + Len(store)]

\* The elements of a list, first to last.
RECURSIVE Elements(_, _)
Elements(store, h) ==
  IF h = TERM_NIL THEN <<>>
  ELSE <<term_car(store, h)>> \o Elements(store, term_cdr(store, h))

\* Collect the elements of a, then cons them back onto b, last first.
term_append(store, a, b) ==
  IF ~ term_is_list(store, a) \/ ~ term_is_list(store, b) THEN [store |-> store, h |-> 0]
  ELSE FoldRight(LAMBDA e, acc : term_cons(acc.store, e, acc.h),
                 Elements(store, a), [store |-> store, h |-> b])

term_length(store, h) == IF ~ term_is_list(store, h) THEN 0 ELSE Len(Elements(store, h))

\* Intern a whole list, as the parser does for a list constant: last first.
Interned(store, elems) ==
  FoldRight(LAMBDA e, acc : term_cons(acc.store, e, acc.h), elems,
            [store |-> store, h |-> TERM_NIL])
===============================================================================
