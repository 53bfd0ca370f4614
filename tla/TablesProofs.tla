---------------------------- MODULE TablesProofs ----------------------------
(***************************************************************************)
(* The kinds of the columns, in memory and in rels.txt, for any rows,      *)
(* files, rules and bounds: every refused operation and every abandoned    *)
(* transaction takes back what it recorded, a kind that is not in rels.txt *)
(* is marked to be written, and the resident rules fit.                    *)
(*                                                                         *)
(* The three invariants speak of the states between transactions.  The     *)
(* inductive invariant says what an open transaction must remember for     *)
(* them to hold again at its end, whichever way it ends: the kinds it      *)
(* would give back are the settled ones, earned or left behind by a failed *)
(* write (Returns), it has recorded others only together with an add it    *)
(* buffered (Undecided), and rels.txt has them only if declaring "rev"     *)
(* wrote it since (Disk).                                                  *)
(*                                                                         *)
(* The second half is about the keys a relation is stored as: their byte   *)
(* order is the order of the tuples for any radix, width and arity, hence  *)
(* ranks, selections and ranges are those of the tuples, in any order of   *)
(* the columns and under any bound leading columns.  The third is about    *)
(* the relation again: its rows can always be encoded, since values and    *)
(* ids fit a column, the interner's ids stay dense through refused files   *)
(* and kills, and the index is dirty, or it is fresh but for the rows a    *)
(* failed load put under it; so a read by number is exact, and a permuted  *)
(* one is, but for those rows, whatever happened since the index was       *)
(* built.                                                                  *)
(***************************************************************************)
EXTENDS Tables, FiniteSetTheorems, SequenceTheorems, WellFoundedInduction, TLAPS

(***************************************************************************)
(* The transaction buffer.                                                 *)
(***************************************************************************)
Ops == [kind : {"add", "del"}, row : TxnRows] \cup [kind : {"cas"}]

Buffers ==
    [open : {TRUE}, ops : Seq(Ops), ksnap : {<<>>} \cup {<<k>> : k \in Kinds},
     dirtyAtBegin : BOOLEAN]

Typed ==
    /\ kinds \in Kinds /\ relsTxt \in Kinds /\ earned \in Kinds /\ left \in Kinds
    /\ metaDirty \in BOOLEAN /\ revRel \in BOOLEAN /\ unwritten \in BOOLEAN
    /\ txn \in {NoTxn} \cup Buffers

(***************************************************************************)
(* No kind is both earned and left behind by a failed write.               *)
(***************************************************************************)
Exclusive == \A c \in Cols : left[c] # KIND_UNKNOWN => earned[c] = KIND_UNKNOWN

(***************************************************************************)
(* Every kind that k knows, m knows too.                                   *)
(***************************************************************************)
Grown(k, m) == \A c \in Cols : k[c] \in {KIND_UNKNOWN, m[c]}

(***************************************************************************)
(* What txnAbort and dl_close would leave: the snapshot if there is one.   *)
(***************************************************************************)
Before == IF txn.open /\ txn.ksnap # <<>> THEN txn.ksnap[1] ELSE kinds

(***************************************************************************)
(* An end of the transaction without a commit gives back the settled       *)
(* kinds, which those recorded since extend.                               *)
(***************************************************************************)
Returns == Before = Settled /\ Grown(Settled, kinds)

(***************************************************************************)
(* Kinds that are not settled yet come from an add that is still buffered, *)
(* so a transaction records kinds only once.                               *)
(***************************************************************************)
Undecided == kinds # Settled => PendingAdd

(***************************************************************************)
(* What close need not write is written already, unless an abort could not *)
(* write it.                                                               *)
(***************************************************************************)
Written == unwritten \/ metaDirty \/ (relsTxt = kinds /\ kinds = Settled)

(***************************************************************************)
(* rels.txt holds settled kinds, or all those of the open transaction,     *)
(* unless an abort could not take these out again.                         *)
(***************************************************************************)
Disk == unwritten \/ Grown(relsTxt, Settled) \/ (txn.open /\ revRel /\ relsTxt = kinds)

KInv == Typed /\ Exclusive /\ Returns /\ Undecided /\ Written /\ Disk /\ RulesFit

-----------------------------------------------------------------------------
(***************************************************************************)
(* kindNoteRaw extends the kinds, and where it learns nothing it leaves    *)
(* them; what it learns, it learns before any add is buffered.             *)
(***************************************************************************)
LEMMA NoteExtends ==
    ASSUME Typed, NEW row
    PROVE  /\ KindNoteRaw(row).kinds \in Kinds
           /\ KindNoteRaw(row).newly \in BOOLEAN
           /\ Grown(kinds, KindNoteRaw(row).kinds)
           /\ ~ KindNoteRaw(row).newly => KindNoteRaw(row).kinds = kinds
           /\ KindNoteRaw(row).newly => ~ PendingAdd
<1> DEFINE clashes == {c \in Cols : ~ Resolves(row[c]) /\ kinds[c] = KIND_SYM}
           noted == {c \in Cols : /\ ~ Resolves(row[c]) /\ kinds[c] = KIND_UNKNOWN
                                  /\ rows = {} /\ ~ PendingAdd
                                  /\ \A d \in clashes : c < d}
           k == [c \in Cols |-> IF c \in noted THEN KIND_INT ELSE kinds[c]]
<1>1. KindNoteRaw(row) = [kinds |-> k, newly |-> noted # {}, ok |-> clashes = {}]
  BY DEF KindNoteRaw
<1>2. noted \subseteq {c \in Cols : kinds[c] = KIND_UNKNOWN} /\ (noted # {} => ~ PendingAdd)
  OBVIOUS
<1> HIDE DEF noted, clashes
<1>3. k \in Kinds /\ Grown(kinds, k)
  BY <1>2 DEF Typed, Kinds, Grown
<1>4. noted = {} => k = kinds
  <2> SUFFICES ASSUME noted = {} PROVE k = kinds
    OBVIOUS
  <2>1. k = [c \in Cols |-> kinds[c]]
    OBVIOUS
  <2>2. kinds \in [Cols -> {KIND_UNKNOWN, KIND_INT, KIND_SYM}]
    BY DEF Typed, Kinds
  <2>3. kinds = [c \in Cols |-> kinds[c]]
    BY <2>2
  <2> QED BY <2>1, <2>3
<1> HIDE DEF k
<1>5. /\ KindNoteRaw(row).kinds = k
      /\ KindNoteRaw(row).newly = (noted # {})
  BY <1>1
<1> QED BY <1>2, <1>3, <1>4, <1>5

(***************************************************************************)
(* The kinds after a file extend those before it.                          *)
(***************************************************************************)
LEMMA FileExtends ==
    ASSUME Typed, NEW file
    PROVE  ReadFile(file).kinds \in Kinds /\ Grown(kinds, ReadFile(file).kinds)
<1>1. ReadFile(file).kinds = FileKinds(file)
  BY DEF ReadFile
<1>2. FileKinds(file) \in Kinds /\ Grown(kinds, FileKinds(file))
  BY DEF Typed, Kinds, FileKinds, CellKind, Grown
<1> QED BY <1>1, <1>2

(***************************************************************************)
(* Kinds once known stay: extensions compose, and fewer kinds fit where    *)
(* more do.                                                                *)
(***************************************************************************)
LEMMA GrownTransitive ==
    ASSUME NEW k \in Kinds, NEW l \in Kinds, NEW m \in Kinds, Grown(k, l), Grown(l, m)
    PROVE  Grown(k, m)
  BY DEF Grown, Kinds

\* Kinds that fit the rules still do when some of them become unknown.
LEMMA GrownFits ==
    ASSUME NEW k \in Kinds, NEW m \in Kinds, NEW required, Grown(k, m), Fits(m, required)
    PROVE  Fits(k, required)
  BY DEF Grown, Fits, Kinds

\* Kinds are their own growth.
LEMMA GrownReflexive ==
    ASSUME NEW k PROVE Grown(k, k)
  BY DEF Grown

(***************************************************************************)
(* What is settled changes only with what is earned or left.               *)
(***************************************************************************)
LEMMA SettledStays ==
    ASSUME UNCHANGED <<earned, left>>
    PROVE  Settled' = Settled /\ (Exclusive => Exclusive')
  BY DEF Settled, Exclusive

\* The settled kinds are kinds.
LEMMA SettledKinds ==
    ASSUME Typed PROVE Settled \in Kinds
  BY DEF Typed, Settled, Kinds

(***************************************************************************)
(* An operation that records k settles it, whether it is accepted and      *)
(* earns it or one of its writes fails and leaves it.                      *)
(***************************************************************************)
LEMMA Settles ==
    ASSUME Typed, Exclusive, NEW k \in Kinds, Grown(Settled, k),
           \/ earned' = EarnedBy(k) /\ left' = left
           \/ earned' = earned /\ left' = LeftBy(k)
    PROVE  Settled' = k /\ Exclusive' /\ earned' \in Kinds /\ left' \in Kinds
<1> USE DEF Kinds
<1>1. /\ k = [c \in Cols |-> k[c]]
      /\ \A c \in Cols : k[c] \in {KIND_UNKNOWN, KIND_INT, KIND_SYM}
  OBVIOUS
<1>2. \A c \in Cols : /\ earned[c] \in {KIND_UNKNOWN, KIND_INT, KIND_SYM}
                      /\ left[c] \in {KIND_UNKNOWN, KIND_INT, KIND_SYM}
                      /\ left[c] # KIND_UNKNOWN => earned[c] = KIND_UNKNOWN
                      /\ (IF earned[c] # KIND_UNKNOWN THEN earned[c] ELSE left[c]) \in {KIND_UNKNOWN, k[c]}
  BY DEF Typed, Exclusive, Grown, Settled
<1>3. CASE earned' = EarnedBy(k) /\ left' = left
  <2>1. \A c \in Cols : earned'[c] = IF left[c] = KIND_UNKNOWN THEN k[c] ELSE KIND_UNKNOWN
    BY <1>3 DEF EarnedBy
  <2>2. \A c \in Cols : (IF earned'[c] # KIND_UNKNOWN THEN earned'[c] ELSE left'[c]) = k[c]
    BY <1>2, <1>3, <2>1
  <2>3. Settled' = k
    BY <1>1, <2>2 DEF Settled
  <2>4. earned' \in Kinds /\ left' \in Kinds
    BY <1>3 DEF EarnedBy, Typed
  <2> QED BY <1>3, <2>1, <2>3, <2>4 DEF Exclusive
<1>4. CASE earned' = earned /\ left' = LeftBy(k)
  <2>1. \A c \in Cols : left'[c] = IF earned[c] = KIND_UNKNOWN THEN k[c] ELSE KIND_UNKNOWN
    BY <1>4 DEF LeftBy
  <2>2. \A c \in Cols : (IF earned'[c] # KIND_UNKNOWN THEN earned'[c] ELSE left'[c]) = k[c]
    BY <1>2, <1>4, <2>1
  <2>3. Settled' = k
    BY <1>1, <2>2 DEF Settled
  <2>4. earned' \in Kinds /\ left' \in Kinds
    BY <1>4 DEF LeftBy, Typed
  <2> QED BY <1>4, <2>1, <2>3, <2>4 DEF Exclusive
<1> QED BY <1>3, <1>4

(***************************************************************************)
(* Outside a transaction, what was recorded is settled.                    *)
(***************************************************************************)
LEMMA ClosedSettled ==
    ASSUME KInv, ~ txn.open
    PROVE  /\ kinds = Settled
           /\ unwritten \/ (Grown(relsTxt, Settled) /\ (metaDirty \/ relsTxt = kinds))
  BY DEF KInv, Returns, Before, Written, Disk

-----------------------------------------------------------------------------
(***************************************************************************)
(* Initially nothing is known of any column.                               *)
(***************************************************************************)
LEMMA KindsInit == Init => KInv
<1> SUFFICES ASSUME Init PROVE KInv
  OBVIOUS
<1>1. NoKind \in Kinds
  BY DEF NoKind, Kinds
<1>2. Typed
  BY <1>1 DEF Init, Typed
<1>3. /\ ~ txn.open /\ kinds = NoKind /\ relsTxt = NoKind /\ rules = NoKind
      /\ earned = NoKind /\ left = NoKind
  BY DEF Init, NoTxn
<1>4. Settled = NoKind /\ Exclusive
  BY <1>3 DEF Settled, NoKind, Exclusive
<1> QED BY <1>2, <1>3, <1>4, GrownReflexive
    DEF KInv, Returns, Before, Undecided, Written, Disk, RulesFit, Fits

(***************************************************************************)
(* An operation outside a transaction that records kinds: they are settled *)
(* whether it is accepted or fails, and are marked to be written if they   *)
(* grew.                                                                   *)
(***************************************************************************)
LEMMA DirectKeeps ==
    ASSUME KInv, ~ txn.open, NEW k \in Kinds, Grown(kinds, k), Fits(k, rules),
           kinds' = k, metaDirty' \in BOOLEAN,
           \/ earned' = EarnedBy(k) /\ left' = left
           \/ earned' = earned /\ left' = LeftBy(k),
           metaDirty => metaDirty', k # kinds => metaDirty',
           UNCHANGED <<relsTxt, rules, revRel, txn, unwritten>>
    PROVE  KInv'
<1>1. /\ kinds = Settled
      /\ unwritten \/ (Grown(relsTxt, Settled) /\ (metaDirty \/ relsTxt = kinds))
  BY ClosedSettled
<1>2. Settled' = k /\ Exclusive' /\ earned' \in Kinds /\ left' \in Kinds
  BY <1>1, Settles DEF KInv
<1>3. Typed'
  BY <1>2 DEF KInv, Typed
<1>4. unwritten \/ Grown(relsTxt, k)
  BY <1>1, GrownTransitive DEF KInv, Typed
<1>5. Returns'
  BY <1>2, GrownReflexive DEF Returns, Before
<1>6. Undecided' /\ Written'
  BY <1>1, <1>2 DEF KInv, Typed, Undecided, Written
<1>7. Disk' /\ RulesFit'
  BY <1>2, <1>4 DEF Disk, RulesFit, Grown, Fits
<1> QED BY <1>2, <1>3, <1>5, <1>6, <1>7 DEF KInv

(***************************************************************************)
(* A step that changes neither the kinds nor the buffer, and in rels.txt   *)
(* and its mark nothing but to set the mark.                               *)
(***************************************************************************)
LEMMA MarkedKeeps ==
    ASSUME KInv, UNCHANGED <<kinds, relsTxt, rules, revRel, txn, earned, left, unwritten>>,
           metaDirty' \in BOOLEAN, metaDirty => metaDirty'
    PROVE  KInv'
<1>1. Settled' = Settled /\ Exclusive'
  BY SettledStays DEF KInv
<1> QED BY <1>1
    DEF KInv, Typed, Returns, Before, Undecided, PendingAdd, Written, Disk, Grown, RulesFit, Fits

(***************************************************************************)
(* The operations outside a transaction.  A refused one has taken back all *)
(* it recorded, but for the mark that rels.txt is to be written; a failing *)
(* one has taken back nothing.                                             *)
(***************************************************************************)
LEMMA DirectOpsKeep ==
    ASSUME KInv, NEW row, NEW file,
           \/ AddFactRefused(row) \/ AddFact(row) \/ AddFactFail(row) \/ DeleteFact(row)
           \/ LoadFactsRefused(file) \/ LoadFacts(file) \/ LoadFactsFail(file)
    PROVE  KInv'
<1> USE DEF KInv
<1>1. CASE AddFactRefused(row)
  BY <1>1, NoteExtends, MarkedKeeps DEF AddFactRefused, Typed, histories
<1>2. CASE AddFact(row) \/ AddFactFail(row)
  <2> DEFINE note == KindNoteRaw(row)
  <2>1. PICK k : k = note.kinds
    OBVIOUS
  <2>2. /\ ~ txn.open /\ ~ RowRefused(note)
        /\ kinds' = k
        /\ \/ earned' = EarnedBy(k) /\ left' = left
           \/ earned' = earned /\ left' = LeftBy(k)
        /\ metaDirty' = (metaDirty \/ note.newly)
        /\ UNCHANGED <<relsTxt, rules, revRel, txn, unwritten>>
    BY <1>2, <2>1 DEF AddFact, AddFactFail
  <2>3. /\ k \in Kinds /\ Grown(kinds, k) /\ note.newly \in BOOLEAN
        /\ (~ note.newly => k = kinds)
    BY <2>1, NoteExtends
  <2>4. Fits(k, rules)
    BY <2>1, <2>2, <2>3 DEF RowRefused, RulesFit
  <2> QED BY <2>2, <2>3, <2>4, DirectKeeps DEF Typed
<1>3. CASE DeleteFact(row)
  BY <1>3, MarkedKeeps DEF DeleteFact, Typed
<1>4. CASE LoadFactsRefused(file)
  BY <1>4, MarkedKeeps DEF LoadFactsRefused, Typed, histories
<1>5. CASE LoadFacts(file) \/ LoadFactsFail(file)
  <2>1. PICK k : k = ReadFile(file).kinds
    OBVIOUS
  <2>2. /\ ~ txn.open /\ ~ LoadRefused(ReadFile(file))
        /\ kinds' = k
        /\ \/ earned' = EarnedBy(k) /\ left' = left
           \/ earned' = earned /\ left' = LeftBy(k)
        /\ metaDirty' = (metaDirty \/ k # kinds)
        /\ UNCHANGED <<relsTxt, rules, revRel, txn, unwritten>>
    BY <1>5, <2>1 DEF LoadFacts, LoadFactsFail
  <2>3. k \in Kinds /\ Grown(kinds, k)
    BY <2>1, FileExtends
  <2>4. Fits(k, rules)
    BY <2>1, <2>2 DEF LoadRefused, RulesFit
  <2> QED BY <2>2, <2>3, <2>4, DirectKeeps DEF Typed
<1> QED BY <1>1, <1>2, <1>3, <1>4, <1>5

(***************************************************************************)
(* Loading rules, a permuted read and a stutter touch no kind.             *)
(***************************************************************************)
LEMMA OthersKeep ==
    ASSUME KInv, NEW required, LoadRules(required) \/ PermRead \/ UNCHANGED vars
    PROVE  KInv'
<1>1. UNCHANGED <<kinds, relsTxt, metaDirty, revRel, txn, earned, left, unwritten>>
  BY DEF LoadRules, PermRead, vars, histories
<1>2. Fits(kinds, rules')
  BY DEF KInv, RulesFit, LoadRules, PermRead, vars
<1>3. Settled' = Settled /\ Exclusive'
  BY <1>1, SettledStays DEF KInv
<1> QED BY <1>1, <1>2, <1>3
    DEF KInv, Typed, Returns, Before, Undecided, PendingAdd, Written, Disk, Grown, RulesFit, Fits

-----------------------------------------------------------------------------
(***************************************************************************)
(* txnKindSnap: what an abort would give back is in the snapshot now.      *)
(***************************************************************************)
LEMMA SnapshotSettled ==
    ASSUME KInv, txn.open
    PROVE  Snapped = <<Settled>>
<1>1. txn \in Buffers
  BY DEF KInv, Typed, NoTxn
<1>2. CASE txn.ksnap = <<>>
  BY <1>2 DEF Snapped, KInv, Returns, Before
<1>3. CASE txn.ksnap # <<>>
  <2>1. PICK k \in Kinds : txn.ksnap = <<k>>
    BY <1>1, <1>3 DEF Buffers
  <2> QED BY <1>3, <2>1 DEF Snapped, KInv, Returns, Before
<1> QED BY <1>2, <1>3

(***************************************************************************)
(* A buffer stays one with another snapshot, or with one more operation.   *)
(***************************************************************************)
LEMMA BufferSnapped ==
    ASSUME NEW b \in Buffers, NEW k \in Kinds
    PROVE  /\ [b EXCEPT !.ksnap = <<k>>] \in Buffers
           /\ [b EXCEPT !.ksnap = <<k>>].ksnap = <<k>>
           /\ [b EXCEPT !.ksnap = <<k>>].ops = b.ops
<1>1. PICK q \in {<<l>> : l \in Kinds} : q = <<k>>
  OBVIOUS
<1>2. /\ [b EXCEPT !.ksnap = q] \in Buffers
      /\ [b EXCEPT !.ksnap = q].ksnap = q
      /\ [b EXCEPT !.ksnap = q].ops = b.ops
  BY DEF Buffers
<1> QED BY <1>1, <1>2

\* A buffer with one more operation is a buffer, with the kinds it was given.
LEMMA BufferAppended ==
    ASSUME NEW b \in Buffers, NEW op \in Ops
    PROVE  /\ [b EXCEPT !.ops = Append(@, op)] \in Buffers
           /\ [b EXCEPT !.ops = Append(@, op)].ops = Append(b.ops, op)
           /\ [b EXCEPT !.ops = Append(@, op)].ksnap = b.ksnap
<1>1. PICK r \in Seq(Ops) : r = b.ops
  BY DEF Buffers
<1> HIDE DEF Ops
<1>2. PICK s \in Seq(Ops) : s = Append(r, op)
  <2>1. Append(r, op) \in Seq(Ops)
    OBVIOUS
  <2> QED BY <2>1
<1>3. [b EXCEPT !.ops = Append(@, op)] = [b EXCEPT !.ops = s]
  BY <1>1, <1>2
<1>4. /\ [b EXCEPT !.ops = s] \in Buffers
      /\ [b EXCEPT !.ops = s].ops = s
      /\ [b EXCEPT !.ops = s].ksnap = b.ksnap
  BY DEF Buffers
<1> QED BY <1>1, <1>2, <1>3, <1>4

(***************************************************************************)
(* A buffer is one that is open, and the type invariant knows no other.    *)
(***************************************************************************)
LEMMA OpenBuffer ==
    ASSUME Typed, txn.open
    PROVE  txn \in Buffers
  BY DEF Typed, NoTxn

\* A buffer is that of an open transaction.
LEMMA BufferOpen == \A b \in Buffers : b.open
  BY DEF Buffers

(***************************************************************************)
(* A buffer with one more operation still has the adds it had.             *)
(***************************************************************************)
LEMMA BufferGrows ==
    ASSUME Typed, txn.open, NEW op \in Ops, txn'.open, txn'.ops = Append(txn.ops, op)
    PROVE  /\ PendingAdd => PendingAdd'
           /\ op.kind = "add" => PendingAdd'
<1>1. txn.ops \in Seq(Ops)
  BY OpenBuffer DEF Buffers
<1>2. PICK s \in Seq(Ops) : s = txn.ops
  BY <1>1
<1>3. /\ DOMAIN Append(s, op) = 1 .. Len(s) + 1
      /\ DOMAIN s = 1 .. Len(s)
      /\ Append(s, op)[Len(s) + 1] = op
      /\ \A i \in DOMAIN s : Append(s, op)[i] = s[i]
  OBVIOUS
<1>4. Len(s) \in Nat
  OBVIOUS
<1> QED BY <1>2, <1>3, <1>4 DEF PendingAdd

(***************************************************************************)
(* An operation enters the buffer, its kinds are recorded at once; a       *)
(* refused one leaves the snapshot only.                                   *)
(***************************************************************************)
LEMMA TxnAddKeeps ==
    ASSUME KInv, NEW row \in TxnRows, TxnAdd(row)
    PROVE  KInv'
<1> DEFINE note == KindNoteRaw(row)
           op == [kind |-> "add", row |-> row]
<1> USE DEF KInv
<1>1. txn \in Buffers /\ txn.open
  BY DEF TxnAdd, Typed, NoTxn
<1>2. PICK k : k = note.kinds
  OBVIOUS
<1>3. /\ kinds' = k /\ metaDirty' = (metaDirty \/ note.newly)
      /\ txn' = [txn EXCEPT !.ksnap = <<Settled>>, !.ops = Append(@, op)]
      /\ ~ RowRefused(note)
      /\ UNCHANGED <<relsTxt, rules, revRel, earned, left, unwritten>>
  BY <1>1, <1>2, SnapshotSettled DEF TxnAdd, histories
<1>4. /\ k \in Kinds /\ Grown(kinds, k) /\ note.newly \in BOOLEAN
      /\ ~ note.newly => k = kinds
      /\ note.newly => ~ PendingAdd
  BY <1>2, NoteExtends
<1>5. op \in Ops
  BY DEF Ops
<1>6. /\ txn' \in Buffers /\ txn'.open /\ txn'.ksnap = <<Settled>>
      /\ txn'.ops = Append(txn.ops, op)
  <2>1. PICK e \in Kinds : e = Settled
    BY SettledKinds
  <2>2. PICK b \in Buffers : b = [txn EXCEPT !.ksnap = <<e>>]
    BY <1>1, BufferSnapped
  <2>3. b.ksnap = <<e>> /\ b.ops = txn.ops
    BY <1>1, <2>2, BufferSnapped
  <2>4. PICK o \in Ops : o = op
    BY <1>5
  <2>5. txn' = [b EXCEPT !.ops = Append(@, o)]
    <3>1. txn' = [[txn EXCEPT !.ksnap = <<e>>] EXCEPT !.ops = Append(@, o)]
      BY <1>3, <2>1, <2>4
    <3> QED BY <2>2, <3>1
  <2> HIDE DEF op
  <2> QED BY <2>1, <2>3, <2>4, <2>5, BufferAppended, BufferOpen
<1>7. PendingAdd'
  BY <1>1, <1>5, <1>6, BufferGrows
<1>8. Typed' /\ Exclusive' /\ Settled' = Settled
  BY <1>3, <1>4, <1>6, SettledStays DEF Typed
<1>9. Returns'
  <2>1. Grown(Settled, k)
    BY <1>4, GrownTransitive, SettledKinds DEF Typed, Returns
  <2> QED BY <1>3, <1>6, <1>8, <2>1 DEF Returns, Before
<1>10. Undecided'
  BY <1>7 DEF Undecided
<1>11. Written'
  BY <1>3, <1>4, <1>8 DEF Written, Typed
<1>12. Disk'
  <2>1. CASE unwritten \/ Grown(relsTxt, Settled)
    BY <1>3, <1>8, <2>1 DEF Disk, Grown
  <2>2. CASE ~ unwritten /\ ~ Grown(relsTxt, Settled)
    <3>1. revRel /\ relsTxt = kinds
      BY <2>2 DEF Disk
    <3>2. kinds # Settled
      BY <2>2, <3>1, GrownReflexive
    <3>3. k = kinds
      BY <1>4, <3>2 DEF Undecided
    <3> QED BY <1>3, <1>6, <3>1, <3>3 DEF Disk
  <2> QED BY <2>1, <2>2
<1>13. RulesFit'
  <2>1. Fits(k, rules)
    BY <1>2, <1>3, <1>4 DEF RowRefused, RulesFit
  <2> QED BY <1>3, <2>1 DEF RulesFit, Fits
<1> QED BY <1>8, <1>9, <1>10, <1>11, <1>12, <1>13

(***************************************************************************)
(* dl_txn_begin: nothing is buffered and nothing snapped yet.              *)
(***************************************************************************)
LEMMA TxnBeginKeeps ==
    ASSUME KInv, TxnBegin
    PROVE  KInv'
<1> USE DEF KInv
<1>1. txn' \in Buffers /\ txn'.open /\ txn'.ksnap = <<>>
  BY DEF TxnBegin, Buffers, Typed
<1>2. kinds = Settled /\ (unwritten \/ Grown(relsTxt, Settled))
  BY ClosedSettled DEF TxnBegin
<1>3. UNCHANGED <<kinds, relsTxt, metaDirty, rules, revRel, earned, left, unwritten>>
  BY DEF TxnBegin, histories
<1>4. Settled' = Settled /\ Exclusive'
  BY <1>3, SettledStays
<1> QED BY <1>1, <1>2, <1>3, <1>4, GrownReflexive
    DEF Typed, Returns, Before, Undecided, Written, Disk, Grown, RulesFit, Fits

(***************************************************************************)
(* A refused dl_txn_add_fact leaves a snapshot and maybe the mark.         *)
(***************************************************************************)
LEMMA TxnAddRefusedKeeps ==
    ASSUME KInv, NEW row \in TxnRows, TxnAddRefused(row)
    PROVE  KInv'
<1> USE DEF KInv
<1>1. /\ txn \in Buffers /\ txn.open
      /\ KindNoteRaw(row).newly \in BOOLEAN
  BY NoteExtends DEF TxnAddRefused, Typed, NoTxn
<1>2. txn' = [txn EXCEPT !.ksnap = <<Settled>>]
  BY <1>1, SnapshotSettled DEF TxnAddRefused
<1>3. /\ txn' \in Buffers /\ txn'.open /\ txn'.ksnap = <<Settled>> /\ txn'.ops = txn.ops
  <2>1. PICK e \in Kinds : e = Settled
    BY SettledKinds
  <2>2. txn' = [txn EXCEPT !.ksnap = <<e>>]
    BY <1>2, <2>1
  <2> QED BY <1>1, <2>1, <2>2, BufferSnapped, BufferOpen
<1>4. /\ metaDirty' = (metaDirty \/ KindNoteRaw(row).newly)
      /\ UNCHANGED <<kinds, relsTxt, rules, revRel, earned, left, unwritten>>
  BY DEF TxnAddRefused, histories
<1>5. Settled' = Settled /\ Exclusive'
  BY <1>4, SettledStays
<1>6. Typed' /\ Returns' /\ RulesFit'
  BY <1>1, <1>3, <1>4, <1>5 DEF Typed, Returns, Before, Grown, RulesFit, Fits
<1>7. Undecided' /\ Written' /\ Disk'
  BY <1>1, <1>3, <1>4, <1>5 DEF Typed, Undecided, PendingAdd, Written, Disk, Grown
<1> QED BY <1>5, <1>6, <1>7

(***************************************************************************)
(* dl_txn_delete_fact only enters the buffer.                              *)
(***************************************************************************)
LEMMA TxnDeleteKeeps ==
    ASSUME KInv, NEW row \in TxnRows, TxnDelete(row)
    PROVE  KInv'
<1> USE DEF KInv
<1>1. txn \in Buffers /\ txn.open
  BY DEF TxnDelete, Typed, NoTxn
<1>2. PICK op \in Ops : op = [kind |-> "del", row |-> row]
  BY DEF Ops
<1>3. /\ txn' = [txn EXCEPT !.ops = Append(@, op)]
      /\ UNCHANGED <<kinds, relsTxt, metaDirty, rules, revRel, earned, left, unwritten>>
  BY <1>2 DEF TxnDelete, histories
<1>4. /\ txn' \in Buffers /\ txn'.open /\ txn'.ksnap = txn.ksnap
      /\ txn'.ops = Append(txn.ops, op)
  BY <1>1, <1>3, BufferAppended, BufferOpen
<1>5. PendingAdd => PendingAdd'
  BY <1>1, <1>4, BufferGrows
<1>6. Settled' = Settled /\ Exclusive'
  BY <1>3, SettledStays
<1> QED BY <1>1, <1>3, <1>4, <1>5, <1>6
    DEF Typed, Returns, Before, Undecided, Written, Disk, Grown, RulesFit, Fits

(***************************************************************************)
(* dl_txn_cas: declaring "rev" writes the kinds of the moment, settled or  *)
(* not; only the end of the transaction decides which.                     *)
(***************************************************************************)
LEMMA TxnCasKeeps ==
    ASSUME KInv, TxnCas
    PROVE  KInv'
<1> USE DEF KInv
<1>1. txn \in Buffers /\ txn.open
  BY DEF TxnCas, Typed, NoTxn
<1>2. PICK op \in Ops : op = [kind |-> "cas"]
  BY DEF Ops
<1>3. /\ txn' = [txn EXCEPT !.ops = Append(@, op)]
      /\ revRel' = TRUE
      /\ relsTxt' = IF revRel THEN relsTxt ELSE kinds
      /\ metaDirty' = (metaDirty \/ ~ revRel)
      /\ unwritten' = (revRel /\ unwritten)
      /\ UNCHANGED <<kinds, rules, earned, left>>
  BY <1>2 DEF TxnCas
<1>4. /\ txn' \in Buffers /\ txn'.open /\ txn'.ksnap = txn.ksnap
      /\ txn'.ops = Append(txn.ops, op)
  BY <1>1, <1>3, BufferAppended, BufferOpen
<1>5. PendingAdd => PendingAdd'
  BY <1>1, <1>4, BufferGrows
<1>6. Settled' = Settled /\ Exclusive'
  BY <1>3, SettledStays
<1>7. Typed' /\ Returns' /\ Undecided' /\ RulesFit'
  BY <1>1, <1>3, <1>4, <1>5, <1>6
  DEF Typed, Returns, Before, Undecided, Grown, RulesFit, Fits
<1>8. Written' /\ Disk'
  <2>1. CASE revRel
    <3>1. UNCHANGED <<relsTxt, kinds, revRel, unwritten>> /\ metaDirty' = metaDirty
      BY <1>3, <2>1 DEF Typed
    <3>2. Written'
      BY <1>6, <3>1 DEF Written
    <3>3. CASE unwritten \/ Grown(relsTxt, Settled)
      BY <1>6, <3>1, <3>2, <3>3 DEF Disk, Grown
    <3>4. CASE ~ unwritten /\ ~ Grown(relsTxt, Settled)
      <4>1. relsTxt' = kinds' /\ revRel'
        BY <1>3, <3>1, <3>4 DEF Disk
      <4> QED BY <1>4, <3>2, <4>1 DEF Disk
    <3> QED BY <3>3, <3>4
  <2>2. CASE ~ revRel
    <3>1. relsTxt' = kinds' /\ metaDirty' /\ revRel'
      BY <1>3, <2>2
    <3> QED BY <1>4, <3>1 DEF Written, Disk
  <2> QED BY <2>1, <2>2
<1> QED BY <1>6, <1>7, <1>8

-----------------------------------------------------------------------------
(***************************************************************************)
(* txnAbort: the kinds are the settled ones again, in rels.txt too if the  *)
(* transaction had recorded any and the write does not fail.               *)
(***************************************************************************)
LEMMA TxnAbortKeeps ==
    ASSUME KInv, TxnAbort
    PROVE  KInv'
<1> USE DEF KInv
<1>1. txn \in Buffers /\ txn.open /\ txn' = NoTxn /\ ~ txn'.open
  BY OpenBuffer DEF TxnAbort, NoTxn
<1>2. Before = (IF txn.ksnap = <<>> THEN kinds ELSE txn.ksnap[1])
  BY <1>1 DEF Before
<1>3. PICK e \in Kinds : e = Settled
  BY SettledKinds
<1>4. /\ kinds' = e
      /\ relsTxt' \in {relsTxt} \cup (IF e # kinds THEN {e} ELSE {})
      /\ unwritten' = IF e # kinds THEN relsTxt' # e ELSE unwritten
      /\ metaDirty' = IF e # kinds THEN txn.dirtyAtBegin ELSE metaDirty
      /\ UNCHANGED <<rules, revRel, earned, left>>
  BY <1>2, <1>3 DEF TxnAbort, Returns
<1>5. Settled' = e /\ Exclusive'
  BY <1>3, <1>4, SettledStays
<1>6. Typed'
  BY <1>1, <1>4 DEF Typed, Buffers
<1>7. Returns' /\ Undecided'
  BY <1>1, <1>4, <1>5, GrownReflexive DEF Returns, Before, Undecided
<1>8. Fits(e, rules)
  BY <1>3, GrownFits DEF Typed, Returns, RulesFit
<1>9. RulesFit'
  BY <1>4, <1>8 DEF RulesFit, Fits
<1>10. CASE e # kinds
  <2>1. kinds' = Settled' /\ (unwritten' \/ relsTxt' = kinds')
    BY <1>4, <1>5, <1>10
  <2>2. Written'
    BY <2>1 DEF Written
  <2>3. Disk'
    BY <2>1, GrownReflexive DEF Disk, Grown
  <2> QED BY <1>5, <1>6, <1>7, <1>9, <2>2, <2>3
<1>11. CASE e = kinds
  <2>1. UNCHANGED <<kinds, relsTxt, unwritten>> /\ metaDirty' = metaDirty /\ Settled' = Settled
    BY <1>3, <1>4, <1>5, <1>11
  <2>2. Written'
    BY <2>1 DEF Written
  <2>3. unwritten \/ Grown(relsTxt, Settled)
    BY <1>3, <1>11, GrownReflexive DEF Disk
  <2>4. Disk'
    BY <2>1, <2>3 DEF Disk, Grown
  <2> QED BY <1>5, <1>6, <1>7, <1>9, <2>2, <2>4
<1> QED BY <1>10, <1>11

(***************************************************************************)
(* A commit settles what the buffered adds recorded.                       *)
(***************************************************************************)
LEMMA TxnCommitKeeps ==
    ASSUME KInv, TxnCommit
    PROVE  KInv'
<1> USE DEF KInv
<1>1. txn.open /\ txn' = NoTxn /\ ~ txn'.open
  BY DEF TxnCommit, NoTxn
<1>2. PICK k \in Kinds : k = kinds
  BY DEF Typed
<1>3. /\ earned' = EarnedBy(k) /\ left' = left /\ kinds' = k
      /\ UNCHANGED <<relsTxt, rules, revRel, unwritten>> /\ metaDirty' = metaDirty
  BY <1>2 DEF TxnCommit
<1>4. Settled' = k /\ Exclusive' /\ earned' \in Kinds /\ left' \in Kinds
  BY <1>2, <1>3, Settles DEF Returns
<1>5. Typed' /\ RulesFit'
  BY <1>1, <1>2, <1>3, <1>4 DEF Typed, RulesFit, Fits
<1>6. Returns' /\ Undecided' /\ Written'
  BY <1>1, <1>2, <1>3, <1>4, GrownReflexive DEF Returns, Before, Undecided, Written
<1>7. unwritten \/ Grown(relsTxt, k)
  BY <1>2, GrownTransitive, GrownReflexive, SettledKinds DEF Disk, Typed, Returns
<1>8. Disk'
  BY <1>3, <1>4, <1>7 DEF Disk, Grown
<1> QED BY <1>4, <1>5, <1>6, <1>8

(***************************************************************************)
(* After a close or a kill the kinds are what rels.txt has, and those of   *)
(* them that nobody earned are left from then on.                          *)
(***************************************************************************)
LEMMA ReopensKeep ==
    ASSUME KInv, CloseReopen \/ KillReopen
    PROVE  KInv'
<1> USE DEF KInv
<1>1. Reopen /\ revRel' = revRel
  BY DEF CloseReopen, KillReopen, Reopen
<1>2. PICK k \in Kinds : k = relsTxt'
  <2>1. CASE CloseReopen
    <3>1. relsTxt' \in {relsTxt, Before}
      BY <2>1 DEF CloseReopen, Before
    <3> QED BY <3>1, SettledKinds DEF Returns, Typed
  <2>2. CASE KillReopen
    BY <2>2 DEF KillReopen, Typed
  <2> QED BY <2>1, <2>2
<1>3. /\ kinds' = k /\ relsTxt' = k /\ metaDirty' = FALSE /\ rules' = NoKind
      /\ txn' = NoTxn /\ ~ txn'.open /\ unwritten' = FALSE
      /\ earned' = [c \in Cols |-> IF k[c] = earned[c] THEN earned[c] ELSE KIND_UNKNOWN]
      /\ left' = [c \in Cols |-> IF k[c] = earned[c] THEN KIND_UNKNOWN ELSE k[c]]
  BY <1>1, <1>2 DEF Reopen, NoTxn
<1>4. Settled' = k
  <2>1. k = [c \in Cols |-> k[c]]
    BY DEF Kinds
  <2>2. \A c \in Cols : (IF earned'[c] # KIND_UNKNOWN THEN earned'[c] ELSE left'[c]) = k[c]
    BY <1>3
  <2> QED BY <2>1, <2>2 DEF Settled
<1>5. Exclusive'
  BY <1>3 DEF Exclusive
<1>6. earned' \in Kinds /\ left' \in Kinds
  BY <1>3 DEF Typed, Kinds
<1>7. Typed' /\ RulesFit'
  BY <1>1, <1>3, <1>6 DEF Typed, RulesFit, Fits, NoKind
<1>8. Returns' /\ Undecided' /\ Written' /\ Disk'
  BY <1>3, <1>4, GrownReflexive DEF Returns, Before, Undecided, Written, Disk
<1> QED BY <1>5, <1>7, <1>8

-----------------------------------------------------------------------------
(***************************************************************************)
(* For any rows, files, rules and bounds, in every reachable state:        *)
(* add, load, commit, abort, close and kill keep the kinds, those that are *)
(* settled, the mark and rels.txt in step, through every refusal and every *)
(* failing write.                                                          *)
(***************************************************************************)
THEOREM KindsInvariant == Spec => []KInv
<1>1. Init => KInv
  BY KindsInit
<1>2. KInv /\ [Next]_vars => KInv'
  <2> SUFFICES ASSUME KInv, [Next]_vars PROVE KInv'
    OBVIOUS
  <2>1. ASSUME NEW row \in Rows,
               AddFactRefused(row) \/ AddFact(row) \/ AddFactFail(row) \/ DeleteFact(row)
        PROVE  KInv'
    BY <2>1, DirectOpsKeep
  <2>2. ASSUME NEW file \in Files,
               LoadFactsRefused(file) \/ LoadFacts(file) \/ LoadFactsFail(file)
        PROVE  KInv'
    BY <2>2, DirectOpsKeep
  <2>3. ASSUME NEW row \in TxnRows, TxnAddRefused(row) \/ TxnAdd(row) \/ TxnDelete(row)
        PROVE  KInv'
    BY <2>3, TxnAddKeeps, TxnAddRefusedKeeps, TxnDeleteKeeps
  <2>4. ASSUME NEW required \in RuleKinds, LoadRules(required)
        PROVE  KInv'
    BY <2>4, OthersKeep
  <2>5. CASE PermRead \/ UNCHANGED vars
    BY <2>5, OthersKeep
  <2>6. CASE TxnBegin
    BY <2>6, TxnBeginKeeps
  <2>7. CASE TxnCas
    BY <2>7, TxnCasKeeps
  <2>8. CASE TxnAbort \/ TxnCommit
    BY <2>8, TxnAbortKeeps, TxnCommitKeeps
  <2>9. CASE CloseReopen \/ KillReopen
    BY <2>9, ReopensKeep
  <2> QED BY <2>1, <2>2, <2>3, <2>4, <2>5, <2>6, <2>7, <2>8, <2>9 DEF Next
<1> QED BY <1>1, <1>2, PTL DEF Spec

(***************************************************************************)
(* Outside a transaction the recorded kinds are exactly those that         *)
(* accepted operations established and those that a failing write left:    *)
(* dl_add_fact, dl_load_facts, dl_txn_add_fact and txnAbort take back all  *)
(* that a refused or abandoned one recorded, and nothing of what one       *)
(* recorded that fails at its writes.                                      *)
(***************************************************************************)
THEOREM KindsAreEarned == Spec => []KindsEarned
<1>1. KInv => KindsEarned
  BY ClosedSettled DEF KindsEarned
<1> QED BY <1>1, KindsInvariant, PTL

(***************************************************************************)
(* Unless an abort could not rewrite it: a kind that rels.txt does not     *)
(* have is marked to be written at close, and rels.txt has no kind that    *)
(* was neither earned nor left by a failing write, but for those of an     *)
(* open transaction that wrote it by declaring "rev" (dl_txn_cas).         *)
(***************************************************************************)
THEOREM KindsArePersisted == Spec => []KindsPersist
<1>1. KInv => KindsPersist
  BY ClosedSettled DEF KInv, Disk, Grown, KindsPersist
<1> QED BY <1>1, KindsInvariant, PTL

(***************************************************************************)
(* No kind is recorded that contradicts a constant of the resident rules:  *)
(* the recheck after a first row or a file, and the refusal it leads to.   *)
(***************************************************************************)
THEOREM RulesStayFit == Spec => []RulesFit
<1>1. KInv => RulesFit
  BY DEF KInv
<1> QED BY <1>1, KindsInvariant, PTL

-----------------------------------------------------------------------------
(***************************************************************************)
(* The keys.  A relation is read by the order of its keys, and what makes  *)
(* the ranks, the ranges and the permuted reads right is that this is the  *)
(* order of the tuples.                                                    *)
(***************************************************************************)

(***************************************************************************)
(* A set of numbers that is not empty has a least element, which takes the *)
(* place of induction below.                                               *)
(***************************************************************************)
LEMMA LeastNumber ==
    ASSUME NEW T \in SUBSET Nat, T # {}
    PROVE  \E x \in T : \A y \in T : x <= y
<1> DEFINE R == OpToRel(<, Nat)
<1>1. \A x, y \in Nat : x < y => <<x, y>> \in R
  BY DEF OpToRel
<1>2. IsWellFoundedOn(R, Nat)
  BY NatLessThanWellFounded
<1> HIDE DEF R
<1>3. PICK x \in T : \A y \in T : ~ (<<y, x>> \in R)
  BY <1>2, WFMin
<1>4. ASSUME NEW y \in T PROVE x <= y
  <2>1. x \in Nat /\ y \in Nat /\ <<y, x>> \notin R
    BY <1>3
  <2>2. ~ (y < x)
    BY <1>1, <2>1
  <2> QED BY <2>1, <2>2
<1> QED BY <1>4

(***************************************************************************)
(* The powers of the radix, as a function of the digit's place.            *)
(***************************************************************************)
LEMMA WeightGrows ==
    /\ Weight \in [0 .. Width -> Nat \ {0}]
    /\ Weight[0] = 1
    /\ \A k \in 1 .. Width : Weight[k] = Radix * Weight[k - 1]
<1> DEFINE Step(f, n) == [k \in 0 .. n |-> IF k = 0 THEN 1 ELSE Radix * f[k - 1]]
           Upto(n) == \E f : f = Step(f, n)
           Bad == {n \in Nat : ~ Upto(n)}
<1>1. Upto(0)
  <2>1. [k \in {0} |-> 1] = Step([k \in {0} |-> 1], 0)
    OBVIOUS
  <2> QED BY <2>1
<1>2. ASSUME NEW n \in Nat, Upto(n) PROVE Upto(n + 1)
  <2>1. PICK f : f = Step(f, n)
    BY <1>2
  <2>2. PICK g : g = [k \in 0 .. n + 1 |-> IF k = n + 1 THEN Radix * f[n] ELSE f[k]]
    OBVIOUS
  <2>3. \A k \in 0 .. n : g[k] = f[k] /\ f[k] = IF k = 0 THEN 1 ELSE Radix * f[k - 1]
    BY <2>1, <2>2
  <2>4. \A k \in 0 .. n + 1 : g[k] = IF k = 0 THEN 1 ELSE Radix * g[k - 1]
    BY <2>2, <2>3
  <2>5. g = [k \in 0 .. n + 1 |-> g[k]]
    BY <2>2
  <2>6. g = Step(g, n + 1)
    BY <2>4, <2>5
  <2> QED BY <2>6
<1>3. Upto(Width)
  <2> SUFFICES ASSUME ~ Upto(Width) PROVE FALSE
    OBVIOUS
  <2>1. Width \in Bad
    BY KeysAssumption
  <2> HIDE DEF Upto
  <2>2. PICK n \in Bad : \A m \in Bad : n <= m
    <3>1. Bad \in SUBSET Nat /\ Bad # {}
      BY <2>1
    <3> HIDE DEF Bad
    <3> QED BY <3>1, LeastNumber
  <2>3. n # 0 /\ n - 1 \in Nat /\ ~ (n <= n - 1)
    BY <1>1
  <2>4. Upto(n - 1)
    BY <2>2, <2>3
  <2>5. Upto((n - 1) + 1)
    BY <1>2, <2>3, <2>4
  <2> QED BY <2>5
<1>4. Weight = Step(Weight, Width)
  BY <1>3 DEF Weight
<1>5. /\ Weight[0] = 1
      /\ \A k \in 1 .. Width : Weight[k] = Radix * Weight[k - 1]
  BY <1>4, KeysAssumption
<1> DEFINE Low == {k \in Nat : k <= Width /\ Weight[k] \notin Nat \ {0}}
<1>6. Low = {}
  <2> SUFFICES ASSUME Low # {} PROVE FALSE
    OBVIOUS
  <2>1. PICK n \in Low : \A m \in Low : n <= m
    <3>1. Low \in SUBSET Nat
      OBVIOUS
    <3> HIDE DEF Low
    <3> QED BY <3>1, LeastNumber
  <2>2. n # 0 /\ n \in 1 .. Width /\ n - 1 \in Nat /\ ~ (n <= n - 1)
    BY <1>5, KeysAssumption
  <2>3. Weight[n - 1] \in Nat \ {0} /\ Weight[n] = Radix * Weight[n - 1]
    BY <1>5, <2>1, <2>2, KeysAssumption
  <2>4. \A a, b \in Nat \ {0} : a * b \in Nat \ {0}
    OBVIOUS
  <2> QED BY <2>1, <2>3, <2>4, KeysAssumption
<1>7. \A k \in 0 .. Width : Weight[k] \in Nat \ {0}
  BY <1>6, KeysAssumption
<1>8. Weight = [k \in 0 .. Width |-> Weight[k]]
  BY <1>4
<1> QED BY <1>5, <1>7, <1>8

(***************************************************************************)
(* Products keep the order.                                                *)
(***************************************************************************)
LEMMA TimesOrder ==
    ASSUME NEW m \in Nat, NEW a \in Nat, NEW b \in Nat, a <= b
    PROVE  m * a \in Nat /\ m * b \in Nat /\ m * a <= m * b
<1>1. PICK c \in Nat : b = a + c
  <2>1. b - a \in Nat /\ b = a + (b - a)
    OBVIOUS
  <2> QED BY <2>1
<1>2. m * b = m * a + m * c
  BY <1>1
<1>3. m * a \in Nat /\ m * c \in Nat
  OBVIOUS
<1> QED BY <1>2, <1>3

(***************************************************************************)
(* Division with rest: quotient and rest of a number, that nothing else is *)
(* its quotient, that dividing twice is dividing by the product, and that  *)
(* quotients keep the order.                                               *)
(***************************************************************************)
LEMMA QuotientRest ==
    ASSUME NEW v \in Nat, NEW m \in Nat \ {0}
    PROVE  /\ v \div m \in Nat /\ v % m \in 0 .. m - 1
           /\ v = m * (v \div m) + (v % m)
  OBVIOUS

\* Quotient and rest are unique.
LEMMA QuotientUnique ==
    ASSUME NEW v \in Nat, NEW m \in Nat \ {0}, NEW q \in Nat, NEW r \in 0 .. m - 1, v = m * q + r
    PROVE  v \div m = q
<1> DEFINE p == v \div m
           s == v % m
<1>1. p \in Nat /\ s \in 0 .. m - 1 /\ v = m * p + s
  BY QuotientRest
<1> HIDE DEF p, s
<1>2. CASE p < q
  <2>1. m * (p + 1) <= m * q /\ m * (p + 1) = m * p + m
    BY <1>1, <1>2, TimesOrder
  <2> QED BY <1>1, <2>1
<1>3. CASE q < p
  <2>1. m * (q + 1) <= m * p /\ m * (q + 1) = m * q + m
    BY <1>1, <1>3, TimesOrder
  <2> QED BY <1>1, <2>1
<1>4. CASE p = q
  BY <1>4 DEF p
<1> QED BY <1>1, <1>2, <1>3, <1>4

\* Dividing twice is dividing by the product.
LEMMA QuotientTwice ==
    ASSUME NEW v \in Nat, NEW m \in Nat \ {0}, NEW n \in Nat \ {0}
    PROVE  v \div (n * m) = (v \div m) \div n
<1>1. PICK q \in Nat, r \in 0 .. m - 1 : q = v \div m /\ v = m * q + r
  BY QuotientRest
<1>2. PICK p \in Nat, s \in 0 .. n - 1 : p = q \div n /\ q = n * p + s
  BY QuotientRest
<1>3. v = (n * m) * p + (m * s + r)
  <2>1. m * q = m * (n * p) + m * s
    BY <1>2
  <2>2. m * (n * p) = (n * m) * p
    OBVIOUS
  <2> QED BY <1>1, <2>1, <2>2
<1>4. m * s + r \in 0 .. n * m - 1
  <2>1. m * s \in Nat /\ m * s <= m * (n - 1)
    BY TimesOrder
  <2>2. m * (n - 1) = n * m - m
    OBVIOUS
  <2> QED BY <2>1, <2>2
<1>5. n * m \in Nat \ {0}
  OBVIOUS
<1>6. v \div (n * m) = p
  BY <1>3, <1>4, <1>5, QuotientUnique
<1> QED BY <1>1, <1>2, <1>6

\* Division keeps the order.
LEMMA QuotientOrder ==
    ASSUME NEW v \in Nat, NEW w \in Nat, NEW m \in Nat \ {0}, v <= w
    PROVE  v \div m <= w \div m
<1>1. PICK q \in Nat, r \in 0 .. m - 1 : q = v \div m /\ v = m * q + r
  BY QuotientRest
<1>2. PICK p \in Nat, s \in 0 .. m - 1 : p = w \div m /\ w = m * p + s
  BY QuotientRest
<1>3. CASE p < q
  <2>1. m * (p + 1) <= m * q /\ m * (p + 1) = m * p + m
    BY <1>3, TimesOrder
  <2> QED BY <1>1, <1>2, <2>1
<1> QED BY <1>1, <1>2, <1>3

(***************************************************************************)
(* What the first d of a column's digits say of its value.                 *)
(***************************************************************************)
HighPart(v, d) == v \div Weight[Width - d]

(***************************************************************************)
(* A byte, in the code.                                                    *)
(***************************************************************************)
Digits == 0 .. Radix - 1

(***************************************************************************)
(* encodeCol writes digits, and each digit extends what those before it    *)
(* say.                                                                    *)
(***************************************************************************)
LEMMA PartStep ==
    ASSUME NEW v \in Nat
    PROVE  /\ encodeCol(v) \in [1 .. Width -> Digits]
           /\ \A d \in 0 .. Width : HighPart(v, d) \in Nat
           /\ \A d \in 1 .. Width :
                 HighPart(v, d) = Radix * HighPart(v, d - 1) + encodeCol(v)[d]
           /\ HighPart(v, Width) = v
<1>1. ASSUME NEW d \in 0 .. Width
      PROVE  Weight[Width - d] \in Nat \ {0} /\ HighPart(v, d) \in Nat
  <2>1. Width - d \in 0 .. Width
    BY KeysAssumption
  <2>2. PICK m \in Nat \ {0} : m = Weight[Width - d]
    BY <2>1, WeightGrows
  <2> QED BY <2>2, QuotientRest DEF HighPart
<1>2. ASSUME NEW d \in 1 .. Width
      PROVE  /\ encodeCol(v)[d] \in Digits
             /\ HighPart(v, d) = Radix * HighPart(v, d - 1) + encodeCol(v)[d]
  <2>1. PICK m \in Nat \ {0} : m = Weight[Width - d]
    BY <1>1
  <2>2. Weight[Width - (d - 1)] = Radix * m
    BY <2>1, WeightGrows, KeysAssumption
  <2>3. HighPart(v, d) = v \div m /\ HighPart(v, d - 1) = v \div (Radix * m)
    BY <2>1, <2>2 DEF HighPart
  <2>4. HighPart(v, d - 1) = HighPart(v, d) \div Radix
    <3>1. Radix \in Nat \ {0}
      BY KeysAssumption
    <3> QED BY <2>3, <3>1, QuotientTwice
  <2>5. encodeCol(v)[d] = HighPart(v, d) % Radix
    BY <2>1, <2>3 DEF encodeCol
  <2>6. PICK u \in Nat : u = HighPart(v, d)
    BY <1>1
  <2>7. Radix \in Nat \ {0}
    BY KeysAssumption
  <2>8. u % Radix \in 0 .. Radix - 1 /\ u = Radix * (u \div Radix) + (u % Radix)
    BY <2>7, QuotientRest
  <2> QED BY <2>4, <2>5, <2>6, <2>8 DEF Digits
<1>3. encodeCol(v) \in [1 .. Width -> Digits]
  <2>1. encodeCol(v) = [d \in 1 .. Width |-> encodeCol(v)[d]]
    BY DEF encodeCol
  <2> QED BY <1>2, <2>1
<1>4. HighPart(v, Width) = v
  BY WeightGrows, KeysAssumption DEF HighPart
<1> QED BY <1>1, <1>2, <1>3, <1>4

(***************************************************************************)
(* The leading digits of a smaller value say no more than those of a       *)
(* greater one.                                                            *)
(***************************************************************************)
LEMMA PartOrder ==
    ASSUME NEW v \in Nat, NEW w \in Nat, v <= w, NEW d \in 0 .. Width
    PROVE  HighPart(v, d) <= HighPart(w, d)
<1>1. Width - d \in 0 .. Width
  BY KeysAssumption
<1>2. PICK m \in Nat \ {0} : m = Weight[Width - d]
  BY <1>1, WeightGrows
<1> QED BY <1>2, QuotientOrder DEF HighPart

(***************************************************************************)
(* Of two values the smaller has the smaller digit at the first place      *)
(* where they differ.                                                      *)
(***************************************************************************)
LEMMA DigitsOrder ==
    ASSUME NEW v \in ColumnValues, NEW w \in ColumnValues, v < w
    PROVE  \E d \in 1 .. Width : /\ \A j \in 1 .. d - 1 : encodeCol(v)[j] = encodeCol(w)[j]
                                 /\ encodeCol(v)[d] < encodeCol(w)[d]
<1>1. v \in Nat /\ w \in Nat
  BY DEF ColumnValues
<1> DEFINE Apart == {d \in 0 .. Width : HighPart(v, d) # HighPart(w, d)}
<1>2. PICK d \in Apart : \A j \in Apart : d <= j
  <2>1. Width \in Apart
    BY <1>1, PartStep, KeysAssumption
  <2>2. Apart \in SUBSET Nat
    BY KeysAssumption
  <2> HIDE DEF Apart
  <2> QED BY <2>1, <2>2, LeastNumber
<1>3. HighPart(v, 0) = 0 /\ HighPart(w, 0) = 0
  <2>1. Weight[Width] \in Nat \ {0}
    BY WeightGrows, KeysAssumption
  <2>2. \A u \in ColumnValues : u = Weight[Width] * 0 + u /\ u \in 0 .. Weight[Width] - 1 /\ u \in Nat
    BY <2>1 DEF ColumnValues
  <2>3. \A u \in ColumnValues : u \div Weight[Width] = 0
    BY <2>1, <2>2, QuotientUnique
  <2> QED BY <2>3, KeysAssumption DEF HighPart
<1>4. d \in 1 .. Width /\ d - 1 \in 0 .. Width
  BY <1>3, KeysAssumption
<1>5. \A j \in 0 .. d - 1 : HighPart(v, j) = HighPart(w, j)
  BY <1>2, <1>4, KeysAssumption
<1>6. ASSUME NEW j \in 1 .. d - 1 PROVE encodeCol(v)[j] = encodeCol(w)[j]
  <2>0. j \in 1 .. Width /\ j \in 0 .. d - 1 /\ j - 1 \in 0 .. d - 1 /\ j - 1 \in 0 .. Width
    BY <1>4, KeysAssumption
  <2>1. /\ HighPart(v, j) = Radix * HighPart(v, j - 1) + encodeCol(v)[j]
        /\ HighPart(w, j) = Radix * HighPart(w, j - 1) + encodeCol(w)[j]
        /\ encodeCol(v)[j] \in Digits /\ encodeCol(w)[j] \in Digits
    BY <1>1, <2>0, PartStep
  <2>2. HighPart(v, j) = HighPart(w, j) /\ HighPart(v, j - 1) = HighPart(w, j - 1) /\ HighPart(v, j - 1) \in Nat
    BY <1>1, <1>5, <2>0, PartStep
  <2> QED BY <2>1, <2>2, KeysAssumption DEF Digits
<1>7. encodeCol(v)[d] < encodeCol(w)[d]
  <2>1. /\ HighPart(v, d) = Radix * HighPart(v, d - 1) + encodeCol(v)[d]
        /\ HighPart(w, d) = Radix * HighPart(w, d - 1) + encodeCol(w)[d]
        /\ encodeCol(v)[d] \in Digits /\ encodeCol(w)[d] \in Digits
    BY <1>1, <1>4, PartStep
  <2>2. HighPart(v, d) # HighPart(w, d) /\ HighPart(v, d - 1) = HighPart(w, d - 1) /\ HighPart(v, d - 1) \in Nat
    BY <1>1, <1>2, <1>4, <1>5, PartStep, KeysAssumption
  <2>3. HighPart(v, d) <= HighPart(w, d)
    BY <1>1, <1>4, PartOrder
  <2> QED BY <2>1, <2>2, <2>3, KeysAssumption DEF Digits
<1> QED BY <1>4, <1>6, <1>7

(***************************************************************************)
(* The columns of a tuple, encoded.                                        *)
(***************************************************************************)
EncodedColumns(n) == [1 .. n -> [1 .. Width -> Digits]]

(***************************************************************************)
(* Where digit d of column k stands in a key: each place belongs to one    *)
(* digit of one column, and the columns follow each other.                 *)
(***************************************************************************)
LEMMA PlaceOf ==
    ASSUME NEW n \in Nat
    PROVE  /\ \A k \in 1 .. n, d \in 1 .. Width : (k - 1) * Width + d \in 1 .. n * Width
           /\ \A j \in 1 .. n * Width :
                 \E k \in 1 .. n, d \in 1 .. Width : j = (k - 1) * Width + d
           /\ \A k, i \in 1 .. n, d, e \in 1 .. Width :
                 (k - 1) * Width + d < (i - 1) * Width + e => k < i \/ (k = i /\ d < e)
<1>1. ASSUME NEW k \in 1 .. n, NEW d \in 1 .. Width PROVE (k - 1) * Width + d \in 1 .. n * Width
  <2>1. Width * (k - 1) \in Nat /\ Width * k <= Width * n /\ Width * n \in Nat
    BY TimesOrder, KeysAssumption
  <2>2. Width * k = Width * (k - 1) + Width /\ Width * (k - 1) = (k - 1) * Width /\ Width * n = n * Width
    BY KeysAssumption
  <2> QED BY <2>1, <2>2, KeysAssumption
<1>2. ASSUME NEW j \in 1 .. n * Width
      PROVE  \E k \in 1 .. n, d \in 1 .. Width : j = (k - 1) * Width + d
  <2>1. PICK q \in Nat, r \in 0 .. Width - 1 : j - 1 = Width * q + r
    <3>1. j - 1 \in Nat
      BY KeysAssumption
    <3> QED BY <3>1, QuotientRest, KeysAssumption
  <2>2. q < n
    <3>1. CASE n <= q
      <4>1. Width * n <= Width * q /\ Width * n = n * Width
        BY <3>1, TimesOrder, KeysAssumption
      <4> QED BY <2>1, <4>1, KeysAssumption
    <3> QED BY <3>1
  <2>3. q + 1 \in 1 .. n /\ r + 1 \in 1 .. Width /\ j = ((q + 1) - 1) * Width + (r + 1)
    BY <2>1, <2>2, KeysAssumption
  <2> QED BY <2>3
<1>3. ASSUME NEW k \in 1 .. n, NEW i \in 1 .. n, NEW d \in 1 .. Width, NEW e \in 1 .. Width,
             (k - 1) * Width + d < (i - 1) * Width + e
      PROVE  k < i \/ (k = i /\ d < e)
  <2>1. CASE i < k
    <3>1. Width * i <= Width * (k - 1) /\ Width * i \in Nat
      BY <2>1, TimesOrder, KeysAssumption
    <3>2. Width * i = (i - 1) * Width + Width /\ Width * (k - 1) = (k - 1) * Width
      BY KeysAssumption
    <3> QED BY <1>3, <3>1, <3>2, KeysAssumption
  <2>2. CASE i = k
    <3>1. (k - 1) * Width \in Nat
      BY KeysAssumption
    <3> QED BY <1>3, <2>2, <3>1, KeysAssumption
  <2> QED BY <2>1, <2>2
<1> QED BY <1>1, <1>2, <1>3

(***************************************************************************)
(* Two blocks of digits, the second behind the first.                      *)
(***************************************************************************)
LEMMA JoinedBlocks ==
    ASSUME NEW a \in Nat, NEW b \in Nat, NEW x \in [1 .. a -> Digits], NEW y \in [1 .. b -> Digits]
    PROVE  /\ x \o y \in [1 .. a + b -> Digits]
           /\ \A j \in 1 .. a : (x \o y)[j] = x[j]
           /\ \A j \in 1 .. b : (x \o y)[a + j] = y[j]
<1>1. x \in Seq(Digits) /\ y \in Seq(Digits) /\ Len(x) = a /\ Len(y) = b
  OBVIOUS
<1>2. /\ x \o y \in Seq(Digits) /\ Len(x \o y) = a + b
      /\ \A j \in 1 .. a + b : (x \o y)[j] = IF j <= a THEN x[j] ELSE y[j - a]
  BY <1>1, ConcatProperties
<1>3. PICK z \in Seq(Digits) : z = x \o y
  BY <1>2
<1>4. Len(z) = a + b
  BY <1>2, <1>3
<1>5. z \in [1 .. a + b -> Digits]
  BY <1>4
<1> QED BY <1>2, <1>3, <1>5

(***************************************************************************)
(* Joining the columns puts each digit in its place; by the least number   *)
(* of columns for which it did not.                                        *)
(***************************************************************************)
LEMMA FlattenedUpTo ==
    ASSUME NEW n \in Nat, NEW s \in EncodedColumns(n), NEW m \in 1 .. n, NEW f,
           \A i \in 1 .. n : f[i] = IF i = 1 THEN s[i] ELSE f[i - 1] \o s[i]
    PROVE  /\ f[m] \in [1 .. m * Width -> Digits]
           /\ \A k \in 1 .. m, d \in 1 .. Width : f[m][(k - 1) * Width + d] = s[k][d]
<1> DEFINE Good(i) == /\ f[i] \in [1 .. i * Width -> Digits]
                      /\ \A k \in 1 .. i, d \in 1 .. Width : f[i][(k - 1) * Width + d] = s[k][d]
           Bad == {i \in 1 .. n : ~ Good(i)}
<1>1. Good(1)
  BY KeysAssumption DEF EncodedColumns
<1>2. ASSUME NEW i \in 1 .. n, i + 1 \in 1 .. n, Good(i) PROVE Good(i + 1)
  <2>1. f[i + 1] = f[i] \o s[i + 1]
    <3>1. (i + 1) - 1 = i /\ i + 1 # 1
      OBVIOUS
    <3> QED BY <1>2, <3>1
  <2>2. PICK a : a = i * Width
    OBVIOUS
  <2>3. a \in Nat /\ (i + 1) * Width = a + Width
    BY <2>2, KeysAssumption
  <2>4. PICK x \in [1 .. a -> Digits], y \in [1 .. Width -> Digits] : x = f[i] /\ y = s[i + 1]
    BY <1>2, <2>2 DEF EncodedColumns
  <2>6. /\ x \o y \in [1 .. a + Width -> Digits]
        /\ \A j \in 1 .. a : (x \o y)[j] = x[j]
        /\ \A d \in 1 .. Width : (x \o y)[a + d] = y[d]
    <3>1. Width \in Nat
      BY KeysAssumption
    <3>2. a \in Nat
      BY <2>3
    <3> QED BY <3>1, <3>2, JoinedBlocks
  <2>7. ASSUME NEW k \in 1 .. i + 1, NEW d \in 1 .. Width
        PROVE  f[i + 1][(k - 1) * Width + d] = s[k][d]
    <3>1. CASE k = i + 1
      <4>1. (k - 1) * Width + d = a + d
        BY <2>2, <3>1
      <4> QED BY <2>1, <2>4, <2>6, <3>1, <4>1
    <3>2. CASE k \in 1 .. i
      <4>1. PICK p : p = (k - 1) * Width + d
        OBVIOUS
      <4>2. p \in 1 .. a
        BY <2>2, <3>2, <4>1, PlaceOf
      <4>3. f[i][p] = s[k][d]
        BY <1>2, <3>2, <4>1
      <4> QED BY <2>1, <2>4, <2>6, <4>1, <4>2, <4>3
    <3> QED BY <3>1, <3>2
  <2>8. f[i + 1] \in [1 .. (i + 1) * Width -> Digits]
    BY <2>1, <2>3, <2>4, <2>6
  <2> QED BY <2>7, <2>8
<1>3. Bad = {}
  <2> SUFFICES ASSUME Bad # {} PROVE FALSE
    OBVIOUS
  <2>1. PICK i \in Bad : \A j \in Bad : i <= j
    <3> HIDE DEF Good
    <3>1. Bad \in SUBSET Nat
      OBVIOUS
    <3> HIDE DEF Bad
    <3> QED BY <3>1, LeastNumber
  <2> HIDE DEF Good
  <2>2. i # 1 /\ i - 1 \in 1 .. n /\ ~ (i <= i - 1) /\ (i - 1) + 1 = i
    BY <1>1
  <2>3. Good((i - 1) + 1)
    BY <1>2, <2>1, <2>2
  <2> QED BY <2>2, <2>3
<1> QED BY <1>3

\* The encoded columns one after the other, digit by digit.
LEMMA Flattened ==
    ASSUME NEW n \in Nat, NEW s \in EncodedColumns(n)
    PROVE  /\ FlattenSeq(s) \in [1 .. n * Width -> Digits]
           /\ \A k \in 1 .. n, d \in 1 .. Width : FlattenSeq(s)[(k - 1) * Width + d] = s[k][d]
<1>1. Len(s) = n /\ DOMAIN s = 1 .. n
  BY DEF EncodedColumns
<1>2. CASE n = 0
  <2>1. FlattenSeq(s) = s /\ n * Width = 0
    BY <1>1, <1>2, KeysAssumption DEF FlattenSeq
  <2> QED BY <1>2, <2>1 DEF EncodedColumns
<1>3. CASE n # 0
  <2> DEFINE Step(f, m) == [i \in 1 .. m |-> IF i = 1 THEN s[i] ELSE f[i - 1] \o s[i]]
             Bad == {m \in Nat : ~ \E f : f = Step(f, m)}
  <2>1. Bad = {}
    <3> SUFFICES ASSUME Bad # {} PROVE FALSE
      OBVIOUS
    <3>1. PICK m \in Bad : \A l \in Bad : m <= l
      <4>1. Bad \in SUBSET Nat
        OBVIOUS
      <4> HIDE DEF Bad
      <4> QED BY <4>1, LeastNumber
    <3>2. m # 0
      <4>1. PICK e : e = [i \in {} |-> 0]
        OBVIOUS
      <4>2. e = Step(e, 0)
        BY <4>1
      <4> QED BY <4>2
    <3>3. PICK f : f = Step(f, m - 1)
      <4>1. m - 1 \in Nat /\ ~ (m <= m - 1)
        BY <3>2
      <4>2. m - 1 \notin Bad
        BY <3>1, <4>1
      <4> QED BY <4>1, <4>2
    <3>4. PICK g : g = [i \in 1 .. m |-> IF i = m THEN (IF m = 1 THEN s[1] ELSE f[m - 1] \o s[m]) ELSE f[i]]
      OBVIOUS
    <3>5. ASSUME NEW i \in 1 .. m
          PROVE  g[i] = IF i = 1 THEN s[i] ELSE g[i - 1] \o s[i]
      <4>1. i < m => f[i] = IF i = 1 THEN s[i] ELSE f[i - 1] \o s[i]
        <5>1. i < m => i \in 1 .. m - 1
          OBVIOUS
        <5>2. \A j \in 1 .. m - 1 : Step(f, m - 1)[j] = IF j = 1 THEN s[j] ELSE f[j - 1] \o s[j]
          OBVIOUS
        <5> HIDE DEF Step
        <5> QED BY <3>3, <5>1, <5>2
      <4>2. i # 1 => i - 1 \in 1 .. m /\ i - 1 # m
        OBVIOUS
      <4> QED BY <3>4, <4>1, <4>2
    <3>6. g = [i \in 1 .. m |-> g[i]]
      BY <3>4
    <3>7. g = Step(g, m)
      BY <3>5, <3>6
    <3> QED BY <3>1, <3>7
  <2>2. PICK h : h = Step(h, n)
    BY <2>1
  <2> DEFINE flatten == CHOOSE f : f = Step(f, n)
  <2>3. flatten = Step(flatten, n)
    BY <2>2
  <2>4. FlattenSeq(s) = flatten[n]
    BY <1>1, <1>3 DEF FlattenSeq
  <2> HIDE DEF flatten
  <2>5. /\ flatten[n] \in [1 .. n * Width -> Digits]
        /\ \A k \in 1 .. n, d \in 1 .. Width : flatten[n][(k - 1) * Width + d] = s[k][d]
    <3>1. \A i \in 1 .. n : flatten[i] = IF i = 1 THEN s[i] ELSE flatten[i - 1] \o s[i]
      BY <2>3
    <3>2. n \in 1 .. n
      BY <1>3
    <3> QED BY <3>1, <3>2, FlattenedUpTo
  <2> QED BY <2>4, <2>5
<1> QED BY <1>2, <1>3

(***************************************************************************)
(* The tuples that can be encoded.                                         *)
(***************************************************************************)
Tuples(n) == [1 .. n -> ColumnValues]

(***************************************************************************)
(* A key has Width digits for each column and a closing 0.                 *)
(***************************************************************************)
LEMMA KeyShape ==
    ASSUME NEW n \in Nat, NEW t \in Tuples(n)
    PROVE  /\ n * Width \in Nat
           /\ encodeKey(t) \in [1 .. n * Width + 1 -> Digits]
           /\ \A k \in 1 .. n, d \in 1 .. Width :
                 encodeKey(t)[(k - 1) * Width + d] = encodeCol(t[k])[d]
<1> DEFINE s == [i \in DOMAIN t |-> encodeCol(t[i])]
<1>1. DOMAIN t = 1 .. n /\ \A i \in 1 .. n : t[i] \in Nat
  BY DEF Tuples, ColumnValues
<1>2. s \in EncodedColumns(n) /\ \A i \in 1 .. n : s[i] = encodeCol(t[i])
  BY <1>1, PartStep DEF EncodedColumns
<1>3. PICK a \in Nat : a = n * Width
  BY KeysAssumption
<1> HIDE DEF s
<1>4. PICK x \in [1 .. a -> Digits] : x = FlattenSeq(s)
  BY <1>2, <1>3, Flattened
<1>5. PICK y \in [1 .. 1 -> Digits] : y = <<0>>
  <2>1. 0 \in Digits
    BY KeysAssumption DEF Digits
  <2>2. <<0>> \in [1 .. 1 -> Digits]
    BY <2>1
  <2> QED BY <2>2
<1>6. 1 \in Nat
  OBVIOUS
<1>7. /\ x \o y \in [1 .. a + 1 -> Digits]
      /\ \A j \in 1 .. a : (x \o y)[j] = x[j]
  BY <1>6, JoinedBlocks
<1>8. encodeKey(t) = x \o y
  BY <1>4, <1>5 DEF encodeKey, encodeCols, s
<1>9. ASSUME NEW k \in 1 .. n, NEW d \in 1 .. Width
      PROVE  encodeKey(t)[(k - 1) * Width + d] = encodeCol(t[k])[d]
  <2>1. PICK p : p = (k - 1) * Width + d
    OBVIOUS
  <2>2. p \in 1 .. a
    BY <1>3, <2>1, PlaceOf
  <2>3. x[p] = s[k][d]
    BY <1>2, <1>4, <2>1, Flattened
  <2> QED BY <1>2, <1>7, <1>8, <2>1, <2>2, <2>3
<1> QED BY <1>3, <1>7, <1>8, <1>9

(***************************************************************************)
(* The key of a smaller tuple comes first: the keys agree up to the first  *)
(* digit of the first column in which the values differ.                   *)
(***************************************************************************)
LEMMA SmallerKey ==
    ASSUME NEW n \in Nat, NEW t \in Tuples(n), NEW u \in Tuples(n), Smaller(t, u)
    PROVE  KeyBefore(encodeKey(t), encodeKey(u))
<1>1. PICK i \in 1 .. n : t[i] < u[i] /\ \A j \in 1 .. i - 1 : t[j] = u[j]
  BY DEF Smaller, Tuples
<1>2. PICK d \in 1 .. Width : /\ \A j \in 1 .. d - 1 : encodeCol(t[i])[j] = encodeCol(u[i])[j]
                              /\ encodeCol(t[i])[d] < encodeCol(u[i])[d]
  BY <1>1, DigitsOrder DEF Tuples
<1>3. PICK a \in Nat : a = n * Width
  BY KeysAssumption
<1>4. PICK x \in [1 .. a + 1 -> Digits], y \in [1 .. a + 1 -> Digits] : x = encodeKey(t) /\ y = encodeKey(u)
  BY <1>3, KeyShape
<1>5. PICK p : p = (i - 1) * Width + d
  OBVIOUS
<1>6. p \in 1 .. a
  BY <1>3, <1>5, PlaceOf
<1>7. x[p] < y[p]
  BY <1>2, <1>4, <1>5, KeyShape
<1>8. ASSUME NEW j \in 1 .. p - 1 PROVE x[j] = y[j]
  <2>1. j \in 1 .. n * Width
    BY <1>3, <1>6
  <2>2. PICK k \in 1 .. n, e \in 1 .. Width : j = (k - 1) * Width + e
    BY <2>1, PlaceOf
  <2>3. k < i \/ (k = i /\ e < d)
    <3>1. (k - 1) * Width + e < (i - 1) * Width + d
      BY <1>5, <1>6, <2>2
    <3> QED BY <3>1, PlaceOf
  <2>4. encodeCol(t[k])[e] = encodeCol(u[k])[e]
    <3>1. CASE k < i
      <4>1. k \in 1 .. i - 1
        BY <3>1
      <4> QED BY <1>1, <4>1
    <3>2. CASE k = i /\ e < d
      <4>1. e \in 1 .. d - 1
        BY <3>2, KeysAssumption
      <4> QED BY <1>2, <3>2, <4>1
    <3> QED BY <2>3, <3>1, <3>2
  <2>5. x[j] = encodeCol(t[k])[e] /\ y[j] = encodeCol(u[k])[e]
    BY <1>4, <2>2, KeyShape
  <2> QED BY <2>4, <2>5
<1>9. KeyBefore(x, y)
  <2>1. DOMAIN x = 1 .. a + 1 /\ DOMAIN y = 1 .. a + 1 /\ p \in DOMAIN x /\ p \in DOMAIN y
    BY <1>6
  <2>2. \A j \in 1 .. p - 1 : j \in DOMAIN x /\ x[j] = y[j]
    BY <1>6, <1>8, <2>1
  <2> QED BY <1>7, <2>1, <2>2 DEF KeyBefore
<1> QED BY <1>4, <1>9

(***************************************************************************)
(* No two keys of the same length come before each other, and of two       *)
(* tuples one is smaller.                                                  *)
(***************************************************************************)
LEMMA KeyBeforeStrict ==
    ASSUME NEW m \in Nat, NEW x \in [1 .. m -> Digits], NEW y \in [1 .. m -> Digits],
           KeyBefore(x, y)
    PROVE  ~ KeyBefore(y, x)
<1>1. PICK i \in 1 .. m : x[i] < y[i] /\ \A j \in 1 .. i - 1 : x[j] = y[j]
  BY DEF KeyBefore
<1>2. SUFFICES ASSUME KeyBefore(y, x) PROVE FALSE
  OBVIOUS
<1>3. PICK k \in 1 .. m : y[k] < x[k] /\ \A j \in 1 .. k - 1 : y[j] = x[j]
  BY <1>2 DEF KeyBefore
<1>4. x[i] \in Int /\ y[i] \in Int /\ x[k] \in Int /\ y[k] \in Int
  BY KeysAssumption DEF Digits
<1>5. i < k => i \in 1 .. k - 1
  OBVIOUS
<1>6. k < i => k \in 1 .. i - 1
  OBVIOUS
<1>7. i < k \/ i = k \/ k < i
  OBVIOUS
<1> QED BY <1>1, <1>3, <1>4, <1>5, <1>6, <1>7

\* Of two different tuples one is smaller.
LEMMA SmallerTotal ==
    ASSUME NEW n \in Nat, NEW t \in Tuples(n), NEW u \in Tuples(n), t # u
    PROVE  Smaller(t, u) \/ Smaller(u, t)
<1> DEFINE Apart == {i \in 1 .. n : t[i] # u[i]}
<1>1. DOMAIN t = 1 .. n /\ DOMAIN u = 1 .. n /\ \A i \in 1 .. n : t[i] \in Nat /\ u[i] \in Nat
  BY DEF Tuples, ColumnValues
<1>2. Apart # {}
  BY DEF Tuples
<1>3. PICK i \in Apart : \A j \in Apart : i <= j
  <2>1. Apart \in SUBSET Nat
    OBVIOUS
  <2> HIDE DEF Apart
  <2> QED BY <1>2, <2>1, LeastNumber
<1>4. \A j \in 1 .. i - 1 : t[j] = u[j]
  BY <1>3
<1>5. t[i] < u[i] \/ u[i] < t[i]
  BY <1>1
<1> QED BY <1>1, <1>4, <1>5 DEF Smaller

(***************************************************************************)
(* The order of the keys is the order of the tuples, for any radix, any    *)
(* number of digits and any arity: encodeCol writes the most significant   *)
(* digit first, so walking the automaton in byte order is walking the      *)
(* relation in numeric order, and no two tuples share a key.               *)
(***************************************************************************)
THEOREM KeysKeepOrder ==
    ASSUME NEW n \in Nat, NEW t \in Tuples(n), NEW u \in Tuples(n)
    PROVE  /\ KeyBefore(encodeKey(t), encodeKey(u)) <=> Smaller(t, u)
           /\ encodeKey(t) = encodeKey(u) <=> t = u
<1>1. PICK m \in Nat : m = n * Width + 1
  BY KeysAssumption
<1>2. encodeKey(t) \in [1 .. m -> Digits] /\ encodeKey(u) \in [1 .. m -> Digits]
  BY <1>1, KeyShape
<1>3. \A x \in [1 .. m -> Digits] : ~ KeyBefore(x, x)
  BY KeyBeforeStrict
<1>4. CASE t = u
  <2>1. ~ Smaller(t, u)
    BY <1>4 DEF Smaller, Tuples, ColumnValues
  <2> QED BY <1>2, <1>3, <1>4, <2>1
<1>5. CASE t # u
  <2>1. Smaller(t, u) => KeyBefore(encodeKey(t), encodeKey(u))
    BY SmallerKey
  <2>2. Smaller(u, t) => KeyBefore(encodeKey(u), encodeKey(t))
    BY SmallerKey
  <2>3. Smaller(t, u) \/ Smaller(u, t)
    BY <1>5, SmallerTotal
  <2>4. ~ (KeyBefore(encodeKey(t), encodeKey(u)) /\ KeyBefore(encodeKey(u), encodeKey(t)))
    BY <1>2, KeyBeforeStrict
  <2> QED BY <1>2, <1>3, <1>5, <2>1, <2>2, <2>3, <2>4
<1> QED BY <1>4, <1>5

(***************************************************************************)
(* A one-to-one map onto a set gives it the size of the other.             *)
(***************************************************************************)
LEMMA SameSize ==
    ASSUME NEW S, NEW T, IsFiniteSet(S), NEW f \in [S -> T],
           \A x, y \in S : f[x] = f[y] => x = y,
           \A z \in T : \E x \in S : f[x] = z
    PROVE  IsFiniteSet(T) /\ Cardinality(T) = Cardinality(S)
<1>1. f \in Bijection(S, T)
  BY DEF Bijection, Injection, Surjection, IsInjective
<1>2. ExistsBijection(S, T)
  BY <1>1 DEF ExistsBijection
<1> QED BY <1>2, FS_Bijection

(***************************************************************************)
(* The number of keys before that of t is the number of tuples smaller     *)
(* than t, for every finite relation and every t, stored or not: what      *)
(* rel_rank counts in the automaton is what dl_rank promises of the        *)
(* relation.                                                               *)
(***************************************************************************)
THEOREM RanksAreExact ==
    ASSUME NEW n \in Nat, NEW R \in SUBSET Tuples(n), IsFiniteSet(R), NEW t \in Tuples(n)
    PROVE  rel_rank(dafsa_build_sorted(R), t) = Rank(R, t)
<1> DEFINE S == {u \in R : Smaller(u, t)}
           T == {w \in dafsa_build_sorted(R) : KeyBefore(w, encodeKey(t))}
           f == [u \in S |-> encodeKey(u)]
<1>1. IsFiniteSet(S)
  BY FS_Subset
<1>2. \A u \in R : /\ u \in Tuples(n)
                   /\ KeyBefore(encodeKey(u), encodeKey(t)) <=> Smaller(u, t)
  BY KeysKeepOrder
<1>3. T = {encodeKey(u) : u \in S}
  BY <1>2 DEF dafsa_build_sorted
<1>4. f \in [S -> T] /\ \A z \in T : \E x \in S : f[x] = z
  BY <1>3
<1>5. \A x, y \in S : f[x] = f[y] => x = y
  BY <1>2, KeysKeepOrder
<1> HIDE DEF S, T, f
<1>6. Cardinality(T) = Cardinality(S)
  BY <1>1, <1>4, <1>5, SameSize
<1> QED BY <1>6 DEF S, T, rel_rank, dafsa_rank_from, Rank

(***************************************************************************)
(* The order of the tuples is transitive.                                  *)
(***************************************************************************)
LEMMA SmallerBetween ==
    ASSUME NEW n \in Nat, NEW t \in Tuples(n), NEW u \in Tuples(n), NEW v \in Tuples(n),
           Smaller(t, u), Smaller(u, v)
    PROVE  Smaller(t, v) /\ ~ Smaller(u, t)
<1>1. PICK i \in 1 .. n : t[i] < u[i] /\ \A j \in 1 .. i - 1 : t[j] = u[j]
  BY DEF Smaller, Tuples
<1>2. PICK k \in 1 .. n : u[k] < v[k] /\ \A j \in 1 .. k - 1 : u[j] = v[j]
  BY DEF Smaller, Tuples
<1>3. DOMAIN t = 1 .. n /\ \A j \in 1 .. n : t[j] \in Nat /\ u[j] \in Nat /\ v[j] \in Nat
  BY DEF Tuples, ColumnValues
<1>4. Smaller(t, v)
  <2>1. CASE i < k
    <3>1. \A j \in 1 .. i : u[j] = v[j]
      BY <1>2, <2>1
    <3>2. i \in DOMAIN t /\ t[i] < v[i]
      BY <1>1, <1>3, <3>1
    <3>3. \A j \in 1 .. i - 1 : t[j] = v[j]
      BY <1>1, <3>1
    <3> QED BY <3>2, <3>3 DEF Smaller
  <2>2. CASE k < i
    <3>1. \A j \in 1 .. k : t[j] = u[j]
      BY <1>1, <2>2
    <3>2. k \in DOMAIN t /\ t[k] < v[k]
      BY <1>2, <1>3, <3>1
    <3>3. \A j \in 1 .. k - 1 : t[j] = v[j]
      BY <1>2, <3>1
    <3> QED BY <3>2, <3>3 DEF Smaller
  <2>3. CASE i = k
    <3>1. i \in DOMAIN t
      BY <1>3
    <3>2. t[i] \in Nat /\ u[i] \in Nat /\ v[i] \in Nat /\ t[i] < u[i] /\ u[i] < v[i]
      BY <1>1, <1>2, <1>3, <2>3
    <3>3. t[i] < v[i]
      BY <3>2
    <3>4. \A j \in 1 .. i - 1 : t[j] = v[j]
      BY <1>1, <1>2, <2>3
    <3> QED BY <3>1, <3>3, <3>4 DEF Smaller
  <2> QED BY <2>1, <2>2, <2>3
<1>5. ~ Smaller(u, t)
  <2>1. SUFFICES ASSUME NEW l \in 1 .. n, u[l] < t[l], \A j \in 1 .. l - 1 : u[j] = t[j] PROVE FALSE
    BY DEF Smaller, Tuples
  <2>2. i < l => i \in 1 .. l - 1
    OBVIOUS
  <2>3. l < i => l \in 1 .. i - 1
    OBVIOUS
  <2>4. i < l \/ i = l \/ l < i
    OBVIOUS
  <2> QED BY <1>1, <1>3, <2>1, <2>2, <2>3, <2>4
<1> QED BY <1>4, <1>5

(***************************************************************************)
(* The difference of two ranks is the number of tuples from lo up to hi,   *)
(* hi excluded (dl_range_count), when hi is not before lo.                 *)
(***************************************************************************)
THEOREM RangeCountsAreExact ==
    ASSUME NEW n \in Nat, NEW R \in SUBSET Tuples(n), IsFiniteSet(R),
           NEW lo \in Tuples(n), NEW hi \in Tuples(n), lo = hi \/ Smaller(lo, hi)
    PROVE  rel_range_count(dafsa_build_sorted(R), lo, hi) = RangeCount(R, lo, hi)
<1> DEFINE low  == {u \in R : Smaller(u, lo)}
           high == {u \in R : Smaller(u, hi)}
           mid  == {u \in R : u = lo \/ Smaller(lo, u)} \cap high
<1>1. \A u \in R : u \in Tuples(n)
  OBVIOUS
<1>2. \A u \in Tuples(n) : ~ Smaller(u, u)
  BY DEF Smaller, Tuples, ColumnValues
<1>3. low \subseteq high
  BY <1>1, SmallerBetween
<1>4. low \cap mid = {} /\ high = low \cup mid
  <2>1. ASSUME NEW u \in R, u \in low, u \in mid PROVE FALSE
    BY <1>1, <1>2, <2>1, SmallerBetween
  <2>2. ASSUME NEW u \in R, u \in high PROVE u \in low \cup mid
    BY <1>1, <2>2, SmallerTotal
  <2> QED BY <1>3, <2>1, <2>2
<1>5. IsFiniteSet(low) /\ IsFiniteSet(mid)
  BY FS_Subset
<1> HIDE DEF low, mid, high
<1>6. Cardinality(low) \in Nat /\ Cardinality(mid) \in Nat
  BY <1>5, FS_CardinalityType
<1>7. Cardinality(high) = Cardinality(low) + Cardinality(mid)
  <2>1. Cardinality(low \cup mid) = Cardinality(low) + Cardinality(mid) - Cardinality(low \cap mid)
    BY <1>5, FS_Union
  <2>2. Cardinality(low \cap mid) = 0
    BY <1>4, FS_EmptySet
  <2> QED BY <1>4, <1>6, <2>1, <2>2
<1>8. Cardinality(high) - Cardinality(low) = Cardinality(mid)
  BY <1>6, <1>7
<1>9. /\ rel_rank(dafsa_build_sorted(R), lo) = Cardinality(low)
      /\ rel_rank(dafsa_build_sorted(R), hi) = Cardinality(high)
  BY RanksAreExact DEF low, high, Rank
<1> QED BY <1>8, <1>9 DEF rel_range_count, dafsa_range_count_from, rel_rank, RangeCount, mid, high

(***************************************************************************)
(* The orders of the columns a permutation index can have.                 *)
(***************************************************************************)
ColumnOrders(n) == {p \in [1 .. n -> 1 .. n] : \A c \in 1 .. n : \E j \in 1 .. n : p[j] = c}

(***************************************************************************)
(* Permuting the columns gives a tuple, from no two tuples the same.       *)
(***************************************************************************)
LEMMA PermutedTuple ==
    ASSUME NEW n \in Nat, NEW perm \in ColumnOrders(n), NEW t \in Tuples(n), NEW u \in Tuples(n)
    PROVE  /\ Permuted(t, perm) \in Tuples(n)
           /\ Permuted(t, perm) = Permuted(u, perm) => t = u
<1>1. DOMAIN t = 1 .. n /\ DOMAIN u = 1 .. n /\ perm \in [1 .. n -> 1 .. n]
  BY DEF Tuples, ColumnOrders
<1>2. Permuted(t, perm) \in Tuples(n)
  BY <1>1 DEF Permuted, Tuples
<1>3. ASSUME Permuted(t, perm) = Permuted(u, perm) PROVE t = u
  <2>1. \A j \in 1 .. n : t[perm[j]] = u[perm[j]]
    BY <1>1, <1>3 DEF Permuted
  <2>2. \A c \in 1 .. n : t[c] = u[c]
    BY <2>1 DEF ColumnOrders
  <2> QED BY <2>2 DEF Tuples
<1> QED BY <1>2, <1>3

(***************************************************************************)
(* The index holds a tuple for each row, and as many for any part of them. *)
(***************************************************************************)
LEMMA PermutedRows ==
    ASSUME NEW n \in Nat, NEW perm \in ColumnOrders(n), NEW R \in SUBSET Tuples(n), IsFiniteSet(R)
    PROVE  /\ permindex_build(R, perm) \in SUBSET Tuples(n)
           /\ IsFiniteSet(permindex_build(R, perm))
<1>1. permindex_build(R, perm) \in SUBSET Tuples(n)
  BY PermutedTuple DEF permindex_build
<1> DEFINE f == [u \in R |-> Permuted(u, perm)]
<1>2. f \in [R -> permindex_build(R, perm)]
  BY DEF permindex_build
<1>3. \A x, y \in R : f[x] = f[y] => x = y
  BY PermutedTuple
<1>4. \A z \in permindex_build(R, perm) : \E x \in R : f[x] = z
  BY DEF permindex_build
<1> HIDE DEF f
<1> QED BY <1>1, <1>2, <1>3, <1>4, SameSize

\* Permuting the columns keeps the number of tuples.
LEMMA PermutedPart ==
    ASSUME NEW n \in Nat, NEW perm \in ColumnOrders(n), NEW S \in SUBSET Tuples(n), IsFiniteSet(S)
    PROVE  Cardinality(permindex_build(S, perm)) = Cardinality(S)
<1> DEFINE f == [u \in S |-> Permuted(u, perm)]
<1>2. f \in [S -> permindex_build(S, perm)]
  BY DEF permindex_build
<1>3. \A x, y \in S : f[x] = f[y] => x = y
  BY PermutedTuple
<1>4. \A z \in permindex_build(S, perm) : \E x \in S : f[x] = z
  BY DEF permindex_build
<1> HIDE DEF f
<1> QED BY <1>2, <1>3, <1>4, SameSize

(***************************************************************************)
(* Ranking in an index built over a relation is ranking its tuples by      *)
(* their columns in the order of the index (dl_rank_perm), whatever that   *)
(* order is.                                                               *)
(***************************************************************************)
THEOREM PermutedRanksAreExact ==
    ASSUME NEW n \in Nat, NEW perm \in ColumnOrders(n), NEW R \in SUBSET Tuples(n), IsFiniteSet(R),
           NEW t \in Tuples(n)
    PROVE  dl_rank_perm(dafsa_build_sorted(permindex_build(R, perm)), perm, t) = RankPerm(R, perm, t)
<1> DEFINE S == {u \in R : SmallerBy(perm, u, t)}
<1>1. S \in SUBSET Tuples(n) /\ IsFiniteSet(S)
  BY FS_Subset
<1>2. permindex_build(S, perm) = {w \in permindex_build(R, perm) : Smaller(w, Permuted(t, perm))}
  BY DEF permindex_build, SmallerBy
<1> HIDE DEF S
<1>3. Rank(permindex_build(R, perm), Permuted(t, perm)) = Cardinality(S)
  BY <1>1, <1>2, PermutedPart DEF Rank
<1>4. Permuted(t, perm) \in Tuples(n)
  BY PermutedTuple
<1>5. rel_rank(dafsa_build_sorted(permindex_build(R, perm)), Permuted(t, perm)) = Cardinality(S)
  BY <1>3, <1>4, PermutedRows, RanksAreExact
<1> QED BY <1>5 DEF S, dl_rank_perm, RankPerm

(***************************************************************************)
(* So is counting a range (dl_range_count_perm).                           *)
(***************************************************************************)
THEOREM PermutedCountsAreExact ==
    ASSUME NEW n \in Nat, NEW perm \in ColumnOrders(n), NEW R \in SUBSET Tuples(n), IsFiniteSet(R),
           NEW lo \in Tuples(n), NEW hi \in Tuples(n), lo = hi \/ SmallerBy(perm, lo, hi)
    PROVE  dl_range_count_perm(dafsa_build_sorted(permindex_build(R, perm)), perm, lo, hi)
           = RangeCountPerm(R, perm, lo, hi)
<1> DEFINE S == {u \in R : ~ SmallerBy(perm, u, lo) /\ SmallerBy(perm, u, hi)}
           P == permindex_build(R, perm)
           l == Permuted(lo, perm)
           h == Permuted(hi, perm)
<1>1. S \in SUBSET Tuples(n) /\ IsFiniteSet(S)
  BY FS_Subset
<1>2. l \in Tuples(n) /\ h \in Tuples(n) /\ P \in SUBSET Tuples(n) /\ IsFiniteSet(P)
  BY PermutedTuple, PermutedRows
<1>3. \A w \in P : w = l \/ Smaller(l, w) <=> ~ Smaller(w, l)
  <2> SUFFICES ASSUME NEW w \in P PROVE w = l \/ Smaller(l, w) <=> ~ Smaller(w, l)
    OBVIOUS
  <2>1. w \in Tuples(n)
    BY <1>2
  <2> HIDE DEF P, l
  <2>2. ~ Smaller(l, l)
    BY <1>2 DEF Smaller, Tuples, ColumnValues
  <2>3. Smaller(l, w) => ~ Smaller(w, l)
    <3> SUFFICES ASSUME Smaller(l, w), Smaller(w, l) PROVE FALSE
      OBVIOUS
    <3> QED BY <1>2, <2>1, <2>2, SmallerBetween
  <2>4. w = l \/ Smaller(l, w) \/ Smaller(w, l)
    BY <1>2, <2>1, SmallerTotal
  <2> QED BY <2>2, <2>3, <2>4
<1>4. permindex_build(S, perm) = {w \in P : ~ Smaller(w, l) /\ Smaller(w, h)}
  BY DEF permindex_build, SmallerBy
<1>5. permindex_build(S, perm) = {w \in P : w = l \/ Smaller(l, w)} \cap {w \in P : Smaller(w, h)}
  BY <1>3, <1>4
<1>6. l = h \/ Smaller(l, h)
  BY DEF SmallerBy
<1> HIDE DEF S, P, l, h
<1>7. RangeCount(P, l, h) = Cardinality(S)
  BY <1>1, <1>5, PermutedPart DEF RangeCount
<1>8. rel_range_count(dafsa_build_sorted(P), l, h) = Cardinality(S)
  BY <1>2, <1>6, <1>7, RangeCountsAreExact
<1> QED BY <1>8 DEF S, P, l, h, dl_range_count_perm, RangeCountPerm

-----------------------------------------------------------------------------
(***************************************************************************)
(* The permutation index is dirty or indexes the rows there are, but for   *)
(* those that a failed load put under it.                                  *)
(***************************************************************************)
IndexFresh ==
    pidx.dirty \/ pidx.keys = dafsa_build_sorted(permindex_build(rows \ unseen, Perm))

\* A file only adds rows.
LEMMA FileAdds == \A file : rows \subseteq ReadFile(file).rows
  BY DEF ReadFile

(***************************************************************************)
(* Every write that changes the rows marks the index, a commit once for    *)
(* all its operations, but for a load that fails to save the interner or   *)
(* the term store; so a permuted read, which rebuilds a dirty index,       *)
(* answers from the rows of the moment without those of failed loads,      *)
(* whatever happened since the last.                                       *)
(***************************************************************************)
THEOREM IndexStaysFresh == Spec => []IndexFresh
<1>1. Init => IndexFresh
  BY DEF Init, Stale, IndexFresh
<1>2. IndexFresh /\ [Next]_vars => IndexFresh'
  <2> SUFFICES ASSUME IndexFresh, [Next]_vars PROVE IndexFresh'
    OBVIOUS
  <2>1. CASE UNCHANGED <<rows, pidx, unseen>>
    BY <2>1 DEF IndexFresh
  <2>2. CASE MarkDirty
    <3>1. CASE rows' # rows
      BY <2>2, <3>1 DEF MarkDirty, Stale, IndexFresh
    <3>2. CASE rows' = rows
      BY <2>1, <2>2, <3>2 DEF MarkDirty
    <3> QED BY <3>1, <3>2
  <2>3. CASE PermRead
    <3>1. UNCHANGED rows /\ unseen' = {}
      BY <2>3 DEF PermRead
    <3>2. rows' \ unseen' = rows
      BY <3>1
    <3>3. pidx'.keys = dafsa_build_sorted(permindex_build(rows, Perm))
      BY <2>3 DEF PermRead
    <3> QED BY <3>2, <3>3 DEF IndexFresh
  <2>4. CASE pidx' = Stale
    BY <2>4 DEF Stale, IndexFresh
  <2>5. ASSUME NEW file \in Files, LoadFactsFail(file) PROVE IndexFresh'
    <3>1. pidx' = pidx /\ (~ pidx.dirty => unseen' = unseen \cup (rows' \ rows))
      BY <2>5 DEF LoadFactsFail
    <3>2. rows \subseteq rows'
      BY <2>5, FileAdds DEF LoadFactsFail
    <3>3. ~ pidx.dirty => rows' \ unseen' = rows \ unseen
      BY <3>1, <3>2
    <3> QED BY <3>1, <3>3 DEF IndexFresh
  <2>6. \/ UNCHANGED <<rows, pidx, unseen>> \/ MarkDirty \/ PermRead \/ pidx' = Stale
        \/ \E file \in Files : LoadFactsFail(file)
    BY DEF Next, vars, histories, AddFactRefused, AddFact, AddFactFail, DeleteFact,
           LoadFactsRefused, LoadFacts, LoadRules,
           TxnBegin, TxnAddRefused, TxnAdd, TxnDelete, TxnCas, TxnAbort, TxnCommit,
           Reopen, CloseReopen, KillReopen
  <2> QED BY <2>1, <2>2, <2>3, <2>4, <2>5, <2>6
<1> QED BY <1>1, <1>2, PTL DEF Spec

-----------------------------------------------------------------------------
(***************************************************************************)
(* Steps from one number to the next reach all numbers up to n.            *)
(***************************************************************************)
LEMMA UpTo ==
    ASSUME NEW n \in Nat, NEW G, 0 \in G, \A m \in 1 .. n : m - 1 \in G => m \in G
    PROVE  0 .. n \subseteq G
<1> DEFINE Bad == {m \in 0 .. n : m \notin G}
<1>1. SUFFICES ASSUME Bad # {} PROVE FALSE
  OBVIOUS
<1>2. PICK m \in Bad : \A j \in Bad : m <= j
  <2>1. Bad \in SUBSET Nat
    OBVIOUS
  <2> HIDE DEF Bad
  <2> QED BY <1>1, <2>1, LeastNumber
<1>3. m \in 1 .. n /\ m - 1 \in 0 .. n /\ ~ (m <= m - 1)
  OBVIOUS
<1>4. m - 1 \in G
  BY <1>2, <1>3
<1> QED BY <1>3, <1>4

(***************************************************************************)
(* A recursive function on 0 .. n, and that it exists, with values in S,   *)
(* if each step stays there.                                               *)
(***************************************************************************)
IsRun(f, n, S, base, F) ==
    f \in [0 .. n -> S] /\ f[0] = base /\ \A i \in 1 .. n : f[i] = F[<<i, f[i - 1]>>]

\* A recursion over 1 .. n has a run.
LEMMA RunExists ==
    ASSUME NEW n \in Nat, NEW S, NEW base \in S, NEW F \in [(1 .. n) \X S -> S]
    PROVE  \E f : IsRun(f, n, S, base, F)
<1> DEFINE Run(f, m) == f \in [0 .. m -> S] /\ f[0] = base /\ \A i \in 1 .. m : f[i] = F[<<i, f[i - 1]>>]
           G == {m \in Nat : \E f : Run(f, m)}
<1>1. 0 \in G
  <2>1. Run([i \in 0 .. 0 |-> base], 0)
    OBVIOUS
  <2> QED BY <2>1
<1>2. ASSUME NEW m \in 1 .. n, m - 1 \in G PROVE m \in G
  <2>1. PICK f : Run(f, m - 1)
    BY <1>2
  <2>2. PICK x : x = F[<<m, f[m - 1]>>]
    OBVIOUS
  <2>3. x \in S
    <3>1. f[m - 1] \in S
      BY <2>1
    <3> QED BY <2>2, <3>1
  <2>4. PICK g : g = [i \in 0 .. m |-> IF i = m THEN x ELSE f[i]]
    OBVIOUS
  <2>5. g \in [0 .. m -> S]
    BY <2>1, <2>3, <2>4
  <2>6. g[0] = base
    BY <2>1, <2>4
  <2>7. ASSUME NEW i \in 1 .. m PROVE g[i] = F[<<i, g[i - 1]>>]
    <3>1. g[i - 1] = f[i - 1]
      BY <2>4
    <3>2. CASE i = m
      <4>1. g[i] = x /\ x = F[<<i, f[i - 1]>>]
        BY <2>2, <2>4, <3>2
      <4> QED BY <3>1, <4>1
    <3>3. CASE i # m
      <4>1. i \in 1 .. m - 1
        BY <3>3
      <4> QED BY <2>1, <2>4, <3>1, <3>3, <4>1
    <3> QED BY <3>2, <3>3
  <2>8. Run(g, m)
    BY <2>5, <2>6, <2>7
  <2> QED BY <2>8
<1>3. n \in G
  <2> HIDE DEF G
  <2>1. 0 .. n \subseteq G
    BY <1>1, <1>2, UpTo
  <2> QED BY <2>1
<1> QED BY <1>3 DEF IsRun

(***************************************************************************)
(* Reading a key back gives the tuple it encodes.                          *)
(***************************************************************************)
LEMMA KeyReadBack ==
    ASSUME NEW n \in Nat, NEW t \in Tuples(n)
    PROVE  readColsBe(encodeKey(t), n) = t
<1>1. ASSUME NEW k \in 1 .. n PROVE readColBe(encodeKey(t), k) = t[k]
  <2> DEFINE Step(f) == [d \in 0 .. Width |->
                           IF d = 0 THEN 0 ELSE f[d - 1] * Radix + encodeKey(t)[(k - 1) * Width + d]]
             v == CHOOSE f : f = Step(f)
  <2>1. t[k] \in Nat /\ t[k] \in ColumnValues
    BY DEF Tuples, ColumnValues
  <2>2. PICK f : f = [d \in 0 .. Width |-> HighPart(t[k], d)]
    OBVIOUS
  <2>3. f = Step(f)
    <3>1. f[0] = 0
      <4>1. t[k] = Weight[Width] * 0 + t[k] /\ t[k] \in 0 .. Weight[Width] - 1 /\ Weight[Width] \in Nat \ {0}
        BY <2>1, WeightGrows, KeysAssumption DEF ColumnValues
      <4>2. t[k] \div Weight[Width] = 0
        BY <2>1, <4>1, QuotientUnique
      <4> QED BY <2>2, <4>2, KeysAssumption DEF HighPart
    <3>2. ASSUME NEW d \in 1 .. Width
          PROVE  f[d] = f[d - 1] * Radix + encodeKey(t)[(k - 1) * Width + d]
      <4>1. HighPart(t[k], d) = Radix * HighPart(t[k], d - 1) + encodeCol(t[k])[d]
        BY <2>1, PartStep
      <4>2. encodeKey(t)[(k - 1) * Width + d] = encodeCol(t[k])[d]
        BY KeyShape
      <4>3. HighPart(t[k], d - 1) \in Nat /\ d - 1 \in 0 .. Width /\ d \in 0 .. Width
        <5>1. d - 1 \in 0 .. Width /\ d \in 0 .. Width
          BY KeysAssumption
        <5> QED BY <2>1, <5>1, PartStep
      <4>4. PICK h \in Nat : h = HighPart(t[k], d - 1)
        BY <4>3
      <4>5. Radix * h = h * Radix
        BY KeysAssumption
      <4> QED BY <2>2, <4>1, <4>2, <4>3, <4>4, <4>5
    <3>3. \A d \in 0 .. Width :
             f[d] = IF d = 0 THEN 0 ELSE f[d - 1] * Radix + encodeKey(t)[(k - 1) * Width + d]
      <4>1. \A d \in 0 .. Width : d = 0 \/ d \in 1 .. Width
        BY KeysAssumption
      <4> QED BY <3>1, <3>2, <4>1
    <3>4. f = [d \in 0 .. Width |-> f[d]]
      BY <2>2
    <3> QED BY <3>3, <3>4
  <2>4. v = Step(v)
    BY <2>3
  <2>5. readColBe(encodeKey(t), k) = v[Width]
    BY DEF readColBe
  <2>6. \A d \in 0 .. Width : v[d] = f[d]
    <3> DEFINE G == {d \in 0 .. Width : v[d] = f[d]}
    <3>1. \A d \in 0 .. Width :
             v[d] = IF d = 0 THEN 0 ELSE v[d - 1] * Radix + encodeKey(t)[(k - 1) * Width + d]
      <4> HIDE DEF v
      <4> QED BY <2>4
    <3>2. \A d \in 0 .. Width :
             f[d] = IF d = 0 THEN 0 ELSE f[d - 1] * Radix + encodeKey(t)[(k - 1) * Width + d]
      BY <2>3
    <3> HIDE DEF v
    <3>3. 0 \in G
      BY <3>1, <3>2, KeysAssumption
    <3>4. ASSUME NEW d \in 1 .. Width, d - 1 \in G PROVE d \in G
      <4>1. d \in 0 .. Width /\ d # 0
        BY KeysAssumption
      <4> QED BY <3>1, <3>2, <3>4, <4>1
    <3>5. 0 .. Width \subseteq G
      <4>1. Width \in Nat
        BY KeysAssumption
      <4> HIDE DEF G
      <4> QED BY <3>3, <3>4, <4>1, UpTo
    <3> QED BY <3>5
  <2>7. f[Width] = t[k]
    <3>1. HighPart(t[k], Width) = t[k]
      BY <2>1, PartStep
    <3> HIDE DEF HighPart
    <3> QED BY <2>2, <3>1, KeysAssumption
  <2> HIDE DEF v
  <2> QED BY <2>5, <2>6, <2>7, KeysAssumption
<1>2. t = [k \in 1 .. n |-> t[k]]
  BY DEF Tuples
<1> QED BY <1>1, <1>2 DEF readColsBe

(***************************************************************************)
(* The ranks of the tuples of a relation are the numbers below its size,   *)
(* each taken once.                                                        *)
(***************************************************************************)
LEMMA RanksNumberRows ==
    ASSUME NEW n \in Nat, NEW R \in SUBSET Tuples(n), IsFiniteSet(R)
    PROVE  /\ Cardinality(R) \in Nat
           /\ \A t, u \in R : Rank(R, t) = Rank(R, u) => t = u
           /\ \A k \in Nat : k < Cardinality(R) => \E t \in R : Rank(R, t) = k
<1> DEFINE Under(t) == {u \in R : Smaller(u, t)}
<1>1. Cardinality(R) \in Nat
  BY FS_CardinalityType
<1>2. ASSUME NEW t \in R PROVE IsFiniteSet(Under(t)) /\ Rank(R, t) = Cardinality(Under(t)) /\ Rank(R, t) \in Nat
  <2>1. IsFiniteSet(Under(t))
    BY FS_Subset
  <2>2. Rank(R, t) = Cardinality(Under(t))
    BY DEF Rank
  <2> QED BY <2>1, <2>2, FS_CardinalityType
<1>3. ASSUME NEW t \in R PROVE ~ Smaller(t, t)
  BY DEF Smaller, Tuples, ColumnValues
<1>4. ASSUME NEW t \in R, NEW u \in R, Smaller(t, u) PROVE Rank(R, t) < Rank(R, u)
  <2>1. Under(t) \in SUBSET Under(u)
    <3>1. ASSUME NEW v \in R, Smaller(v, t) PROVE Smaller(v, u)
      <4>1. v \in Tuples(n) /\ t \in Tuples(n) /\ u \in Tuples(n)
        OBVIOUS
      <4> QED BY <1>4, <3>1, <4>1, SmallerBetween
    <3> QED BY <3>1
  <2>2. Under(t) # Under(u)
    BY <1>3, <1>4
  <2>3. Cardinality(Under(t)) <= Cardinality(Under(u)) /\ Cardinality(Under(u)) # Cardinality(Under(t))
    <3> HIDE DEF Under
    <3>1. IsFiniteSet(Under(u))
      BY <1>2
    <3>2. /\ Cardinality(Under(t)) <= Cardinality(Under(u))
          /\ Cardinality(Under(u)) = Cardinality(Under(t)) => Under(u) = Under(t)
      BY <2>1, <3>1, FS_Subset
    <3> QED BY <2>2, <3>2
  <2> HIDE DEF Under
  <2>4. Rank(R, t) = Cardinality(Under(t)) /\ Rank(R, u) = Cardinality(Under(u)) /\ Rank(R, t) \in Nat /\ Rank(R, u) \in Nat
    BY <1>2
  <2> QED BY <2>3, <2>4
<1>5. \A t, u \in R : Rank(R, t) = Rank(R, u) => t = u
  <2> SUFFICES ASSUME NEW t \in R, NEW u \in R, Rank(R, t) = Rank(R, u), t # u PROVE FALSE
    OBVIOUS
  <2>1. Smaller(t, u) \/ Smaller(u, t)
    <3>1. t \in Tuples(n) /\ u \in Tuples(n)
      OBVIOUS
    <3> QED BY <3>1, SmallerTotal
  <2>2. Rank(R, t) < Rank(R, u) \/ Rank(R, u) < Rank(R, t)
    BY <1>4, <2>1
  <2>3. Rank(R, t) \in Nat /\ Rank(R, u) \in Nat
    BY <1>2
  <2> QED BY <2>2, <2>3
<1>6. ASSUME NEW t \in R PROVE Rank(R, t) \in 0 .. Cardinality(R) - 1
  <2>1. IsFiniteSet(R \ {t}) /\ Cardinality(R \ {t}) = Cardinality(R) - 1
    BY FS_RemoveElement
  <2>2. Under(t) \in SUBSET (R \ {t})
    BY <1>3
  <2>3. Cardinality(Under(t)) <= Cardinality(R \ {t})
    <3> HIDE DEF Under
    <3> QED BY <2>1, <2>2, FS_Subset
  <2>4. Rank(R, t) = Cardinality(Under(t)) /\ Rank(R, t) \in Nat
    BY <1>2
  <2> HIDE DEF Under
  <2>5. Rank(R, t) <= Cardinality(R) - 1
    BY <2>1, <2>3, <2>4
  <2> QED BY <1>1, <2>4, <2>5
<1>7. PICK c \in Nat : c = Cardinality(R)
  BY <1>1
<1>8. PICK N : N = 0 .. c - 1
  OBVIOUS
<1>9. IsFiniteSet(N) /\ Cardinality(N) = c
  <2>1. 0 \in Int /\ c - 1 \in Int
    OBVIOUS
  <2>2. IsFiniteSet(0 .. c - 1) /\ Cardinality(0 .. c - 1) = IF 0 > c - 1 THEN 0 ELSE (c - 1) - 0 + 1
    BY <2>1, FS_Interval
  <2> QED BY <1>8, <2>2
<1>10. PICK f : f = [t \in R |-> Rank(R, t)]
  OBVIOUS
<1>11. f \in [R -> N] /\ \A t, u \in R : f[t] = f[u] => t = u
  BY <1>5, <1>6, <1>7, <1>8, <1>10
<1>12. f \in Injection(R, N)
  BY <1>11 DEF Injection, IsInjective
<1>13. f \in Surjection(R, N)
  BY <1>7, <1>9, <1>12, FS_Injection
<1>14. ASSUME NEW k \in Nat, k < c PROVE \E t \in R : Rank(R, t) = k
  <2>1. k \in N
    BY <1>8, <1>14
  <2>2. PICK t \in R : f[t] = k
    BY <1>13, <2>1 DEF Surjection
  <2> QED BY <1>10, <2>2
<1> QED BY <1>1, <1>5, <1>7, <1>14

(***************************************************************************)
(* Each row has a key of its own.                                          *)
(***************************************************************************)
LEMMA KeyForEachRow ==
    ASSUME NEW n \in Nat, NEW R \in SUBSET Tuples(n), IsFiniteSet(R)
    PROVE  Cardinality(dafsa_build_sorted(R)) = Cardinality(R)
<1> DEFINE f == [u \in R |-> encodeKey(u)]
<1>1. f \in [R -> dafsa_build_sorted(R)] /\ \A z \in dafsa_build_sorted(R) : \E x \in R : f[x] = z
  BY DEF dafsa_build_sorted
<1>2. \A x, y \in R : f[x] = f[y] => x = y
  BY KeysKeepOrder
<1> HIDE DEF f
<1> QED BY <1>1, <1>2, SameSize

(***************************************************************************)
(* A key or a tuple is no refusal.                                         *)
(***************************************************************************)
LEMMA NothingRefused ==
    ASSUME NEW n \in Nat, NEW t \in Tuples(n)
    PROVE  t # Refused /\ encodeKey(t) # Refused
<1>1. t \in Seq(Nat)
  BY DEF Tuples, ColumnValues
<1>2. PICK m \in Nat : m = n * Width + 1
  BY KeysAssumption
<1>3. encodeKey(t) \in [1 .. m -> Digits]
  BY <1>2, KeyShape
<1>4. encodeKey(t) \in Seq(Nat)
  BY <1>3 DEF Digits
<1> QED BY <1>1, <1>4, RefusedAssumption

(***************************************************************************)
(* The tuple read off the key of rank k is the tuple of rank k, and where  *)
(* there are not that many keys there are not that many tuples             *)
(* (dl_select).                                                            *)
(***************************************************************************)
THEOREM SelectsAreExact ==
    ASSUME NEW n \in Nat, NEW R \in SUBSET Tuples(n), IsFiniteSet(R), NEW k \in Nat
    PROVE  /\ rel_select(dafsa_build_sorted(R), n, k) = Select(R, k)
           /\ k < Cardinality(R) => Select(R, k) \in R /\ Rank(R, Select(R, k)) = k
<1>1. PICK D : D = dafsa_build_sorted(R)
  OBVIOUS
<1>2. Cardinality(D) = Cardinality(R) /\ Cardinality(R) \in Nat
  BY <1>1, KeyForEachRow, RanksNumberRows
<1>3. CASE ~ (k < Cardinality(R))
  <2>1. dafsa_select_from(D, k) = Refused
    BY <1>2, <1>3 DEF dafsa_select_from
  <2>2. rel_select(D, n, k) = Refused
    BY <2>1 DEF rel_select
  <2> QED BY <1>1, <1>3, <2>2 DEF Select
<1>4. CASE k < Cardinality(R)
  <2>1. PICK t \in R : Rank(R, t) = k
    BY <1>4, RanksNumberRows
  <2>2. \A u \in R : Rank(R, u) = k => u = t
    BY <2>1, RanksNumberRows
  <2>3. Select(R, k) = t
    <3>1. Select(R, k) = CHOOSE u \in R : Rank(R, u) = k
      BY <1>4 DEF Select
    <3> QED BY <2>1, <2>2, <3>1
  <2>4. \A u \in R : dafsa_rank_from(D, encodeKey(u)) = Rank(R, u)
    <3>1. \A u \in R : u \in Tuples(n) /\ rel_rank(D, u) = Rank(R, u)
      BY <1>1, RanksAreExact
    <3> QED BY <3>1 DEF rel_rank
  <2>5. encodeKey(t) \in D /\ dafsa_rank_from(D, encodeKey(t)) = k
    BY <1>1, <2>1, <2>4 DEF dafsa_build_sorted
  <2>6. \A w \in D : dafsa_rank_from(D, w) = k => w = encodeKey(t)
    BY <1>1, <2>2, <2>4 DEF dafsa_build_sorted
  <2>7. dafsa_select_from(D, k) = encodeKey(t)
    <3>1. dafsa_select_from(D, k) = CHOOSE w \in D : dafsa_rank_from(D, w) = k
      BY <1>2, <1>4 DEF dafsa_select_from
    <3> QED BY <2>5, <2>6, <3>1
  <2>8. t \in Tuples(n)
    OBVIOUS
  <2>9. encodeKey(t) # Refused /\ readColsBe(encodeKey(t), n) = t
    BY <2>8, NothingRefused, KeyReadBack
  <2>10. rel_select(D, n, k) = t
    BY <2>7, <2>9 DEF rel_select
  <2> QED BY <1>1, <2>1, <2>3, <2>10
<1> QED BY <1>3, <1>4

(***************************************************************************)
(* A rank in the order of the index is a rank among the permuted tuples.   *)
(***************************************************************************)
LEMMA RankPermuted ==
    ASSUME NEW n \in Nat, NEW perm \in ColumnOrders(n), NEW R \in SUBSET Tuples(n), IsFiniteSet(R),
           NEW t \in Tuples(n)
    PROVE  RankPerm(R, perm, t) = Rank(permindex_build(R, perm), Permuted(t, perm))
<1>1. PICK P : P = permindex_build(R, perm)
  OBVIOUS
<1>2. P \in SUBSET Tuples(n) /\ IsFiniteSet(P) /\ Permuted(t, perm) \in Tuples(n)
  BY <1>1, PermutedRows, PermutedTuple
<1>3. dl_rank_perm(dafsa_build_sorted(P), perm, t) = RankPerm(R, perm, t)
  BY <1>1, PermutedRanksAreExact
<1>4. dl_rank_perm(dafsa_build_sorted(P), perm, t) = Rank(P, Permuted(t, perm))
  BY <1>2, RanksAreExact DEF dl_rank_perm
<1> QED BY <1>1, <1>3, <1>4

(***************************************************************************)
(* Undoing a permutation of the columns.                                   *)
(***************************************************************************)
LEMMA UnpermutedTuple ==
    ASSUME NEW n \in Nat, NEW perm \in ColumnOrders(n), NEW t \in Tuples(n)
    PROVE  unpermute(Permuted(t, perm), perm) = t
<1>1. /\ DOMAIN t = 1 .. n /\ DOMAIN perm = 1 .. n /\ DOMAIN Permuted(t, perm) = 1 .. n
      /\ t = [c \in 1 .. n |-> t[c]]
  BY DEF Tuples, ColumnOrders, Permuted
<1>2. ASSUME NEW c \in 1 .. n
      PROVE  Permuted(t, perm)[CHOOSE j \in DOMAIN perm : perm[j] = c] = t[c]
  <2>1. PICK j : j = CHOOSE i \in DOMAIN perm : perm[i] = c
    OBVIOUS
  <2>2. \E i \in DOMAIN perm : perm[i] = c
    BY <1>1 DEF ColumnOrders
  <2>3. j \in 1 .. n /\ perm[j] = c
    BY <1>1, <2>1, <2>2
  <2>4. Permuted(t, perm)[j] = t[perm[j]]
    BY <1>1, <2>3 DEF Permuted
  <2> QED BY <2>1, <2>3, <2>4
<1> QED BY <1>1, <1>2 DEF unpermute

(***************************************************************************)
(* The tuple selected in the order of the index is the one of that rank in *)
(* the order of the index, in its original columns (dl_select_perm).       *)
(***************************************************************************)
THEOREM PermutedSelectsAreExact ==
    ASSUME NEW n \in Nat, NEW perm \in ColumnOrders(n), NEW R \in SUBSET Tuples(n), IsFiniteSet(R),
           NEW k \in Nat
    PROVE  dl_select_perm(dafsa_build_sorted(permindex_build(R, perm)), perm, k) = SelectPerm(R, perm, k)
<1>1. PICK P : P = permindex_build(R, perm)
  OBVIOUS
<1>2. P \in SUBSET Tuples(n) /\ IsFiniteSet(P) /\ Cardinality(P) = Cardinality(R)
  BY <1>1, PermutedRows, PermutedPart
<1>3. PICK D : D = dafsa_build_sorted(P)
  OBVIOUS
<1>4. /\ rel_select(D, n, k) = Select(P, k)
      /\ k < Cardinality(P) => Select(P, k) \in P /\ Rank(P, Select(P, k)) = k
  BY <1>2, <1>3, SelectsAreExact
<1>5. Len(perm) = n
  BY DEF ColumnOrders
<1>6. CASE ~ (k < Cardinality(R))
  <2>1. rel_select(D, Len(perm), k) = Refused
    BY <1>2, <1>4, <1>5, <1>6 DEF Select
  <2>2. dl_select_perm(D, perm, k) = Refused
    BY <2>1 DEF dl_select_perm
  <2> QED BY <1>1, <1>3, <1>6, <2>2 DEF SelectPerm
<1>7. CASE k < Cardinality(R)
  <2>1. PICK p \in P : p = rel_select(D, Len(perm), k) /\ Rank(P, p) = k
    BY <1>2, <1>4, <1>5, <1>7
  <2>2. PICK t \in R : p = Permuted(t, perm)
    BY <1>1 DEF permindex_build
  <2>3. p # Refused
    <3>1. p \in Tuples(n)
      BY <1>2
    <3> QED BY <3>1, NothingRefused
  <2>4. dl_select_perm(D, perm, k) = t
    <3>1. unpermute(p, perm) = t
      BY <2>2, UnpermutedTuple
    <3> QED BY <2>1, <2>3, <3>1 DEF dl_select_perm
  <2>5. \A u \in R : RankPerm(R, perm, u) = Rank(P, Permuted(u, perm)) /\ Permuted(u, perm) \in P
    BY <1>1, RankPermuted DEF permindex_build
  <2>6. RankPerm(R, perm, t) = k
    BY <2>1, <2>2, <2>5
  <2>7. ASSUME NEW u \in R, RankPerm(R, perm, u) = k PROVE u = t
    <3>1. Rank(P, Permuted(u, perm)) = Rank(P, p) /\ Permuted(u, perm) \in P
      BY <2>1, <2>5, <2>7
    <3>2. Permuted(u, perm) = Permuted(t, perm)
      BY <1>2, <2>2, <3>1, RanksNumberRows
    <3>3. u \in Tuples(n) /\ t \in Tuples(n)
      OBVIOUS
    <3> QED BY <3>2, <3>3, PermutedTuple
  <2>8. SelectPerm(R, perm, k) = t
    <3>1. SelectPerm(R, perm, k) = CHOOSE u \in R : RankPerm(R, perm, u) = k
      BY <1>7 DEF SelectPerm
    <3> QED BY <2>6, <2>7, <3>1
  <2> QED BY <1>1, <1>3, <2>4, <2>8
<1> QED BY <1>6, <1>7

-----------------------------------------------------------------------------
(***************************************************************************)
(* The columns of a prefix as a word of digits.                            *)
(***************************************************************************)
LEMMA ColumnsShape ==
    ASSUME NEW n \in Nat, NEW t \in Tuples(n)
    PROVE  /\ n * Width \in Nat
           /\ encodeCols(t) \in [1 .. n * Width -> Digits]
           /\ \A k \in 1 .. n, d \in 1 .. Width :
                 encodeCols(t)[(k - 1) * Width + d] = encodeCol(t[k])[d]
<1> DEFINE s == [i \in DOMAIN t |-> encodeCol(t[i])]
<1>1. DOMAIN t = 1 .. n /\ \A i \in 1 .. n : t[i] \in Nat
  BY DEF Tuples, ColumnValues
<1>2. s \in EncodedColumns(n) /\ \A i \in 1 .. n : s[i] = encodeCol(t[i])
  BY <1>1, PartStep DEF EncodedColumns
<1>3. encodeCols(t) = FlattenSeq(s)
  BY DEF encodeCols
<1>4. n * Width \in Nat
  BY KeysAssumption
<1> HIDE DEF s
<1> QED BY <1>2, <1>3, <1>4, Flattened

(***************************************************************************)
(* Two values with the same digits are the same.                           *)
(***************************************************************************)
LEMMA SameDigits ==
    ASSUME NEW v \in ColumnValues, NEW w \in ColumnValues,
           \A d \in 1 .. Width : encodeCol(v)[d] = encodeCol(w)[d]
    PROVE  v = w
<1>1. v \in Nat /\ w \in Nat
  BY DEF ColumnValues
<1>2. \A d \in 1 .. Width : /\ encodeCol(v)[d] \in Int /\ encodeCol(w)[d] \in Int
  <2>1. Digits \subseteq Int
    BY DEF Digits
  <2>2. encodeCol(v) \in [1 .. Width -> Digits] /\ encodeCol(w) \in [1 .. Width -> Digits]
    BY <1>1, PartStep
  <2> QED BY <2>1, <2>2
<1>3. CASE v < w
  BY <1>2, <1>3, DigitsOrder
<1>4. CASE w < v
  BY <1>2, <1>4, DigitsOrder
<1> QED BY <1>1, <1>3, <1>4

(***************************************************************************)
(* A tuple and its first k columns; the others are the suffix.             *)
(***************************************************************************)
LEMMA PrefixColumns ==
    ASSUME NEW n \in Nat, NEW k \in 0 .. n, NEW lead \in Tuples(k), NEW t \in Tuples(n)
    PROVE  /\ IsPrefix(lead, t) <=> \A i \in 1 .. k : t[i] = lead[i]
           /\ Len(lead) = k /\ Len(t) = n
           /\ Suffix(t, k) \in Tuples(n - k)
           /\ \A i \in 1 .. n - k : Suffix(t, k)[i] = t[k + i]
<1>1. lead \in Seq(ColumnValues) /\ t \in Seq(ColumnValues) /\ Len(lead) = k /\ Len(t) = n
  BY DEF Tuples
<1>2. PICK a : a = SubSeq(t, 1, k)
  OBVIOUS
<1>3. a \in Seq(ColumnValues) /\ Len(a) = k /\ \A i \in 1 .. k : a[i] = t[i]
  BY <1>1, <1>2
<1>4. PICK b : b = SubSeq(lead, 1, k)
  OBVIOUS
<1>5. b \in Seq(ColumnValues) /\ Len(b) = k /\ \A i \in 1 .. k : b[i] = lead[i]
  BY <1>1, <1>4
<1>6. a = b <=> \A i \in 1 .. k : t[i] = lead[i]
  <2>1. a \in [1 .. k -> ColumnValues] /\ b \in [1 .. k -> ColumnValues]
    BY <1>3, <1>5
  <2> QED BY <1>3, <1>5, <2>1
<1>7. IsPrefix(lead, t) <=> b = a
  BY <1>1, <1>2, <1>4 DEF IsPrefix
<1>8. PICK c : c = Suffix(t, k)
  OBVIOUS
<1>9. c \in Seq(ColumnValues) /\ Len(c) = n - k /\ \A i \in 1 .. n - k : c[i] = t[k + i]
  <2>1. c = SubSeq(t, k + 1, n)
    BY <1>1, <1>8 DEF Suffix
  <2> QED BY <1>1, <2>1
<1>10. c \in Tuples(n - k)
  BY <1>9 DEF Tuples
<1> QED BY <1>1, <1>6, <1>7, <1>8, <1>9, <1>10

(***************************************************************************)
(* Taking one step in the automaton takes the first digit off the rest of  *)
(* a word.                                                                 *)
(***************************************************************************)
LEMMA RestOfWord ==
    ASSUME NEW m \in Nat, NEW w \in [1 .. m -> Digits], NEW j \in 1 .. m
    PROVE  /\ SubSeq(w, j, m) # <<>> /\ SubSeq(w, j, m)[1] = w[j]
           /\ Tail(SubSeq(w, j, m)) = SubSeq(w, j + 1, m)
           /\ SubSeq(w, 1, m) = w
<1>1. PICK x \in Seq(Digits) : x = w /\ Len(x) = m
  OBVIOUS
<1>2. SubSeq(x, 1, Len(x)) = x
  BY SubSeqFull
<1>3. PICK r : r = SubSeq(x, j, m)
  OBVIOUS
<1>4. r \in Seq(Digits) /\ Len(r) = m - j + 1 /\ \A i \in 1 .. m - j + 1 : r[i] = x[j + i - 1]
  BY <1>1, <1>3
<1>5. r # <<>> /\ r[1] = x[j]
  BY <1>4
<1>6. Tail(r) = SubSeq(x, j + 1, m)
  <2>1. PICK a : a = Tail(r)
    OBVIOUS
  <2>2. a \in Seq(Digits) /\ Len(a) = m - j /\ \A i \in 1 .. m - j : a[i] = r[i + 1]
    BY <1>4, <1>5, <2>1
  <2>3. PICK b : b = SubSeq(x, j + 1, m)
    OBVIOUS
  <2>4. b \in Seq(Digits) /\ Len(b) = m - j /\ \A i \in 1 .. m - j : b[i] = x[j + i]
    BY <1>1, <2>3
  <2>5. \A i \in 1 .. m - j : a[i] = b[i]
    <3> SUFFICES ASSUME NEW i \in 1 .. m - j PROVE a[i] = b[i]
      OBVIOUS
    <3>1. i + 1 \in 1 .. m - j + 1 /\ j + (i + 1) - 1 = j + i
      OBVIOUS
    <3> QED BY <1>4, <2>2, <2>4, <3>1
  <2>6. a = [i \in 1 .. m - j |-> a[i]] /\ b = [i \in 1 .. m - j |-> b[i]]
    BY <2>2, <2>4
  <2>7. a = b
    BY <2>5, <2>6
  <2> QED BY <2>1, <2>3, <2>7
<1> QED BY <1>1, <1>2, <1>3, <1>5, <1>6

(***************************************************************************)
(* The state a word leads to holds what is left of the keys that start     *)
(* with it.                                                                *)
(***************************************************************************)
Left(D, m, p, j) == {SubSeq(w, j + 1, m) : w \in {x \in D : \A i \in 1 .. j : x[i] = p[i]}}

\* One more digit is one transition.
LEMMA LeftStep ==
    ASSUME NEW m \in Nat, NEW D \in SUBSET [1 .. m -> Digits], NEW p, NEW j \in 1 .. m
    PROVE  Left(D, m, p, j) = trans_find(Left(D, m, p, j - 1), p[j])
<1> DEFINE A == {x \in D : \A i \in 1 .. j : x[i] = p[i]}
           B == {x \in D : \A i \in 1 .. j - 1 : x[i] = p[i]}
<1>1. \A x \in D : x \in A <=> x \in B /\ x[j] = p[j]
  OBVIOUS
<1>2. \A w \in D : /\ SubSeq(w, j, m) # <<>> /\ SubSeq(w, j, m)[1] = w[j]
                   /\ Tail(SubSeq(w, j, m)) = SubSeq(w, j + 1, m)
  BY RestOfWord
<1>3. Left(D, m, p, j) = {SubSeq(w, j + 1, m) : w \in A} /\ A \subseteq D
  BY DEF Left
<1>4. Left(D, m, p, j - 1) = {SubSeq(w, j, m) : w \in B} /\ B \subseteq D
  <2>1. (j - 1) + 1 = j
    OBVIOUS
  <2> QED BY <2>1 DEF Left
<1> HIDE DEF A, B
<1>5. trans_find({SubSeq(w, j, m) : w \in B}, p[j]) = {SubSeq(w, j + 1, m) : w \in A}
  <2>1. ASSUME NEW y, y \in trans_find({SubSeq(w, j, m) : w \in B}, p[j])
        PROVE  y \in {SubSeq(w, j + 1, m) : w \in A}
    <3>1. PICK w \in B : y = Tail(SubSeq(w, j, m)) /\ SubSeq(w, j, m)[1] = p[j]
      BY <2>1 DEF trans_find
    <3>2. w \in A /\ y = SubSeq(w, j + 1, m)
      BY <1>1, <1>2, <1>4, <3>1
    <3> QED BY <3>2
  <2>2. ASSUME NEW w \in A
        PROVE  SubSeq(w, j + 1, m) \in trans_find({SubSeq(x, j, m) : x \in B}, p[j])
    <3>1. w \in D /\ w \in B /\ w[j] = p[j]
      BY <1>1, <1>3
    <3>2. PICK v : v = SubSeq(w, j, m)
      OBVIOUS
    <3>3. v \in {SubSeq(x, j, m) : x \in B} /\ v # <<>> /\ v[1] = p[j] /\ Tail(v) = SubSeq(w, j + 1, m)
      BY <1>2, <3>1, <3>2
    <3> QED BY <3>3 DEF trans_find
  <2> QED BY <2>1, <2>2
<1> QED BY <1>3, <1>4, <1>5

\* rel_prefix_state comes to what is left after the bound columns.
LEMMA StateReached ==
    ASSUME NEW m \in Nat, NEW D \in SUBSET [1 .. m -> Digits], NEW k \in Nat, NEW lead \in Tuples(k),
           k * Width <= m
    PROVE  rel_prefix_state(D, lead) = Left(D, m, encodeCols(lead), k * Width)
<1>1. PICK q \in Nat : q = k * Width
  BY ColumnsShape
<1>2. PICK p \in [1 .. q -> Digits] : p = encodeCols(lead)
  BY <1>1, ColumnsShape
<1>3. Len(p) = q
  OBVIOUS
<1> DEFINE Step(s) == [j \in 0 .. q |-> IF j = 0 THEN D ELSE trans_find(s[j - 1], p[j])]
           v == CHOOSE s : s = Step(s)
<1>4. rel_prefix_state(D, lead) = v[q]
  BY <1>2, <1>3 DEF rel_prefix_state
<1>5. PICK f : f = [j \in 0 .. q |-> Left(D, m, p, j)]
  OBVIOUS
<1>6. Left(D, m, p, 0) = D
  <2>1. Left(D, m, p, 0) = {SubSeq(w, 1, m) : w \in D}
    BY DEF Left
  <2>2. \A w \in D : SubSeq(w, 1, m) = w
    <3>1. CASE m = 0
      <4> SUFFICES ASSUME NEW w \in D PROVE SubSeq(w, 1, m) = w
        OBVIOUS
      <4>1. w \in Seq(Digits) /\ Len(w) = 0
        BY <3>1
      <4>2. SubSeq(w, 1, Len(w)) = w
        BY <4>1, SubSeqFull
      <4> QED BY <3>1, <4>1, <4>2
    <3>2. CASE m # 0
      <4>1. 1 \in 1 .. m
        BY <3>2
      <4> QED BY <4>1, RestOfWord
    <3> QED BY <3>1, <3>2
  <2> QED BY <2>1, <2>2
<1>7. \A j \in 1 .. q : Left(D, m, p, j) = trans_find(Left(D, m, p, j - 1), p[j])
  <2>1. \A j \in 1 .. q : j \in 1 .. m
    BY <1>1
  <2> QED BY <2>1, LeftStep
<1>8. f = Step(f)
  <2>1. \A j \in 0 .. q : f[j] = IF j = 0 THEN D ELSE trans_find(f[j - 1], p[j])
    <3>1. \A j \in 0 .. q : j = 0 \/ (j \in 1 .. q /\ j - 1 \in 0 .. q)
      OBVIOUS
    <3> QED BY <1>5, <1>6, <1>7, <3>1
  <2>2. f = [j \in 0 .. q |-> f[j]]
    BY <1>5
  <2> QED BY <2>1, <2>2
<1>9. v = Step(v)
  BY <1>8
<1>10. \A j \in 0 .. q : v[j] = f[j]
  <2> DEFINE G == {j \in 0 .. q : v[j] = f[j]}
  <2>1. \A j \in 0 .. q : v[j] = IF j = 0 THEN D ELSE trans_find(v[j - 1], p[j])
    <3> HIDE DEF v
    <3> QED BY <1>9
  <2> HIDE DEF v
  <2>2. 0 \in G
    BY <1>5, <1>6, <2>1
  <2>3. ASSUME NEW j \in 1 .. q, j - 1 \in G PROVE j \in G
    <3>1. j \in 0 .. q /\ j - 1 \in 0 .. q /\ j # 0
      OBVIOUS
    <3> QED BY <1>5, <1>7, <2>1, <2>3, <3>1
  <2>4. 0 .. q \subseteq G
    <3> HIDE DEF G
    <3> QED BY <2>2, <2>3, UpTo
  <2> QED BY <2>4
<1> HIDE DEF v
<1>11. v[q] = Left(D, m, p, q)
  BY <1>5, <1>10
<1> QED BY <1>1, <1>2, <1>4, <1>11

(***************************************************************************)
(* The last digit of a key.                                                *)
(***************************************************************************)
LEMMA KeyCloses ==
    ASSUME NEW n \in Nat, NEW t \in Tuples(n)
    PROVE  encodeKey(t)[n * Width + 1] = 0
<1>1. PICK a \in Nat : a = n * Width
  BY ColumnsShape
<1>2. PICK x \in [1 .. a -> Digits] : x = encodeCols(t)
  BY <1>1, ColumnsShape
<1>3. PICK y \in [1 .. 1 -> Digits] : y = <<0>>
  <2>1. 0 \in Digits
    BY KeysAssumption DEF Digits
  <2>2. <<0>> \in [1 .. 1 -> Digits]
    BY <2>1
  <2> QED BY <2>2
<1>4. 1 \in Nat /\ 1 \in 1 .. 1 /\ y[1] = 0
  BY <1>3
<1>5. (x \o y)[a + 1] = y[1]
  BY <1>4, JoinedBlocks
<1> QED BY <1>1, <1>2, <1>3, <1>4, <1>5 DEF encodeKey

(***************************************************************************)
(* The key of a tuple starts with the word of its first columns, and with  *)
(* that of no other columns; the rest is the key of the suffix.            *)
(***************************************************************************)
LEMMA KeySplits ==
    ASSUME NEW n \in Nat, NEW k \in 0 .. n, NEW lead \in Tuples(k), NEW t \in Tuples(n)
    PROVE  /\ k * Width \in 0 .. n * Width
           /\ (\A j \in 1 .. k * Width : encodeKey(t)[j] = encodeCols(lead)[j]) <=> IsPrefix(lead, t)
           /\ SubSeq(encodeKey(t), k * Width + 1, n * Width + 1) = encodeKey(Suffix(t, k))
<1>1. PICK q \in Nat, a \in Nat : q = k * Width /\ a = n * Width /\ q <= a
  <2>1. Width * k <= Width * n /\ Width * k = k * Width /\ Width * n = n * Width
    BY TimesOrder, KeysAssumption
  <2> QED BY <2>1, KeysAssumption
<1>2. PICK x \in [1 .. a + 1 -> Digits] : x = encodeKey(t)
  BY <1>1, KeyShape
<1>3. PICK p \in [1 .. q -> Digits] : p = encodeCols(lead)
  BY <1>1, ColumnsShape
<1>4. \A i \in 1 .. k : lead[i] \in ColumnValues /\ t[i] \in ColumnValues /\ i \in 1 .. n
  BY DEF Tuples
<1>5. ASSUME \A j \in 1 .. q : x[j] = p[j], NEW i \in 1 .. k PROVE t[i] = lead[i]
  <2>1. ASSUME NEW d \in 1 .. Width PROVE encodeCol(t[i])[d] = encodeCol(lead[i])[d]
    <3>1. PICK j : j = (i - 1) * Width + d
      OBVIOUS
    <3>2. j \in 1 .. q
      BY <1>1, <3>1, PlaceOf
    <3>3. x[j] = encodeCol(t[i])[d]
      BY <1>2, <1>4, <3>1, KeyShape
    <3>4. p[j] = encodeCol(lead[i])[d]
      BY <1>3, <3>1, ColumnsShape
    <3> QED BY <1>5, <3>2, <3>3, <3>4
  <2> QED BY <1>4, <2>1, SameDigits
<1>6. ASSUME \A i \in 1 .. k : t[i] = lead[i], NEW j \in 1 .. q PROVE x[j] = p[j]
  <2>1. PICK i \in 1 .. k, d \in 1 .. Width : j = (i - 1) * Width + d
    BY <1>1, PlaceOf
  <2>2. x[j] = encodeCol(t[i])[d]
    BY <1>2, <1>4, <2>1, KeyShape
  <2>3. p[j] = encodeCol(lead[i])[d]
    BY <1>3, <2>1, ColumnsShape
  <2> QED BY <1>6, <2>2, <2>3
<1>7. (\A j \in 1 .. q : x[j] = p[j]) <=> IsPrefix(lead, t)
  <2>1. IsPrefix(lead, t) <=> \A i \in 1 .. k : t[i] = lead[i]
    BY PrefixColumns
  <2> QED BY <1>5, <1>6, <2>1
<1>8. PICK c : c = n - k
  OBVIOUS
<1>9. c \in Nat /\ c * Width = a - q
  <2>1. (n - k) * Width = n * Width - k * Width
    BY KeysAssumption
  <2> QED BY <1>1, <1>8, <2>1
<1>10. PICK b \in Nat : b = a - q /\ b = c * Width
  BY <1>1, <1>9
<1>11. PICK u \in Tuples(c) : u = Suffix(t, k) /\ \A i \in 1 .. c : u[i] = t[k + i]
  BY <1>8, PrefixColumns
<1>12. PICK y \in [1 .. b + 1 -> Digits] : y = encodeKey(u)
  BY <1>9, <1>10, KeyShape
<1>13. ASSUME NEW j \in 1 .. b + 1 PROVE x[q + j] = y[j]
  <2>1. CASE j = b + 1
    <3>1. y[b + 1] = 0
      BY <1>9, <1>10, <1>12, KeyCloses
    <3>2. x[a + 1] = 0
      BY <1>1, <1>2, KeyCloses
    <3>3. q + j = a + 1
      BY <1>1, <1>10, <2>1
    <3> QED BY <2>1, <3>1, <3>2, <3>3
  <2>2. CASE j # b + 1
    <3>1. j \in 1 .. c * Width
      BY <1>10, <2>2
    <3>2. PICK i \in 1 .. c, d \in 1 .. Width : j = (i - 1) * Width + d
      BY <1>9, <3>1, PlaceOf
    <3>3. y[j] = encodeCol(u[i])[d]
      BY <1>9, <1>12, <3>2, KeyShape
    <3>4. PICK e : e = k + i
      OBVIOUS
    <3>5. e \in 1 .. n /\ u[i] = t[e]
      BY <1>8, <1>11, <3>4
    <3>6. q + j = (e - 1) * Width + d
      <4>1. ((k + i) - 1) * Width = k * Width + (i - 1) * Width
        BY KeysAssumption
      <4>2. PICK g \in Nat : g = (i - 1) * Width
        BY KeysAssumption
      <4> QED BY <1>1, <3>2, <3>4, <4>1, <4>2, KeysAssumption
    <3>7. x[(e - 1) * Width + d] = encodeCol(t[e])[d]
      BY <1>2, <3>5, KeyShape
    <3> QED BY <3>3, <3>5, <3>6, <3>7
  <2> QED BY <2>1, <2>2
<1>14. SubSeq(x, q + 1, a + 1) = y
  <2>1. PICK z : z = SubSeq(x, q + 1, a + 1)
    OBVIOUS
  <2>2. x \in Seq(Digits) /\ Len(x) = a + 1
    OBVIOUS
  <2>3. z \in Seq(Digits) /\ Len(z) = b + 1 /\ \A j \in 1 .. b + 1 : z[j] = x[q + j]
    <3>1. PICK lo \in Nat, hi \in Nat : lo = q + 1 /\ hi = a + 1
      OBVIOUS
    <3>2. SubSeq(x, lo, hi) = [i \in 1 .. ((hi - lo) + 1) |-> x[i + lo - 1]]
      BY <2>2, <3>1
    <3>3. (hi - lo) + 1 = b + 1
      BY <1>1, <1>10, <3>1
    <3>4. z = [i \in 1 .. b + 1 |-> x[i + lo - 1]]
      BY <2>1, <3>1, <3>2, <3>3
    <3>5. ASSUME NEW j \in 1 .. b + 1 PROVE z[j] = x[q + j] /\ x[q + j] \in Digits
      <4>1. q <= a /\ b = a - q
        BY <1>1, <1>10
      <4>2. lo = q + 1
        BY <3>1
      <4>3. j + lo - 1 = q + j /\ q + j \in 1 .. a + 1
        BY <4>1, <4>2
      <4>4. z[j] = x[j + lo - 1]
        BY <3>4
      <4>5. x[q + j] \in Digits
        BY <4>3
      <4> QED BY <4>3, <4>4, <4>5
    <3>6. z \in [1 .. b + 1 -> Digits]
      BY <3>4, <3>5
    <3> QED BY <3>5, <3>6
  <2>4. z = [j \in 1 .. b + 1 |-> z[j]] /\ y = [j \in 1 .. b + 1 |-> y[j]]
    BY <2>3
  <2>5. z = y
    BY <1>13, <2>3, <2>4
  <2> QED BY <2>1, <2>5
<1> QED BY <1>1, <1>2, <1>3, <1>7, <1>11, <1>12, <1>14

(***************************************************************************)
(* The state that the bound columns lead to is the automaton of the        *)
(* suffixes of the tuples under them (rel_prefix_state).                   *)
(***************************************************************************)
THEOREM PrefixStateIsExact ==
    ASSUME NEW n \in Nat, NEW k \in 0 .. n, NEW lead \in Tuples(k), NEW R \in SUBSET Tuples(n)
    PROVE  rel_prefix_state(dafsa_build_sorted(R), lead)
             = dafsa_build_sorted({Suffix(t, k) : t \in Bound(R, lead)})
<1>1. PICK q \in Nat, m \in Nat : q = k * Width /\ m = n * Width + 1 /\ q <= m
  <2>1. k * Width \in Nat /\ n * Width \in Nat /\ Width * k <= Width * n
        /\ Width * k = k * Width /\ Width * n = n * Width
    BY TimesOrder, KeysAssumption
  <2> QED BY <2>1
<1>2. PICK D : D = dafsa_build_sorted(R)
  OBVIOUS
<1>3. D \in SUBSET [1 .. m -> Digits] /\ \A t \in R : encodeKey(t) \in D
  <2>1. \A t \in R : encodeKey(t) \in [1 .. m -> Digits]
    BY <1>1, KeyShape
  <2> QED BY <1>2, <2>1 DEF dafsa_build_sorted
<1>4. rel_prefix_state(D, lead) = Left(D, m, encodeCols(lead), q)
  BY <1>1, <1>3, StateReached
<1>5. \A t \in R : /\ (\A j \in 1 .. q : encodeKey(t)[j] = encodeCols(lead)[j]) <=> IsPrefix(lead, t)
                   /\ SubSeq(encodeKey(t), q + 1, m) = encodeKey(Suffix(t, k))
  BY <1>1, KeySplits
<1>6. Left(D, m, encodeCols(lead), q)
        = {SubSeq(encodeKey(t), q + 1, m) : t \in {u \in R : \A j \in 1 .. q : encodeKey(u)[j] = encodeCols(lead)[j]}}
  BY <1>2 DEF Left, dafsa_build_sorted
<1>7. {SubSeq(encodeKey(t), q + 1, m) : t \in {u \in R : \A j \in 1 .. q : encodeKey(u)[j] = encodeCols(lead)[j]}}
        = {encodeKey(Suffix(t, k)) : t \in Bound(R, lead)}
  <2>1. {u \in R : \A j \in 1 .. q : encodeKey(u)[j] = encodeCols(lead)[j]} = Bound(R, lead)
    BY <1>5 DEF Bound
  <2>2. \A t \in Bound(R, lead) : SubSeq(encodeKey(t), q + 1, m) = encodeKey(Suffix(t, k))
    BY <1>5 DEF Bound
  <2> QED BY <2>1, <2>2
<1>8. {encodeKey(Suffix(t, k)) : t \in Bound(R, lead)} = dafsa_build_sorted({Suffix(t, k) : t \in Bound(R, lead)})
  BY DEF dafsa_build_sorted
<1> QED BY <1>2, <1>4, <1>6, <1>7, <1>8

(***************************************************************************)
(* Under bound columns the order is that of the suffixes, and a tuple is   *)
(* its bound columns followed by its suffix.                               *)
(***************************************************************************)
LEMMA SuffixOrder ==
    ASSUME NEW n \in Nat, NEW k \in 0 .. n, NEW lead \in Tuples(k),
           NEW t \in Tuples(n), NEW u \in Tuples(n), IsPrefix(lead, t), IsPrefix(lead, u)
    PROVE  /\ Smaller(t, u) <=> Smaller(Suffix(t, k), Suffix(u, k))
           /\ Suffix(t, k) = Suffix(u, k) => t = u
           /\ lead \o Suffix(t, k) = t
<1>1. PICK c \in Nat : c = n - k /\ n = k + c
  <2>1. n - k \in Nat /\ n = k + (n - k)
    OBVIOUS
  <2> QED BY <2>1
<1>2. PICK a \in Tuples(c) : a = Suffix(t, k) /\ \A i \in 1 .. c : a[i] = t[k + i]
  BY <1>1, PrefixColumns
<1>3. PICK b \in Tuples(c) : b = Suffix(u, k) /\ \A i \in 1 .. c : b[i] = u[k + i]
  BY <1>1, PrefixColumns
<1>4. (\A i \in 1 .. k : t[i] = lead[i]) /\ (\A i \in 1 .. k : u[i] = lead[i])
  BY PrefixColumns
<1>5. /\ DOMAIN t = 1 .. n /\ DOMAIN a = 1 .. c /\ DOMAIN b = 1 .. c /\ k \in Nat
      /\ \A i \in 1 .. n : t[i] \in Nat /\ u[i] \in Nat
  BY DEF Tuples, ColumnValues
<1>6. ASSUME Smaller(t, u) PROVE Smaller(a, b)
  <2>1. PICK i \in 1 .. n : t[i] < u[i] /\ \A j \in 1 .. (i - 1) : t[j] = u[j]
    BY <1>5, <1>6 DEF Smaller
  <2>2. i \notin 1 .. k
    <3>1. t[i] # u[i]
      BY <1>5, <2>1
    <3> QED BY <1>4, <3>1
  <2>3. PICK e \in 1 .. c : i = k + e
    <3>1. i - k \in 1 .. c /\ i = k + (i - k)
      BY <1>1, <1>5, <2>2
    <3> QED BY <3>1
  <2>4. a[e] < b[e]
    BY <1>2, <1>3, <2>1, <2>3
  <2>5. ASSUME NEW j \in 1 .. (e - 1) PROVE a[j] = b[j]
    <3>1. j \in 1 .. c /\ k + j \in 1 .. (i - 1)
      BY <1>5, <2>3
    <3> QED BY <1>2, <1>3, <2>1, <3>1
  <2> QED BY <1>5, <2>4, <2>5 DEF Smaller
<1>7. ASSUME Smaller(a, b) PROVE Smaller(t, u)
  <2>1. PICK e \in 1 .. c : a[e] < b[e] /\ \A j \in 1 .. (e - 1) : a[j] = b[j]
    BY <1>5, <1>7 DEF Smaller
  <2>2. PICK i \in 1 .. n : i = k + e
    BY <1>1, <1>5
  <2>3. t[i] < u[i]
    BY <1>2, <1>3, <2>1, <2>2
  <2>4. ASSUME NEW j \in 1 .. (i - 1) PROVE t[j] = u[j]
    <3>1. CASE j \in 1 .. k
      BY <1>4, <3>1
    <3>2. CASE j \notin 1 .. k
      <4>1. PICK f \in 1 .. (e - 1) : j = k + f
        <5>1. j - k \in 1 .. (e - 1) /\ j = k + (j - k)
          BY <1>5, <2>2, <3>2
        <5> QED BY <5>1
      <4>2. f \in 1 .. c
        BY <1>1
      <4> QED BY <1>2, <1>3, <2>1, <4>1, <4>2
    <3> QED BY <3>1, <3>2
  <2> QED BY <1>5, <2>2, <2>3, <2>4 DEF Smaller
<1>8. ASSUME NEW i \in 1 .. n, i \notin 1 .. k PROVE i - k \in 1 .. c /\ k + (i - k) = i
  BY <1>1, <1>5, <1>8
<1>9. ASSUME a = b PROVE t = u
  <2>1. ASSUME NEW i \in 1 .. n PROVE t[i] = u[i]
    <3>1. CASE i \in 1 .. k
      BY <1>4, <3>1
    <3>2. CASE i \notin 1 .. k
      BY <1>2, <1>3, <1>8, <1>9, <3>2
    <3> QED BY <3>1, <3>2
  <2>2. t = [i \in 1 .. n |-> t[i]] /\ u = [i \in 1 .. n |-> u[i]]
    BY DEF Tuples
  <2> QED BY <2>1, <2>2
<1>10. lead \o a = t
  <2>1. lead \in [1 .. k -> ColumnValues] /\ a \in [1 .. c -> ColumnValues]
    BY DEF Tuples
  <2>2. PICK w : w = lead \o a
    OBVIOUS
  <2>3. /\ w \in Seq(ColumnValues) /\ Len(w) = n
        /\ \A i \in 1 .. n : w[i] = IF i <= k THEN lead[i] ELSE a[i - k]
    <3>1. lead \in Seq(ColumnValues) /\ Len(lead) = k /\ a \in Seq(ColumnValues) /\ Len(a) = c
      BY <1>5, <2>1
    <3>2. w \in Seq(ColumnValues) /\ Len(w) = Len(lead) + Len(a)
      BY <2>2, <3>1, ConcatProperties
    <3>3. \A i \in 1 .. Len(lead) + Len(a) :
             w[i] = IF i <= Len(lead) THEN lead[i] ELSE a[i - Len(lead)]
      BY <2>2, <3>1, ConcatProperties
    <3> QED BY <1>1, <3>1, <3>2, <3>3
  <2>4. ASSUME NEW i \in 1 .. n PROVE w[i] = t[i]
    <3>1. CASE i \in 1 .. k
      BY <1>4, <2>3, <3>1
    <3>2. CASE i \notin 1 .. k
      <4>1. ~ (i <= k)
        BY <1>5, <3>2
      <4>2. w[i] = a[i - k]
        BY <2>3, <4>1
      <4> QED BY <1>2, <1>8, <3>2, <4>2
    <3> QED BY <3>1, <3>2
  <2>5. w = [i \in 1 .. n |-> w[i]] /\ t = [i \in 1 .. n |-> t[i]]
    BY <2>3 DEF Tuples
  <2> QED BY <2>2, <2>4, <2>5
<1> QED BY <1>2, <1>3, <1>6, <1>7, <1>9, <1>10

(***************************************************************************)
(* The suffixes of the tuples under bound columns.                         *)
(***************************************************************************)
RestsOf(B, k) == {Suffix(t, k) : t \in B}

\* There are as many suffixes as tuples, and they have the same ranks.
LEMMA SuffixRanks ==
    ASSUME NEW n \in Nat, NEW k \in 0 .. n, NEW lead \in Tuples(k), NEW R \in SUBSET Tuples(n),
           IsFiniteSet(R), NEW B, B = Bound(R, lead)
    PROVE  /\ B \in SUBSET Tuples(n) /\ IsFiniteSet(B)
           /\ n - k \in Nat /\ RestsOf(B, k) \in SUBSET Tuples(n - k) /\ IsFiniteSet(RestsOf(B, k))
           /\ Cardinality(RestsOf(B, k)) = Cardinality(B)
           /\ \A t \in Tuples(n) : IsPrefix(lead, t) =>
                 Rank(RestsOf(B, k), Suffix(t, k)) = Rank(B, t)
<1>1. B \in SUBSET R /\ B \in SUBSET Tuples(n) /\ \A t \in B : IsPrefix(lead, t)
  BY DEF Bound
<1>2. IsFiniteSet(B)
  BY <1>1, FS_Subset
<1>3. n - k \in Nat /\ RestsOf(B, k) \in SUBSET Tuples(n - k)
  <2>1. \A t \in Tuples(n) : Suffix(t, k) \in Tuples(n - k)
    BY PrefixColumns
  <2> QED BY <1>1, <2>1 DEF RestsOf
<1>4. \A t, u \in Tuples(n) : IsPrefix(lead, t) /\ IsPrefix(lead, u) =>
         /\ Smaller(t, u) <=> Smaller(Suffix(t, k), Suffix(u, k))
         /\ Suffix(t, k) = Suffix(u, k) => t = u
  BY SuffixOrder
<1>5. IsFiniteSet(RestsOf(B, k)) /\ Cardinality(RestsOf(B, k)) = Cardinality(B)
  <2> DEFINE f == [t \in B |-> Suffix(t, k)]
  <2>1. f \in [B -> RestsOf(B, k)] /\ \A z \in RestsOf(B, k) : \E x \in B : f[x] = z
    BY DEF RestsOf
  <2>2. \A x, y \in B : f[x] = f[y] => x = y
    BY <1>1, <1>4
  <2> HIDE DEF f
  <2> QED BY <1>2, <2>1, <2>2, SameSize
<1>6. ASSUME NEW t \in Tuples(n), IsPrefix(lead, t)
      PROVE  Rank(RestsOf(B, k), Suffix(t, k)) = Rank(B, t)
  <2> DEFINE S == {u \in B : Smaller(u, t)}
             T == {p \in RestsOf(B, k) : Smaller(p, Suffix(t, k))}
             f == [u \in S |-> Suffix(u, k)]
  <2>1. IsFiniteSet(S)
    BY <1>2, FS_Subset
  <2>2. \A u \in B : Smaller(u, t) <=> Smaller(Suffix(u, k), Suffix(t, k))
    BY <1>1, <1>4, <1>6
  <2>3. T = {Suffix(u, k) : u \in S}
    BY <2>2 DEF RestsOf
  <2>4. f \in [S -> T] /\ \A z \in T : \E x \in S : f[x] = z
    BY <2>3
  <2>5. \A x, y \in S : f[x] = f[y] => x = y
    BY <1>1, <1>4
  <2> HIDE DEF S, T, f
  <2>6. Cardinality(T) = Cardinality(S)
    BY <2>1, <2>4, <2>5, SameSize
  <2> QED BY <2>6 DEF S, T, Rank
<1> QED BY <1>1, <1>2, <1>3, <1>5, <1>6

(***************************************************************************)
(* Order statistics under bound leading columns are those of the tuples    *)
(* under them: the walk to the state of the bound columns and the count    *)
(* from there sees all of that part of the relation and no more, also      *)
(* where it is empty or every column is bound (dl_rank_bound,              *)
(* dl_select_bound, dl_range_count_bound).                                 *)
(***************************************************************************)
THEOREM BoundReadsAreExact ==
    ASSUME NEW n \in Nat, NEW k \in 0 .. n, NEW lead \in Tuples(k), NEW R \in SUBSET Tuples(n),
           IsFiniteSet(R), NEW d, d = dafsa_build_sorted(R)
    PROVE  /\ \A t \in Tuples(n) : IsPrefix(lead, t) =>
                 rel_rank_bound(d, lead, t) = RankBound(R, lead, t)
           /\ \A i \in Nat : rel_select_bound(d, n, lead, i) = SelectBound(R, lead, i)
           /\ \A lo, hi \in Tuples(n) :
                 IsPrefix(lead, lo) /\ IsPrefix(lead, hi) /\ (lo = hi \/ Smaller(lo, hi)) =>
                 rel_range_count_bound(d, lead, lo, hi) = RangeCountBound(R, lead, lo, hi)
<1>1. PICK B : B = Bound(R, lead)
  OBVIOUS
<1>2. PICK P : P = RestsOf(B, k)
  OBVIOUS
<1>3. PICK c \in Nat : c = n - k
  OBVIOUS
<1>4. /\ B \in SUBSET Tuples(n) /\ IsFiniteSet(B)
      /\ P \in SUBSET Tuples(c) /\ IsFiniteSet(P) /\ Cardinality(P) = Cardinality(B)
      /\ \A t \in Tuples(n) : IsPrefix(lead, t) => Rank(P, Suffix(t, k)) = Rank(B, t)
  BY <1>1, <1>2, <1>3, SuffixRanks
<1>5. PICK s : s = rel_prefix_state(d, lead)
  OBVIOUS
<1>6. s = dafsa_build_sorted(P)
  BY <1>1, <1>2, <1>5, PrefixStateIsExact DEF RestsOf
<1>7. Len(lead) = k
  BY DEF Tuples
<1>8. s = {} <=> B = {}
  BY <1>2, <1>6 DEF dafsa_build_sorted, RestsOf
<1>9. \A t \in Tuples(n) : Suffix(t, k) \in Tuples(c)
  BY <1>3, PrefixColumns
<1>10. \A p \in Tuples(c) : dafsa_rank_from(s, encodeKey(p)) = Rank(P, p)
  BY <1>4, <1>6, RanksAreExact DEF rel_rank
<1>11. ASSUME B = {} PROVE \A t : Rank(B, t) = 0
  BY <1>11, FS_EmptySet DEF Rank
<1>12. ASSUME NEW t \in Tuples(n), IsPrefix(lead, t)
       PROVE  rel_rank_bound(d, lead, t) = RankBound(R, lead, t)
  <2>1. CASE s = {}
    BY <1>1, <1>5, <1>8, <1>11, <2>1 DEF rel_rank_bound, RankBound
  <2>2. CASE s # {}
    <3>1. dafsa_rank_from(s, encodeKey(Suffix(t, k))) = Rank(B, t)
      BY <1>4, <1>9, <1>10, <1>12
    <3> QED BY <1>1, <1>5, <1>7, <2>2, <3>1 DEF rel_rank_bound, RankBound
  <2> QED BY <2>1, <2>2
<1>13. ASSUME NEW i \in Nat PROVE rel_select_bound(d, n, lead, i) = SelectBound(R, lead, i)
  <2>1. /\ rel_select(s, c, i) = Select(P, i)
        /\ i < Cardinality(P) => Select(P, i) \in P /\ Rank(P, Select(P, i)) = i
    BY <1>4, <1>6, SelectsAreExact
  <2>2. CASE s = {}
    <3>1. Cardinality(B) = 0
      BY <1>8, <2>2, FS_EmptySet
    <3>2. SelectBound(R, lead, i) = Refused
      BY <1>1, <3>1 DEF SelectBound, Select
    <3> QED BY <1>5, <2>2, <3>2 DEF rel_select_bound
  <2>3. CASE s # {} /\ ~ (i < Cardinality(B))
    <3>1. Cardinality(s) = Cardinality(P)
      BY <1>4, <1>6, KeyForEachRow
    <3>2. dafsa_select_from(s, i) = Refused
      BY <1>4, <2>3, <3>1 DEF dafsa_select_from
    <3>3. SelectBound(R, lead, i) = Refused
      BY <1>1, <2>3 DEF SelectBound, Select
    <3> QED BY <1>5, <2>3, <3>2, <3>3 DEF rel_select_bound
  <2>4. CASE s # {} /\ i < Cardinality(B)
    <3>1. PICK p \in P : p = Select(P, i) /\ Rank(P, p) = i
      BY <1>4, <2>1, <2>4
    <3>2. PICK t \in B : p = Suffix(t, k)
      BY <1>2, <3>1 DEF RestsOf
    <3>3. t \in Tuples(n) /\ IsPrefix(lead, t)
      BY <1>1, <1>4 DEF Bound
    <3>4. PICK key : key = dafsa_select_from(s, i)
      OBVIOUS
    <3>5. p # Refused
      BY <1>4, NothingRefused
    <3>6. key # Refused /\ readColsBe(key, c) = p
      BY <2>1, <3>1, <3>4, <3>5 DEF rel_select
    <3>7. rel_select_bound(d, n, lead, i) = lead \o p
      BY <1>3, <1>5, <1>7, <2>4, <3>4, <3>6 DEF rel_select_bound
    <3>8. lead \o p = t
      BY <3>2, <3>3, SuffixOrder
    <3>9. Rank(B, t) = i
      BY <1>4, <3>1, <3>2, <3>3
    <3>10. \A u \in B : Rank(B, u) = i => u = t
      BY <1>4, <3>9, RanksNumberRows
    <3>11. Select(B, i) = CHOOSE u \in B : Rank(B, u) = i
      BY <2>4 DEF Select
    <3>12. Select(B, i) = t
      BY <3>9, <3>10, <3>11
    <3> QED BY <1>1, <3>7, <3>8, <3>12 DEF SelectBound
  <2> QED BY <2>2, <2>3, <2>4
<1>14. ASSUME NEW lo \in Tuples(n), NEW hi \in Tuples(n), IsPrefix(lead, lo), IsPrefix(lead, hi),
              lo = hi \/ Smaller(lo, hi)
       PROVE  rel_range_count_bound(d, lead, lo, hi) = RangeCountBound(R, lead, lo, hi)
  <2>1. rel_range_count(dafsa_build_sorted(B), lo, hi) = RangeCount(B, lo, hi)
    BY <1>4, <1>14, RangeCountsAreExact
  <2>2. /\ rel_rank(dafsa_build_sorted(B), lo) = Rank(B, lo)
        /\ rel_rank(dafsa_build_sorted(B), hi) = Rank(B, hi)
    BY <1>4, RanksAreExact
  <2>3. RangeCount(B, lo, hi) = Rank(B, hi) - Rank(B, lo)
    BY <2>1, <2>2 DEF rel_range_count, dafsa_range_count_from, rel_rank
  <2>4. CASE s = {}
    <3>1. Rank(B, hi) = 0 /\ Rank(B, lo) = 0
      BY <1>8, <1>11, <2>4
    <3>2. RangeCount(B, lo, hi) = 0
      BY <2>3, <3>1
    <3> QED BY <1>1, <1>5, <2>4, <3>2 DEF rel_range_count_bound, RangeCountBound
  <2>5. CASE s # {}
    <3>1. /\ dafsa_rank_from(s, encodeKey(Suffix(lo, k))) = Rank(B, lo)
          /\ dafsa_rank_from(s, encodeKey(Suffix(hi, k))) = Rank(B, hi)
      BY <1>4, <1>9, <1>10, <1>14
    <3> QED BY <1>1, <1>5, <1>7, <2>3, <2>5, <3>1
        DEF rel_range_count_bound, RangeCountBound, dafsa_range_count_from
  <2> QED BY <2>4, <2>5
<1> QED BY <1>12, <1>13, <1>14

(***************************************************************************)
(* A value is in the first column of some tuple exactly when it leads to a *)
(* state of the automaton (rel_has_col0).                                  *)
(***************************************************************************)
THEOREM FirstColumnIsExact ==
    ASSUME NEW n \in Nat \ {0}, NEW R \in SUBSET Tuples(n), NEW x \in ColumnValues
    PROVE  rel_has_col0(dafsa_build_sorted(R), x) = HasCol0(R, x)
<1>1. PICK lead \in Tuples(1) : lead = <<x>> /\ lead[1] = x
  <2>1. <<x>> \in [1 .. 1 -> ColumnValues] /\ <<x>>[1] = x
    OBVIOUS
  <2> QED BY <2>1 DEF Tuples
<1>2. 1 \in 0 .. n /\ n \in Nat
  OBVIOUS
<1>3. rel_prefix_state(dafsa_build_sorted(R), lead)
        = dafsa_build_sorted({Suffix(t, 1) : t \in Bound(R, lead)})
  BY <1>2, PrefixStateIsExact
<1>4. rel_has_col0(dafsa_build_sorted(R), x) <=> Bound(R, lead) # {}
  BY <1>1, <1>3 DEF rel_has_col0, dafsa_build_sorted
<1>5. \A t \in R : IsPrefix(lead, t) <=> t[1] = x
  <2>1. \A t \in R : IsPrefix(lead, t) <=> \A i \in 1 .. 1 : t[i] = lead[i]
    BY <1>2, PrefixColumns
  <2> QED BY <1>1, <2>1
<1>6. Bound(R, lead) # {} <=> HasCol0(R, x)
  BY <1>5 DEF Bound, HasCol0
<1>7. rel_has_col0(dafsa_build_sorted(R), x) \in BOOLEAN /\ HasCol0(R, x) \in BOOLEAN
  BY DEF rel_has_col0, HasCol0
<1> QED BY <1>4, <1>6, <1>7

(***************************************************************************)
(* The tuples before the first one with v in its first column are those    *)
(* with less there.                                                        *)
(***************************************************************************)
FirstOf(n, v) == [i \in 1 .. n |-> IF i = 1 THEN v ELSE 0]

\* That tuple can be encoded, and its rank counts those with less there.
LEMMA BeforeFirst ==
    ASSUME NEW n \in Nat \ {0}, NEW R \in SUBSET Tuples(n), NEW v \in ColumnValues
    PROVE  /\ FirstOf(n, v) \in Tuples(n)
           /\ Rank(R, FirstOf(n, v)) = Cardinality({t \in R : t[1] < v})
<1>1. PICK f : f = FirstOf(n, v)
  OBVIOUS
<1>2. f = [i \in 1 .. n |-> IF i = 1 THEN v ELSE 0]
  BY <1>1 DEF FirstOf
<1>3. 0 \in ColumnValues
  BY WeightGrows, KeysAssumption DEF ColumnValues
<1>4. f \in Tuples(n)
  BY <1>2, <1>3 DEF Tuples
<1>5. 1 \in 1 .. n /\ f[1] = v /\ \A i \in 1 .. n : i # 1 => f[i] = 0
  BY <1>2
<1>6. ASSUME NEW t \in R PROVE Smaller(t, f) <=> t[1] < v
  <2>1. DOMAIN t = 1 .. n /\ \A i \in 1 .. n : t[i] \in Nat
    BY DEF Tuples, ColumnValues
  <2>2. ASSUME Smaller(t, f) PROVE t[1] < v
    <3>1. PICK i \in 1 .. n : t[i] < f[i]
      BY <2>1, <2>2 DEF Smaller
    <3>2. i = 1
      BY <1>5, <2>1, <3>1
    <3> QED BY <1>5, <3>1, <3>2
  <2>3. ASSUME t[1] < v PROVE Smaller(t, f)
    <3>1. \A j \in 1 .. (1 - 1) : t[j] = f[j]
      OBVIOUS
    <3>2. 1 \in DOMAIN t /\ t[1] < f[1]
      BY <1>5, <2>1, <2>3
    <3> QED BY <3>1, <3>2 DEF Smaller
  <2> QED BY <2>2, <2>3
<1>7. {t \in R : Smaller(t, f)} = {t \in R : t[1] < v}
  BY <1>6
<1> QED BY <1>1, <1>4, <1>7 DEF Rank

(***************************************************************************)
(* The scan from the rank of (lo, 0, ...) up to that of (hi, 0, ...) gives *)
(* the tuples whose first column is from lo up to hi, hi excluded, in      *)
(* their order (rel_range_each).                                           *)
(***************************************************************************)
THEOREM RangeScansAreExact ==
    ASSUME NEW n \in Nat \ {0}, NEW R \in SUBSET Tuples(n), IsFiniteSet(R),
           NEW lo \in ColumnValues, NEW hi \in ColumnValues
    PROVE  rel_range_each(dafsa_build_sorted(R), n, lo, hi) = RangeEach(R, lo, hi)
<1> DEFINE A == {t \in R : t[1] < lo}
           S == {t \in R : lo <= t[1] /\ t[1] < hi}
           Z == {t \in R : t[1] < hi}
<1>1. lo \in Nat /\ hi \in Nat /\ \A t \in R : t \in Tuples(n) /\ t[1] \in Nat
  BY DEF ColumnValues, Tuples
<1>2. A \in SUBSET R /\ S \in SUBSET R /\ Z \in SUBSET R
  OBVIOUS
<1>3. IsFiniteSet(A) /\ IsFiniteSet(S) /\ IsFiniteSet(Z)
  BY <1>2, FS_Subset
<1>4. ASSUME NEW t \in S PROVE /\ t \in R /\ lo <= t[1] /\ t[1] < hi
  OBVIOUS
<1>5. A \cap S = {}
  BY <1>1
<1>6. lo < hi => Z = A \cup S
  BY <1>1
<1>7. hi <= lo => S = {}
  BY <1>1
<1>8. ASSUME NEW t \in S
      PROVE  {u \in R : Smaller(u, t)} = A \cup {u \in S : Smaller(u, t)}
  <2>1. t \in Tuples(n) /\ lo <= t[1] /\ t[1] < hi
    BY <1>1, <1>4
  <2>2. ASSUME NEW u \in R, Smaller(u, t) PROVE u[1] <= t[1]
    <3>1. u \in [1 .. n -> Nat] /\ t \in [1 .. n -> Nat] /\ 1 \in 1 .. n
      BY <1>1, <2>1 DEF Tuples, ColumnValues
    <3>2. PICK i \in 1 .. n : u[i] < t[i] /\ \A j \in 1 .. (i - 1) : u[j] = t[j]
      BY <2>2, <3>1 DEF Smaller
    <3>3. i = 1 \/ 1 \in 1 .. (i - 1)
      OBVIOUS
    <3> QED BY <3>1, <3>2, <3>3
  <2>3. ASSUME NEW u \in A PROVE Smaller(u, t)
    <3>1. u \in [1 .. n -> Nat] /\ 1 \in 1 .. n /\ u[1] < lo
      BY <1>1, <1>2 DEF Tuples, ColumnValues
    <3>2. u[1] < t[1]
      BY <1>1, <2>1, <3>1 DEF Tuples, ColumnValues
    <3>3. \A j \in 1 .. (1 - 1) : u[j] = t[j]
      OBVIOUS
    <3> QED BY <3>1, <3>2, <3>3 DEF Smaller
  <2>4. ASSUME NEW u \in R, Smaller(u, t), u \notin A PROVE u \in S
    <3>1. u[1] <= t[1] /\ u[1] \in Nat /\ t[1] \in Nat
      BY <1>1, <1>4, <2>2, <2>4
    <3>2. lo <= u[1]
      BY <1>1, <2>4, <3>1
    <3>3. u[1] < hi
      BY <1>1, <2>1, <3>1
    <3> QED BY <2>4, <3>2, <3>3
  <2> QED BY <1>2, <2>3, <2>4
<1> HIDE DEF A, S, Z
<1>9. PICK r0 \in Nat, c \in Nat : r0 = Cardinality(A) /\ c = Cardinality(S)
  BY <1>3, FS_CardinalityType
<1>10. lo < hi => Cardinality(Z) = r0 + c
  <2>1. Cardinality(A \cup S) = Cardinality(A) + Cardinality(S) - Cardinality(A \cap S)
    BY <1>3, FS_Union
  <2>2. Cardinality({}) = 0
    BY FS_EmptySet
  <2>3. Cardinality(A \cap S) = 0
    BY <1>5, <2>2
  <2>4. Cardinality(A \cup S) = r0 + c
    BY <1>9, <2>1, <2>3
  <2> QED BY <1>6, <2>4
<1>11. ASSUME NEW t \in S PROVE Rank(R, t) = r0 + Rank(S, t) /\ Rank(S, t) \in Nat
  <2>1. PICK B : B = {u \in S : Smaller(u, t)}
    OBVIOUS
  <2>2. IsFiniteSet(B) /\ A \cap B = {}
    <3>1. B \in SUBSET S
      BY <2>1
    <3> QED BY <1>3, <1>5, <3>1, FS_Subset
  <2>3. Cardinality(A \cup B) = Cardinality(A) + Cardinality(B) - Cardinality(A \cap B)
    BY <1>3, <2>2, FS_Union
  <2>4. Cardinality(A \cap B) = 0 /\ Cardinality(B) \in Nat
    BY <2>2, FS_EmptySet, FS_CardinalityType
  <2>5. Rank(R, t) = Cardinality(A \cup B) /\ Rank(S, t) = Cardinality(B)
    BY <1>8, <2>1 DEF Rank
  <2> QED BY <1>9, <2>3, <2>4, <2>5
<1>12. PICK D : D = dafsa_build_sorted(R)
  OBVIOUS
<1>13. /\ rel_rank(D, FirstOf(n, lo)) = r0
       /\ rel_rank(D, FirstOf(n, hi)) = Cardinality(Z)
  <2>1. FirstOf(n, lo) \in Tuples(n) /\ FirstOf(n, hi) \in Tuples(n)
    BY BeforeFirst
  <2>2. rel_rank(D, FirstOf(n, lo)) = Rank(R, FirstOf(n, lo)) /\ rel_rank(D, FirstOf(n, hi)) = Rank(R, FirstOf(n, hi))
    BY <1>12, <2>1, RanksAreExact
  <2> QED BY <1>9, <2>2, BeforeFirst DEF A, Z
<1>14. RangeEach(R, lo, hi) = [k \in 1 .. c |-> Select(S, k - 1)]
  BY <1>9 DEF RangeEach, Ascending, S
<1>15. rel_range_each(D, n, lo, hi)
         = IF hi <= lo \/ Cardinality(Z) <= r0 THEN <<>>
           ELSE [k \in 1 .. (Cardinality(Z) - r0) |-> rel_select(D, n, r0 + k - 1)]
  BY <1>13 DEF rel_range_each, FirstOf
<1>16. CASE hi <= lo
  <2>1. c = 0
    BY <1>7, <1>9, <1>16, FS_EmptySet
  <2>2. RangeEach(R, lo, hi) = <<>>
    BY <1>14, <2>1
  <2> QED BY <1>12, <1>15, <1>16, <2>2
<1>17. CASE ~ (hi <= lo)
  <2>1. Cardinality(Z) = r0 + c
    BY <1>1, <1>10, <1>17
  <2>2. CASE c = 0
    <3>1. RangeEach(R, lo, hi) = <<>>
      BY <1>14, <2>2
    <3>2. Cardinality(Z) <= r0
      BY <2>1, <2>2
    <3> QED BY <1>12, <1>15, <3>1, <3>2
  <2>3. CASE c # 0
    <3>1. ~ (Cardinality(Z) <= r0) /\ Cardinality(Z) - r0 = c
      BY <2>1, <2>3
    <3>2. ASSUME NEW k \in 1 .. c PROVE rel_select(D, n, r0 + k - 1) = Select(S, k - 1)
      <4>1. PICK j \in Nat : j = k - 1 /\ j < c
        OBVIOUS
      <4>2. PICK i \in Nat : i = r0 + k - 1 /\ i = r0 + j
        BY <4>1
      <4>3. S \in SUBSET Tuples(n)
        BY <1>1, <1>2
      <4>4. PICK t \in S : Rank(S, t) = j
        BY <1>3, <1>9, <4>1, <4>3, RanksNumberRows
      <4>5. Select(S, j) = t
        <5>1. \A u \in S : Rank(S, u) = j => u = t
          BY <1>3, <4>3, <4>4, RanksNumberRows
        <5>2. Select(S, j) = CHOOSE u \in S : Rank(S, u) = j
          BY <1>9, <4>1 DEF Select
        <5> QED BY <4>4, <5>1, <5>2
      <4>6. t \in R /\ Rank(R, t) = i
        BY <1>2, <1>11, <4>2, <4>4
      <4>7. \A u \in R : Rank(R, u) = i => u = t
        BY <4>6, RanksNumberRows
      <4>8. i < Cardinality(R)
        <5>1. Cardinality(Z) <= Cardinality(R) /\ Cardinality(R) \in Nat
          BY <1>2, FS_Subset, FS_CardinalityType
        <5> QED BY <2>1, <4>1, <4>2, <5>1
      <4>9. Select(R, i) = t
        <5>1. Select(R, i) = CHOOSE u \in R : Rank(R, u) = i
          BY <4>8 DEF Select
        <5> QED BY <4>6, <4>7, <5>1
      <4>10. rel_select(D, n, i) = Select(R, i)
        BY <1>12, SelectsAreExact
      <4> QED BY <4>1, <4>2, <4>5, <4>9, <4>10
    <3>3. [k \in 1 .. c |-> rel_select(D, n, r0 + k - 1)] = [k \in 1 .. c |-> Select(S, k - 1)]
      BY <3>2
    <3> QED BY <1>12, <1>14, <1>15, <1>17, <3>1, <3>3
  <2> QED BY <2>2, <2>3
<1> QED BY <1>16, <1>17

-----------------------------------------------------------------------------
(***************************************************************************)
(* An interner: every string has one id.                                   *)
(***************************************************************************)
DistinctNames(d) == d \in Seq(Names) /\ \A i, j \in DOMAIN d : d[i] = d[j] => i = j

(***************************************************************************)
(* intern_str keeps the ids there are, gives the string one, and gives no  *)
(* string two.                                                             *)
(***************************************************************************)
LEMMA InternedKeeps ==
    ASSUME NEW d, DistinctNames(d), NEW name \in Names
    PROVE  /\ DistinctNames(Interned1(d, name))
           /\ Len(d) <= Len(Interned1(d, name))
           /\ \A i \in DOMAIN d : i \in DOMAIN Interned1(d, name) /\ Interned1(d, name)[i] = d[i]
           /\ \E i \in DOMAIN Interned1(d, name) : Interned1(d, name)[i] = name
<1>1. d \in Seq(Names) /\ Len(d) \in Nat /\ DOMAIN d = 1 .. Len(d)
  BY DEF DistinctNames
<1>2. CASE Contains(d, name)
  BY <1>1, <1>2 DEF Interned1, Contains
<1>3. CASE ~ Contains(d, name)
  <2>1. PICK e : e = Append(d, name)
    OBVIOUS
  <2>2. /\ e \in Seq(Names) /\ Len(e) = Len(d) + 1 /\ DOMAIN e = 1 .. Len(d) + 1
        /\ \A i \in 1 .. Len(d) : e[i] = d[i]
        /\ e[Len(d) + 1] = name
    BY <1>1, <2>1
  <2>3. \A i \in 1 .. Len(d) : d[i] # name
    BY <1>3 DEF Contains
  <2>4. DistinctNames(e)
    <3>1. \A i \in 1 .. Len(d) + 1 : i \in 1 .. Len(d) \/ i = Len(d) + 1
      BY <1>1
    <3> QED BY <1>1, <2>2, <2>3, <3>1 DEF DistinctNames
  <2>5. Interned1(d, name) = e
    BY <1>3, <2>1 DEF Interned1
  <2>6. Len(d) <= Len(e) /\ \A i \in DOMAIN d : i \in DOMAIN e
    BY <1>1, <2>2
  <2>7. Len(d) + 1 \in DOMAIN e
    BY <1>1, <2>2
  <2> QED BY <1>1, <2>2, <2>4, <2>5, <2>6, <2>7
<1> QED BY <1>2, <1>3

(***************************************************************************)
(* An interner has no more strings than there are names, so every id fits  *)
(* a column.                                                               *)
(***************************************************************************)
LEMMA IdsFit ==
    ASSUME NEW d, DistinctNames(d)
    PROVE  DOMAIN d \subseteq ColumnValues /\ Len(d) <= Cardinality(Names)
<1>1. d \in Seq(Names) /\ Len(d) \in Nat /\ DOMAIN d = 1 .. Len(d)
  BY DEF DistinctNames
<1>2. d \in [1 .. Len(d) -> Names]
  BY <1>1
<1>3. d \in Injection(1 .. Len(d), Names)
  BY <1>1, <1>2 DEF DistinctNames, Injection, IsInjective
<1>4. Cardinality(1 .. Len(d)) <= Cardinality(Names)
  BY <1>3, FS_Injection, TablesAssumption
<1>5. Cardinality(1 .. Len(d)) = Len(d)
  <2>1. PICK n \in Nat : n = Len(d)
    BY <1>1
  <2>2. Cardinality(1 .. n) = IF 1 > n THEN 0 ELSE n - 1 + 1
    <3>1. 1 \in Int /\ n \in Int
      OBVIOUS
    <3> QED BY <3>1, FS_Interval
  <2> QED BY <2>1, <2>2
<1>6. PICK c \in Nat : c = Cardinality(Names) /\ c \in ColumnValues
  BY TablesAssumption, FS_CardinalityType
<1>7. Len(d) <= c /\ c <= Weight[Width] - 1 /\ Weight[Width] \in Nat
  BY <1>4, <1>5, <1>6, WeightGrows, KeysAssumption DEF ColumnValues
<1> QED BY <1>1, <1>4, <1>5, <1>6, <1>7 DEF ColumnValues

(***************************************************************************)
(* The cells of a file in the order they are read.                         *)
(***************************************************************************)
ColumnAt(i)     == ((i - 1) % Arity) + 1
CellAt(file, i) == file[((i - 1) \div Arity) + 1][ColumnAt(i)]

\* Each place of a file holds a cell.
LEMMA CellsInOrder ==
    ASSUME NEW file \in Seq([Cols -> Cell]), NEW i \in 1 .. (Len(file) * Arity)
    PROVE  CellAt(file, i) \in Cell
<1>1. Len(file) \in Nat /\ DOMAIN file = 1 .. Len(file)
  OBVIOUS
<1>2. ((i - 1) \div 2) + 1 \in 1 .. Len(file) /\ ((i - 1) % 2) + 1 \in 1 .. 2
  BY <1>1 DEF Arity
<1>3. file[((i - 1) \div 2) + 1] \in [Cols -> Cell]
  BY <1>2
<1> HIDE DEF Cell
<1> QED BY <1>2, <1>3 DEF CellAt, ColumnAt, Arity, Cols

\* Each cell of a file has a place.
LEMMA CellReached ==
    ASSUME NEW file \in Seq([Cols -> Cell]), NEW l \in DOMAIN file, NEW c \in Cols
    PROVE  \E i \in 1 .. (Len(file) * Arity) : CellAt(file, i) = file[l][c]
<1>1. PICK n \in Nat : n = Len(file) /\ DOMAIN file = 1 .. n
  OBVIOUS
<1>2. PICK q \in Nat : q = l - 1 /\ l = q + 1 /\ q + 1 <= n
  BY <1>1
<1>3. PICK r \in Nat : r = c - 1 /\ c = r + 1 /\ r <= 1
  BY DEF Cols, Arity
<1>4. PICK v \in Nat : v = 2 * q + r
  OBVIOUS
<1>5. v \div 2 = q /\ v % 2 = r /\ v + 1 \in 1 .. n * 2
  <2>1. q + 1 <= n /\ r <= 1
    BY <1>2, <1>3
  <2>2. v \div 2 = q /\ v % 2 = r
    BY <1>4, <2>1
  <2>3. v + 1 \in 1 .. n * 2
    BY <1>4, <2>1
  <2> QED BY <2>2, <2>3
<1>6. PICK i : i = v + 1
  OBVIOUS
<1>7. i \in 1 .. (Len(file) * Arity) /\ (i - 1) \div 2 = q /\ (i - 1) % 2 = r
  BY <1>1, <1>4, <1>5, <1>6 DEF Arity
<1>8. CellAt(file, i) = file[l][c]
  BY <1>2, <1>3, <1>7 DEF CellAt, ColumnAt, Arity
<1> QED BY <1>7, <1>8

(***************************************************************************)
(* The parse loop of dl_load_facts: whether it ends at a conflict or at    *)
(* the end, the strings it interned have ids of their own and those that   *)
(* were there keep theirs; and where it reached the end, every string of   *)
(* the file has an id.                                                     *)
(***************************************************************************)
LEMMA FileInterned ==
    ASSUME DistinctNames(dict), NEW file \in Seq([Cols -> Cell])
    PROVE  /\ DistinctNames(ReadFile(file).dict)
           /\ Len(dict) <= Len(ReadFile(file).dict)
           /\ ReadFile(file).ok => \A l \in DOMAIN file : \A c \in Cols :
                ~ file[l][c].int => \E k \in DOMAIN ReadFile(file).dict :
                                      ReadFile(file).dict[k] = file[l][c].text
<1> DEFINE n == Len(file) * Arity
           clashes == {i \in 1 .. n : CellKind(CellAt(file, i)) # FileKinds(file)[ColumnAt(i)]}
           last == IF clashes = {} THEN n ELSE Min(clashes)
           Step(d) == [i \in 0 .. last |->
                         IF i = 0 THEN dict
                         ELSE IF CellAt(file, i).int THEN d[i - 1]
                              ELSE Interned1(d[i - 1], CellAt(file, i).text)]
           v == CHOOSE d : d = Step(d)
<1>1. ReadFile(file).dict = v[last] /\ ReadFile(file).ok = (clashes = {})
  BY DEF ReadFile, CellAt, ColumnAt
<1>2. n \in Nat
  BY DEF Arity
<1>3. last \in 0 .. n /\ (clashes = {} => last = n)
  <2>1. CASE clashes = {}
    BY <1>2, <2>1
  <2>2. CASE clashes # {}
    <3>1. clashes \in SUBSET Nat
      OBVIOUS
    <3>2. clashes \in SUBSET (1 .. n)
      OBVIOUS
    <3> HIDE DEF clashes
    <3>3. \E x \in clashes : \A y \in clashes : x <= y
      BY <2>2, <3>1, LeastNumber
    <3>4. PICK x \in clashes : x = Min(clashes)
      BY <3>3 DEF Min
    <3>5. last = x
      BY <2>2, <3>4
    <3>6. x \in 0 .. n
      BY <1>2, <3>2
    <3> QED BY <2>2, <3>5, <3>6
  <2> QED BY <2>1, <2>2
<1> HIDE DEF clashes
<1>4. PICK m : m = last
  OBVIOUS
<1>5. m \in Nat /\ m <= n
  BY <1>2, <1>3, <1>4
<1>6. ASSUME NEW i \in 1 .. m PROVE CellAt(file, i) \in Cell
  <2>1. i \in 1 .. (Len(file) * Arity)
    BY <1>2, <1>5
  <2> QED BY <2>1, CellsInOrder
<1> DEFINE S == {d \in Seq(Names) : DistinctNames(d) /\ Len(dict) <= Len(d)}
           Read(i, d) == IF CellAt(file, i).int THEN d ELSE Interned1(d, CellAt(file, i).text)
           F == [p \in (1 .. m) \X S |-> Read(p[1], p[2])]
<1>7. ASSUME NEW i \in 1 .. m, NEW d \in S
      PROVE  /\ Read(i, d) \in S
             /\ \A k \in DOMAIN d : k \in DOMAIN Read(i, d) /\ Read(i, d)[k] = d[k]
             /\ ~ CellAt(file, i).int => \E k \in DOMAIN Read(i, d) : Read(i, d)[k] = CellAt(file, i).text
  <2>1. CASE CellAt(file, i).int
    BY <2>1
  <2>2. CASE ~ CellAt(file, i).int
    <3>1. CellAt(file, i).text \in Names
      BY <1>6, <2>2 DEF Cell
    <3>2. PICK x \in Names : x = CellAt(file, i).text
      BY <3>1
    <3>3. PICK e : e = Interned1(d, x)
      OBVIOUS
    <3>4. Read(i, d) = e
      BY <2>2, <3>2, <3>3
    <3>5. /\ DistinctNames(e) /\ Len(d) <= Len(e)
          /\ \A k \in DOMAIN d : k \in DOMAIN e /\ e[k] = d[k]
          /\ \E k \in DOMAIN e : e[k] = x
      BY <3>3, InternedKeeps
    <3>6. e \in S
      <4>1. Len(dict) \in Nat /\ Len(d) \in Nat /\ e \in Seq(Names) /\ Len(e) \in Nat
        BY <3>5 DEF DistinctNames
      <4> QED BY <3>5, <4>1
    <3> HIDE DEF Read, S
    <3> QED BY <3>2, <3>4, <3>5, <3>6
  <2> QED BY <2>1, <2>2
<1>8. dict \in S
  BY DEF DistinctNames
<1>9. F \in [(1 .. m) \X S -> S]
  <2> HIDE DEF Read, S
  <2> QED BY <1>7
<1>10. PICK f \in [0 .. m -> S] : f[0] = dict /\ \A i \in 1 .. m : f[i] = F[<<i, f[i - 1]>>]
  <2>1. PICK T : T = S
    OBVIOUS
  <2>2. PICK H : H = F
    OBVIOUS
  <2>3. PICK b : b = dict
    OBVIOUS
  <2>4. m \in Nat /\ b \in T /\ H \in [(1 .. m) \X T -> T]
    <3> HIDE DEF F, S
    <3> QED BY <1>5, <1>8, <1>9, <2>1, <2>2, <2>3
  <2>5. \E g : IsRun(g, m, T, b, H)
    BY <2>4, RunExists
  <2> HIDE DEF F, S
  <2> QED BY <2>1, <2>2, <2>3, <2>5 DEF IsRun
<1>11. \A i \in 1 .. m : f[i] = Read(i, f[i - 1]) /\ f[i - 1] \in S
  <2> HIDE DEF Read, S
  <2>1. \A i \in 1 .. m : i - 1 \in 0 .. m
    BY <1>5
  <2> QED BY <1>10, <2>1
<1>12. f = Step(f)
  <2>1. \A i \in 0 .. m :
           f[i] = IF i = 0 THEN dict
                  ELSE IF CellAt(file, i).int THEN f[i - 1]
                       ELSE Interned1(f[i - 1], CellAt(file, i).text)
    <3>1. \A i \in 0 .. m : i = 0 \/ i \in 1 .. m
      BY <1>5
    <3> HIDE DEF S
    <3> QED BY <1>10, <1>11, <3>1
  <2>2. f = [i \in 0 .. m |-> f[i]]
    <3> HIDE DEF S
    <3> QED BY <1>10
  <2> QED BY <1>4, <2>1, <2>2
<1>13. v = Step(v)
  BY <1>12
<1>14. \A i \in 0 .. m : v[i] = f[i]
  <2> DEFINE G == {i \in 0 .. m : v[i] = f[i]}
  <2>1. \A i \in 0 .. m :
           v[i] = IF i = 0 THEN dict
                  ELSE IF CellAt(file, i).int THEN v[i - 1]
                       ELSE Interned1(v[i - 1], CellAt(file, i).text)
    <3> HIDE DEF v
    <3> QED BY <1>4, <1>13
  <2> HIDE DEF v, S
  <2>2. 0 \in G
    BY <1>5, <1>10, <2>1
  <2>3. ASSUME NEW i \in 1 .. m, i - 1 \in G PROVE i \in G
    <3>1. i \in 0 .. m /\ i # 0
      BY <1>5
    <3> QED BY <1>11, <2>1, <2>3, <3>1
  <2>4. 0 .. m \subseteq G
    <3> HIDE DEF G
    <3> QED BY <1>5, <2>2, <2>3, UpTo
  <2> QED BY <2>4
<1> HIDE DEF v
<1>15. v[m] = f[m] /\ f[m] \in S
  <2> HIDE DEF S
  <2> QED BY <1>5, <1>10, <1>14
<1>16. \A i \in 1 .. m : \A j \in 1 .. m :
          j <= i /\ ~ CellAt(file, j).int => \E k \in DOMAIN f[i] : f[i][k] = CellAt(file, j).text
  <2> DEFINE H == {i \in 0 .. m : \A j \in 1 .. i : ~ CellAt(file, j).int =>
                                    \E k \in DOMAIN f[i] : f[i][k] = CellAt(file, j).text}
  <2>1. 0 \in H
    BY <1>5
  <2>2. ASSUME NEW i \in 1 .. m, i - 1 \in H PROVE i \in H
    <3>1. i \in 0 .. m /\ i - 1 \in 0 .. m
      BY <1>5
    <3>2. PICK d \in S : d = f[i - 1]
      BY <1>11
    <3>3. PICK e : e = f[i]
      OBVIOUS
    <3>4. /\ \A k \in DOMAIN d : k \in DOMAIN e /\ e[k] = d[k]
          /\ ~ CellAt(file, i).int => \E k \in DOMAIN e : e[k] = CellAt(file, i).text
      <4>1. e = Read(i, d)
        BY <1>11, <3>2, <3>3
      <4> HIDE DEF Read, S
      <4> QED BY <1>7, <4>1
    <3>5. ASSUME NEW j \in 1 .. i, ~ CellAt(file, j).int
          PROVE  \E k \in DOMAIN e : e[k] = CellAt(file, j).text
      <4>1. CASE j = i
        BY <3>4, <3>5, <4>1
      <4>2. CASE j # i
        <5>1. j \in 1 .. i - 1
          BY <4>2
        <5>2. \E k \in DOMAIN d : d[k] = CellAt(file, j).text
          BY <2>2, <3>2, <3>5, <5>1
        <5> QED BY <3>4, <5>2
      <4> QED BY <4>1, <4>2
    <3> QED BY <3>1, <3>3, <3>5
  <2>3. 0 .. m \subseteq H
    <3> HIDE DEF H
    <3> QED BY <1>5, <2>1, <2>2, UpTo
  <2>4. ASSUME NEW i \in 1 .. m, NEW j \in 1 .. m, j <= i, ~ CellAt(file, j).int
        PROVE  \E k \in DOMAIN f[i] : f[i][k] = CellAt(file, j).text
    <3>1. i \in 0 .. m /\ j \in 1 .. i
      BY <1>5, <2>4
    <3>2. i \in H
      BY <2>3, <3>1
    <3> QED BY <2>4, <3>1, <3>2
  <2> QED BY <2>4
<1>17. ASSUME clashes = {}, NEW l \in DOMAIN file, NEW c \in Cols, ~ file[l][c].int
       PROVE  \E k \in DOMAIN f[m] : f[m][k] = file[l][c].text
  <2>1. PICK i \in 1 .. (Len(file) * Arity) : CellAt(file, i) = file[l][c]
    BY CellReached
  <2>2. i \in 1 .. m /\ m \in 1 .. m /\ i <= m
    BY <1>2, <1>3, <1>4, <1>5, <1>17, <2>1
  <2> QED BY <1>16, <1>17, <2>1, <2>2
<1>18. PICK e : e = ReadFile(file).dict
  OBVIOUS
<1>19. e = f[m] /\ (ReadFile(file).ok => clashes = {})
  BY <1>1, <1>4, <1>15, <1>18
<1>20. DistinctNames(e) /\ Len(dict) <= Len(e)
  BY <1>15, <1>19
<1>21. ASSUME ReadFile(file).ok, NEW l \in DOMAIN file, NEW c \in Cols, ~ file[l][c].int
       PROVE  \E k \in DOMAIN e : e[k] = file[l][c].text
  BY <1>17, <1>19, <1>21
<1> HIDE DEF DistinctNames
<1> QED BY <1>18, <1>20, <1>21

(***************************************************************************)
(* The rows can be encoded.                                                *)
(***************************************************************************)
RowsEncode == rows \in SUBSET Tuples(Arity) /\ IsFiniteSet(rows)

(***************************************************************************)
(* The ids of the interner, of which the first are saved.                  *)
(***************************************************************************)
IdsDense == DistinctNames(dict) /\ saved \in 0 .. Len(dict)

(***************************************************************************)
(* What a loaded file adds to the rows can be encoded, its integers as     *)
(* well as the ids of its strings.                                         *)
(***************************************************************************)
LEMMA FileRows ==
    ASSUME RowsEncode, IdsDense, NEW file \in Files, ReadFile(file).ok
    PROVE  ReadFile(file).rows \in SUBSET Tuples(Arity) /\ IsFiniteSet(ReadFile(file).rows)
<1>1. PICK names : names = ReadFile(file).dict
  OBVIOUS
<1> DEFINE value(x) == IF x.int THEN x.val ELSE IdOf(names, x.text)
           row(l) == [c \in Cols |-> value(file[l][c])]
           new == {row(l) : l \in DOMAIN file}
<1>2. ReadFile(file).rows = rows \cup new
  <2> DEFINE clashes == {i \in 1 .. (Len(file) * Arity) :
                           CellKind(CellAt(file, i)) # FileKinds(file)[ColumnAt(i)]}
  <2>1. ReadFile(file).ok = (clashes = {})
    BY DEF ReadFile, CellAt, ColumnAt
  <2>2. ReadFile(file).rows =
          IF clashes = {}
          THEN rows \cup {[c \in Cols |-> IF file[l][c].int THEN file[l][c].val
                                    ELSE IdOf(ReadFile(file).dict, file[l][c].text)] : l \in DOMAIN file}
          ELSE rows
    BY DEF ReadFile, CellAt, ColumnAt
  <2> HIDE DEF clashes
  <2>3. clashes = {}
    BY <2>1
  <2>4. ReadFile(file).rows =
          rows \cup {[c \in Cols |-> IF file[l][c].int THEN file[l][c].val
                                    ELSE IdOf(ReadFile(file).dict, file[l][c].text)] : l \in DOMAIN file}
    BY <2>2, <2>3
  <2> QED BY <1>1, <2>4
<1>3. PICK lines \in Seq([Cols -> Cell]) : lines = file
  BY TablesAssumption
<1>4. /\ DistinctNames(names) /\ DOMAIN names \subseteq ColumnValues
      /\ \A l \in DOMAIN file : \A c \in Cols : ~ file[l][c].int =>
            \E k \in DOMAIN names : names[k] = file[l][c].text
  <2>1. /\ DistinctNames(ReadFile(lines).dict)
        /\ ReadFile(lines).ok => \A l \in DOMAIN lines : \A c \in Cols :
             ~ lines[l][c].int => \E k \in DOMAIN ReadFile(lines).dict :
                                    ReadFile(lines).dict[k] = lines[l][c].text
    BY FileInterned DEF IdsDense
  <2> QED BY <1>1, <1>3, <2>1, IdsFit
<1>5. ASSUME NEW l \in DOMAIN file, NEW c \in Cols PROVE value(file[l][c]) \in ColumnValues
  <2>1. PICK x \in Cell : x = file[l][c]
    <3>1. lines[l] \in [Cols -> Cell]
      BY <1>3
    <3> HIDE DEF Cell
    <3> QED BY <1>3, <3>1
  <2>2. CASE x.int
    <3>1. x.val \in Values
      BY <2>2 DEF Cell
    <3> QED BY <2>1, <2>2, <3>1, TablesAssumption
  <2>3. CASE ~ x.int
    <3>1. \E k \in DOMAIN names : names[k] = x.text
      BY <1>4, <2>1, <2>3
    <3>2. IdOf(names, x.text) \in DOMAIN names
      BY <3>1 DEF IdOf
    <3> QED BY <1>4, <2>1, <2>3, <3>2
  <2> QED BY <2>2, <2>3
<1>6. new \in SUBSET Tuples(Arity)
  <2> HIDE DEF value
  <2> QED BY <1>5 DEF Tuples, Cols
<1>7. IsFiniteSet(new)
  <2> DEFINE f == [l \in 1 .. Len(lines) |-> row(l)]
  <2>1. DOMAIN file = 1 .. Len(lines) /\ Len(lines) \in Nat
    BY <1>3
  <2>2. f \in Surjection(1 .. Len(lines), new)
    <3> HIDE DEF row
    <3> QED BY <2>1 DEF Surjection
  <2>3. IsFiniteSet(1 .. Len(lines))
    <3>1. PICK n \in Nat : n = Len(lines)
      BY <2>1
    <3>2. 1 \in Int /\ n \in Int
      OBVIOUS
    <3> QED BY <3>1, <3>2, FS_Interval
  <2> HIDE DEF f, new
  <2> QED BY <2>2, <2>3, FS_Surjection
<1> HIDE DEF new
<1>8. IsFiniteSet(rows \cup new)
  BY <1>7, FS_Union DEF RowsEncode
<1> QED BY <1>2, <1>6, <1>8 DEF RowsEncode

(***************************************************************************)
(* Applying the buffered operations of a transaction keeps the rows so,    *)
(* and keeps those the operations do not name.                             *)
(***************************************************************************)
LEMMA AppliedRows ==
    ASSUME RowsEncode, NEW ops \in Seq(Ops)
    PROVE  /\ Applied(ops) \in SUBSET Tuples(Arity) /\ IsFiniteSet(Applied(ops))
           /\ rows \ Named(ops) \subseteq Applied(ops)
<1> DEFINE Step(R) == [i \in 0 .. Len(ops) |->
                         IF i = 0 THEN rows
                         ELSE CASE ops[i].kind = "add" -> R[i - 1] \cup {ops[i].row}
                                [] ops[i].kind = "del" -> R[i - 1] \ {ops[i].row}
                                [] OTHER -> R[i - 1]]
           v == CHOOSE R : R = Step(R)
           S == {R \in SUBSET Tuples(Arity) : IsFiniteSet(R) /\ rows \ Named(ops) \subseteq R}
           After(i, R) == CASE ops[i].kind = "add" -> R \cup {ops[i].row}
                            [] ops[i].kind = "del" -> R \ {ops[i].row}
                            [] OTHER -> R
<1>1. Applied(ops) = v[Len(ops)]
  BY DEF Applied
<1>2. PICK m \in Nat : m = Len(ops)
  OBVIOUS
<1>3. ASSUME NEW i \in 1 .. m, NEW R \in S PROVE After(i, R) \in S
  <2>1. PICK op \in Ops : op = ops[i]
    <3> HIDE DEF Ops
    <3>1. i \in 1 .. Len(ops)
      BY <1>2
    <3> QED BY <3>1
  <2>2. CASE op.kind = "add"
    <3>1. op.row \in Tuples(Arity)
      <4>1. op.row \in [Cols -> Values]
        BY <2>2, TablesAssumption DEF Ops
      <4> QED BY <4>1, TablesAssumption DEF Tuples, Cols
    <3>2. IsFiniteSet(R \cup {op.row})
      BY FS_AddElement
    <3> QED BY <2>1, <2>2, <3>1, <3>2
  <2>3. CASE op.kind = "del"
    <3>1. IsFiniteSet(R \ {op.row})
      BY FS_Subset
    <3>2. op.row \in Named(ops)
      <4>1. i \in DOMAIN ops /\ ops[i].kind # "cas"
        BY <1>2, <2>1, <2>3
      <4> QED BY <2>1, <4>1 DEF Named
    <3>3. rows \ Named(ops) \subseteq R \ {op.row}
      BY <3>2
    <3> QED BY <2>1, <2>3, <3>1, <3>3
  <2>4. CASE op.kind # "add" /\ op.kind # "del"
    BY <2>1, <2>4
  <2> QED BY <2>2, <2>3, <2>4
<1>4. rows \in S
  BY DEF RowsEncode
<1> DEFINE F == [p \in (1 .. m) \X S |-> After(p[1], p[2])]
<1>5. F \in [(1 .. m) \X S -> S]
  <2> HIDE DEF After, S
  <2> QED BY <1>3
<1>6. PICK f \in [0 .. m -> S] : f[0] = rows /\ \A i \in 1 .. m : f[i] = F[<<i, f[i - 1]>>]
  <2>1. PICK T : T = S
    OBVIOUS
  <2>2. PICK H : H = F
    OBVIOUS
  <2>3. PICK b : b = rows
    OBVIOUS
  <2>4. m \in Nat /\ b \in T /\ H \in [(1 .. m) \X T -> T]
    <3> HIDE DEF F, S
    <3> QED BY <1>4, <1>5, <2>1, <2>2, <2>3
  <2>5. \E g : IsRun(g, m, T, b, H)
    BY <2>4, RunExists
  <2> HIDE DEF F, S
  <2> QED BY <2>1, <2>2, <2>3, <2>5 DEF IsRun
<1>7. \A i \in 1 .. m : f[i] = After(i, f[i - 1])
  <2> HIDE DEF After, S
  <2>1. \A i \in 1 .. m : i - 1 \in 0 .. m /\ f[i - 1] \in S
    OBVIOUS
  <2> QED BY <1>6, <2>1
<1>8. f = Step(f)
  <2> HIDE DEF S
  <2>1. \A i \in 0 .. m : f[i] = IF i = 0 THEN rows ELSE After(i, f[i - 1])
    <3>1. \A i \in 0 .. m : i = 0 \/ i \in 1 .. m
      OBVIOUS
    <3> HIDE DEF After
    <3> QED BY <1>6, <1>7, <3>1
  <2>2. f = [i \in 0 .. m |-> f[i]]
    OBVIOUS
  <2> QED BY <1>2, <2>1, <2>2
<1>9. v = Step(v)
  BY <1>8
<1>10. \A i \in 0 .. m : v[i] = f[i]
  <2> DEFINE G == {i \in 0 .. m : v[i] = f[i]}
  <2>1. \A i \in 0 .. m : v[i] = IF i = 0 THEN rows ELSE After(i, v[i - 1])
    <3> HIDE DEF v
    <3> QED BY <1>2, <1>9
  <2> HIDE DEF v, S, After
  <2>2. 0 \in G
    BY <1>6, <2>1
  <2>3. ASSUME NEW i \in 1 .. m, i - 1 \in G PROVE i \in G
    <3>1. i \in 0 .. m /\ i # 0
      OBVIOUS
    <3> QED BY <1>7, <2>1, <2>3, <3>1
  <2>4. 0 .. m \subseteq G
    <3> HIDE DEF G
    <3> QED BY <2>2, <2>3, UpTo
  <2> QED BY <2>4
<1> HIDE DEF v
<1>11. Applied(ops) = f[m] /\ f[m] \in S
  <2> HIDE DEF S
  <2>1. m \in 0 .. m
    OBVIOUS
  <2> QED BY <1>1, <1>2, <1>10, <2>1
<1> QED BY <1>11

-----------------------------------------------------------------------------
(***************************************************************************)
(* The bounds of the model, and what no operation disturbs.                *)
(***************************************************************************)
Bounded ==
    /\ Cardinality(rows) <= MaxRows
    /\ txn.open => Len(txn.ops) <= MaxOps
    /\ rules \in Kinds /\ pidx.dirty \in BOOLEAN
    /\ loose \subseteq rows /\ unseen \subseteq rows

RowInv == KInv /\ RowsEncode /\ IdsDense /\ Bounded

(***************************************************************************)
(* What changes the rows keeps them such that they can be encoded: the     *)
(* values added fit a column, and so do the ids of a file.                 *)
(***************************************************************************)
LEMMA RowsStep == RowInv /\ [Next]_vars => RowsEncode'
<1> SUFFICES ASSUME RowInv, [Next]_vars PROVE RowsEncode'
  OBVIOUS
<1> USE DEF RowInv
<1>1. CASE UNCHANGED rows
  BY <1>1 DEF RowsEncode
<1>2. ASSUME NEW row \in Rows, AddFact(row) PROVE RowsEncode'
  <2>1. row \in Tuples(Arity)
    BY TablesAssumption DEF Rows, Tuples, Cols
  <2>2. IsFiniteSet(rows \cup {row})
    BY FS_AddElement DEF RowsEncode
  <2> QED BY <1>2, <2>1, <2>2 DEF AddFact, RowsEncode
<1>3. ASSUME NEW row \in Rows, DeleteFact(row) PROVE RowsEncode'
  <2>1. IsFiniteSet(rows \ {row})
    BY FS_Subset DEF RowsEncode
  <2> QED BY <1>3, <2>1 DEF DeleteFact, RowsEncode
<1>4. ASSUME NEW file \in Files, LoadFacts(file) \/ LoadFactsFail(file) PROVE RowsEncode'
  <2>1. ReadFile(file).ok /\ rows' \in {rows, ReadFile(file).rows}
    BY <1>4 DEF LoadFacts, LoadFactsFail, LoadRefused
  <2> QED BY <2>1, FileRows DEF RowsEncode
<1>5. CASE TxnCommit
  <2>1. txn.ops \in Seq(Ops)
    BY <1>5, OpenBuffer DEF TxnCommit, KInv, Buffers
  <2>2. rows' = Applied(txn.ops)
    BY <1>5 DEF TxnCommit
  <2> HIDE DEF RowInv
  <2>3. RowsEncode
    BY DEF RowInv
  <2> QED BY <2>1, <2>2, <2>3, AppliedRows DEF RowsEncode
<1>6. CASE KillReopen
  <2>1. IsFiniteSet(rows \ loose)
    BY FS_Subset DEF RowsEncode
  <2> QED BY <1>6, <2>1 DEF KillReopen, RowsEncode
<1>7. \/ UNCHANGED rows \/ TxnCommit \/ KillReopen
      \/ \E row \in Rows : AddFact(row) \/ DeleteFact(row)
      \/ \E file \in Files : LoadFacts(file) \/ LoadFactsFail(file)
  BY DEF Next, vars, AddFactRefused, AddFactFail, LoadFactsRefused, LoadRules, PermRead,
         TxnBegin, TxnAddRefused, TxnAdd, TxnDelete, TxnCas, TxnAbort,
         Reopen, CloseReopen
<1> QED BY <1>1, <1>2, <1>3, <1>4, <1>5, <1>6, <1>7

(***************************************************************************)
(* What changes the interner only adds to it, but for a kill, which leaves *)
(* the strings that were saved; so ids stay dense and no string has two.   *)
(***************************************************************************)
LEMMA IdsStep == RowInv /\ [Next]_vars => IdsDense'
<1> SUFFICES ASSUME RowInv, [Next]_vars PROVE IdsDense'
  OBVIOUS
<1>1. IdsDense /\ dict \in Seq(Names) /\ Len(dict) \in Nat /\ saved \in 0 .. Len(dict)
  BY DEF RowInv, IdsDense, DistinctNames
<1>2. CASE UNCHANGED dict /\ saved' \in {saved, Len(dict)}
  BY <1>1, <1>2 DEF IdsDense, DistinctNames
<1>3. ASSUME NEW file \in Files, dict' = ReadFile(file).dict, saved' \in {saved, Len(dict')}
      PROVE  IdsDense'
  <2>1. PICK lines \in Seq([Cols -> Cell]) : lines = file
    BY TablesAssumption
  <2>2. DistinctNames(ReadFile(lines).dict) /\ Len(dict) <= Len(ReadFile(lines).dict)
    BY <1>1, FileInterned DEF IdsDense
  <2>3. PICK e : e = ReadFile(lines).dict
    OBVIOUS
  <2>4. DistinctNames(e) /\ Len(dict) <= Len(e) /\ dict' = e /\ saved' \in {saved, Len(e)}
    BY <1>3, <2>1, <2>2, <2>3
  <2>5. Len(e) \in Nat
    BY <2>4 DEF DistinctNames
  <2>6. saved' \in 0 .. Len(e)
    BY <1>1, <2>4, <2>5
  <2> QED BY <2>4, <2>6 DEF IdsDense, DistinctNames
<1>4. CASE KillReopen
  <2>1. PICK e : e = SubSeq(dict, 1, saved)
    OBVIOUS
  <2>2. /\ e \in Seq(Names) /\ Len(e) = saved /\ DOMAIN e = 1 .. saved
        /\ \A i \in 1 .. saved : e[i] = dict[i] /\ i \in DOMAIN dict
    BY <1>1, <2>1
  <2>3. DistinctNames(e)
    BY <1>1, <2>2 DEF IdsDense, DistinctNames
  <2>4. dict' = e /\ saved' = saved
    BY <1>4, <2>1 DEF KillReopen
  <2> QED BY <1>1, <2>2, <2>3, <2>4 DEF IdsDense, DistinctNames
<1>5. \/ UNCHANGED dict /\ saved' \in {saved, Len(dict)}
      \/ KillReopen
      \/ \E file \in Files : dict' = ReadFile(file).dict /\ saved' \in {saved, Len(dict')}
  BY DEF Next, vars, AddFactRefused, AddFact, AddFactFail, DeleteFact,
         LoadFactsRefused, LoadFacts, LoadFactsFail, LoadRules,
         PermRead, TxnBegin, TxnAddRefused, TxnAdd, TxnDelete, TxnCas, TxnAbort, TxnCommit,
         Reopen, CloseReopen
<1> QED BY <1>2, <1>3, <1>4, <1>5

(***************************************************************************)
(* Every operation stays within the bounds.                                *)
(***************************************************************************)
LEMMA BoundsStep == RowInv /\ [Next]_vars => Bounded'
<1> SUFFICES ASSUME RowInv, [Next]_vars PROVE Bounded'
  OBVIOUS
<1>1. /\ Bounded /\ RowsEncode /\ Typed
      /\ MaxRows \in Nat /\ MaxOps \in Nat /\ RuleKinds \subseteq Kinds /\ NoKind \in Kinds
  BY TablesAssumption DEF RowInv, KInv, Kinds, NoKind
<1>2. Cardinality(rows') <= MaxRows
  <2>1. CASE UNCHANGED rows
    BY <1>1, <2>1 DEF Bounded
  <2>2. ASSUME NEW row \in Rows, AddFact(row) PROVE Cardinality(rows') <= MaxRows
    <3>1. rows' = rows \cup {row} /\ Cardinality(rows) < MaxRows
      BY <2>2 DEF AddFact
    <3>2. Cardinality(rows) \in Nat
      BY <1>1, FS_CardinalityType DEF RowsEncode
    <3>3. Cardinality(rows \cup {row}) \in {Cardinality(rows), Cardinality(rows) + 1}
      BY <1>1, FS_AddElement DEF RowsEncode
    <3> QED BY <1>1, <3>1, <3>2, <3>3
  <2>3. ASSUME NEW row \in Rows, DeleteFact(row) PROVE Cardinality(rows') <= MaxRows
    <3>1. rows' = rows \ {row} /\ row \in rows
      BY <2>3 DEF DeleteFact
    <3>2. Cardinality(rows) \in Nat
      BY <1>1, FS_CardinalityType DEF RowsEncode
    <3>3. Cardinality(rows \ {row}) = Cardinality(rows) - 1
      BY <1>1, <3>1, FS_RemoveElement DEF RowsEncode
    <3> QED BY <1>1, <3>1, <3>2, <3>3 DEF Bounded
  <2>4. ASSUME NEW file \in Files, LoadFacts(file) \/ LoadFactsFail(file)
        PROVE  Cardinality(rows') <= MaxRows
    BY <1>1, <2>4 DEF LoadFacts, LoadFactsFail, Bounded
  <2>5. CASE TxnCommit
    BY <2>5 DEF TxnCommit
  <2>6. CASE KillReopen
    <3>1. rows' = rows \ loose
      BY <2>6 DEF KillReopen
    <3>2. Cardinality(rows \ loose) <= Cardinality(rows) /\ Cardinality(rows \ loose) \in Nat
      BY <1>1, FS_Subset, FS_CardinalityType DEF RowsEncode
    <3>3. Cardinality(rows) \in Nat
      BY <1>1, FS_CardinalityType DEF RowsEncode
    <3> QED BY <1>1, <3>1, <3>2, <3>3 DEF Bounded
  <2>7. \/ UNCHANGED rows \/ TxnCommit \/ KillReopen
        \/ \E row \in Rows : AddFact(row) \/ DeleteFact(row)
        \/ \E file \in Files : LoadFacts(file) \/ LoadFactsFail(file)
    BY DEF Next, vars, AddFactRefused, AddFactFail, LoadFactsRefused, LoadRules, PermRead,
           TxnBegin, TxnAddRefused, TxnAdd, TxnDelete, TxnCas, TxnAbort,
           Reopen, CloseReopen
  <2> QED BY <2>1, <2>2, <2>3, <2>4, <2>5, <2>6, <2>7
<1>3. rules' \in Kinds
  <2>1. UNCHANGED rules \/ rules' = NoKind \/ \E required \in RuleKinds : rules' = required
    BY DEF Next, vars, AddFactRefused, AddFact, AddFactFail, DeleteFact,
           LoadFactsRefused, LoadFacts, LoadFactsFail, LoadRules,
           PermRead, TxnBegin, TxnAddRefused, TxnAdd, TxnDelete, TxnCas, TxnAbort, TxnCommit,
           Reopen, CloseReopen, KillReopen
  <2> QED BY <1>1, <2>1 DEF Bounded
<1>4. pidx'.dirty \in BOOLEAN
  <2>1. UNCHANGED pidx \/ MarkDirty \/ PermRead \/ pidx' = Stale
    BY DEF Next, vars, AddFactRefused, AddFact, AddFactFail, DeleteFact,
           LoadFactsRefused, LoadFacts, LoadFactsFail, LoadRules,
           TxnBegin, TxnAddRefused, TxnAdd, TxnDelete, TxnCas, TxnAbort, TxnCommit,
           Reopen, CloseReopen, KillReopen
  <2>2. CASE pidx' \in {pidx, Stale}
    <3>1. pidx.dirty \in BOOLEAN /\ Stale.dirty \in BOOLEAN
      BY <1>1 DEF Bounded, Stale
    <3> QED BY <2>2, <3>1
  <2>3. CASE PermRead
    BY <2>3 DEF PermRead
  <2>4. MarkDirty => pidx' \in {pidx, Stale}
    BY DEF MarkDirty
  <2> QED BY <2>1, <2>2, <2>3, <2>4
<1>5. txn'.open => Len(txn'.ops) <= MaxOps
  <2>1. CASE UNCHANGED txn
    BY <1>1, <2>1 DEF Bounded
  <2>2. CASE txn' = NoTxn
    BY <2>2 DEF NoTxn
  <2>3. CASE TxnBegin
    BY <1>1, <2>3 DEF TxnBegin
  <2>4. ASSUME txn.open, txn'.ops = txn.ops PROVE txn'.open => Len(txn'.ops) <= MaxOps
    BY <1>1, <2>4 DEF Bounded
  <2>5. ASSUME txn.open, Len(txn.ops) < MaxOps, NEW op \in Ops, txn'.ops = Append(txn.ops, op)
        PROVE  Len(txn'.ops) <= MaxOps
    <3>1. PICK s \in Seq(Ops) : s = txn.ops
      BY <1>1, <2>5, OpenBuffer DEF Buffers
    <3> HIDE DEF Ops
    <3>2. Len(Append(s, op)) = Len(s) + 1 /\ Len(s) \in Nat
      OBVIOUS
    <3> QED BY <1>1, <2>5, <3>1, <3>2
  <2>6. ASSUME NEW row \in TxnRows, TxnAddRefused(row) PROVE txn.open /\ txn'.ops = txn.ops
    BY <1>1, <2>6, OpenBuffer DEF TxnAddRefused, Buffers
  <2>7. ASSUME NEW row \in TxnRows, TxnAdd(row) \/ TxnDelete(row)
        PROVE  /\ txn.open /\ Len(txn.ops) < MaxOps
               /\ \E op \in Ops : txn'.ops = Append(txn.ops, op)
    <3>1. txn.open /\ Len(txn.ops) < MaxOps /\ txn \in Buffers
      BY <1>1, <2>7, OpenBuffer DEF TxnAdd, TxnDelete
    <3>2. CASE TxnAdd(row)
      <4>1. [kind |-> "add", row |-> row] \in Ops
        BY DEF Ops
      <4>2. txn'.ops = Append(txn.ops, [kind |-> "add", row |-> row])
        BY <3>1, <3>2 DEF TxnAdd, Buffers
      <4> QED BY <3>1, <4>1, <4>2
    <3>3. CASE TxnDelete(row)
      <4>1. [kind |-> "del", row |-> row] \in Ops
        BY DEF Ops
      <4>2. txn'.ops = Append(txn.ops, [kind |-> "del", row |-> row])
        BY <3>1, <3>3 DEF TxnDelete, Buffers
      <4> QED BY <3>1, <4>1, <4>2
    <3> QED BY <2>7, <3>2, <3>3
  <2>8. ASSUME TxnCas
        PROVE  /\ txn.open /\ Len(txn.ops) < MaxOps
               /\ \E op \in Ops : txn'.ops = Append(txn.ops, op)
    <3>1. txn.open /\ Len(txn.ops) < MaxOps /\ txn \in Buffers
      BY <1>1, <2>8, OpenBuffer DEF TxnCas
    <3>2. [kind |-> "cas"] \in Ops
      BY DEF Ops
    <3>3. txn'.ops = Append(txn.ops, [kind |-> "cas"])
      BY <2>8, <3>1 DEF TxnCas, Buffers
    <3> QED BY <3>1, <3>2, <3>3
  <2>9. \/ UNCHANGED txn \/ txn' = NoTxn \/ TxnBegin \/ TxnCas
        \/ \E row \in TxnRows : TxnAddRefused(row) \/ TxnAdd(row) \/ TxnDelete(row)
    BY DEF Next, vars, AddFactRefused, AddFact, AddFactFail, DeleteFact,
           LoadFactsRefused, LoadFacts, LoadFactsFail, LoadRules,
           PermRead, TxnAbort, TxnCommit, Reopen, CloseReopen, KillReopen
  <2> QED BY <2>1, <2>2, <2>3, <2>4, <2>5, <2>6, <2>7, <2>8, <2>9
<1>6. loose' \subseteq rows' /\ unseen' \subseteq rows'
  <2>1. loose \subseteq rows /\ unseen \subseteq rows
    BY <1>1 DEF Bounded
  <2>2. CASE UNCHANGED <<rows, loose, unseen>>
    BY <2>1, <2>2
  <2>3. ASSUME NEW row \in Rows, AddFact(row) PROVE loose' \subseteq rows' /\ unseen' \subseteq rows'
    BY <2>1, <2>3 DEF AddFact, MaybeCompact, MarkDirty
  <2>4. ASSUME NEW row \in Rows, DeleteFact(row)
        PROVE  loose' \subseteq rows' /\ unseen' \subseteq rows'
    BY <2>1, <2>4 DEF DeleteFact, MarkDirty
  <2>5. ASSUME NEW file \in Files, LoadFacts(file)
        PROVE  loose' \subseteq rows' /\ unseen' \subseteq rows'
    <3>1. PICK R : R = ReadFile(file).rows /\ rows \subseteq R
      BY FileAdds
    <3>2. rows' = R /\ loose' \in {{}, loose \cup (R \ rows)} /\ MarkDirty
      BY <2>5, <3>1 DEF LoadFacts
    <3> QED BY <2>1, <3>1, <3>2 DEF MarkDirty
  <2>6. ASSUME NEW file \in Files, LoadFactsFail(file)
        PROVE  loose' \subseteq rows' /\ unseen' \subseteq rows'
    <3>1. rows \subseteq rows'
      BY <2>6, FileAdds DEF LoadFactsFail
    <3>2. loose' = loose \cup (rows' \ rows) /\ unseen' \subseteq unseen \cup (rows' \ rows)
      BY <2>6 DEF LoadFactsFail
    <3> QED BY <2>1, <3>1, <3>2
  <2>7. CASE TxnCommit
    <3>1. txn.ops \in Seq(Ops)
      BY <1>1, <2>7, OpenBuffer DEF TxnCommit, Buffers
    <3>2. PICK R : R = Applied(txn.ops) /\ rows \ Named(txn.ops) \subseteq R
      BY <1>1, <3>1, AppliedRows
    <3>3. /\ rows' = R /\ MarkDirty
          /\ loose' \subseteq loose \ Named(txn.ops)
      BY <2>7, <3>2 DEF TxnCommit
    <3> QED BY <2>1, <3>2, <3>3 DEF MarkDirty
  <2>8. CASE loose' = {} /\ unseen' = {}
    BY <2>8
  <2>9. CASE PermRead
    BY <2>1, <2>9 DEF PermRead
  <2>10. \/ UNCHANGED <<rows, loose, unseen>> \/ TxnCommit \/ PermRead \/ (loose' = {} /\ unseen' = {})
         \/ \E row \in Rows : AddFact(row) \/ DeleteFact(row)
         \/ \E file \in Files : LoadFacts(file) \/ LoadFactsFail(file)
    BY DEF Next, vars, histories, AddFactRefused, AddFactFail, LoadFactsRefused, LoadRules,
           TxnBegin, TxnAddRefused, TxnAdd, TxnDelete, TxnCas, TxnAbort,
           Reopen, CloseReopen, KillReopen
  <2> QED BY <2>2, <2>3, <2>4, <2>5, <2>6, <2>7, <2>8, <2>9, <2>10
<1> QED BY <1>2, <1>3, <1>4, <1>5, <1>6 DEF Bounded

(***************************************************************************)
(* The rows are tuples of values and ids that can be encoded, whatever     *)
(* was added, loaded or committed, and the ids stay dense, also over a     *)
(* kill.                                                                   *)
(***************************************************************************)
THEOREM RowsInvariant == Spec => []RowInv
<1>1. Init => RowsEncode /\ IdsDense /\ Bounded
  <2> SUFFICES ASSUME Init PROVE RowsEncode /\ IdsDense /\ Bounded
    OBVIOUS
  <2>1. IsFiniteSet({}) /\ Cardinality({}) = 0
    BY FS_EmptySet
  <2>2. RowsEncode
    BY <2>1 DEF Init, RowsEncode
  <2>3. IdsDense
    BY DEF Init, IdsDense, DistinctNames
  <2>4. Bounded
    BY <2>1, TablesAssumption DEF Init, Bounded, NoTxn, NoKind, Kinds, Stale
  <2> QED BY <2>2, <2>3, <2>4
<1>2. (RowsEncode /\ IdsDense /\ Bounded) /\ KInv /\ KInv' /\ [Next]_vars
        => (RowsEncode /\ IdsDense /\ Bounded)'
  BY RowsStep, IdsStep, BoundsStep DEF RowInv
<1>3. RowInv <=> KInv /\ (RowsEncode /\ IdsDense /\ Bounded)
  BY DEF RowInv
<1> QED BY <1>1, <1>2, <1>3, KindsInvariant, PTL DEF Spec

(***************************************************************************)
(* Every variable of the relation has its type: the values of the rows fit *)
(* a column, the interner has every name at most once, and the buffer and  *)
(* the rows stay within their bounds.                                      *)
(***************************************************************************)
THEOREM TypesHold == Spec => []TypeOK
<1>1. RowInv => TypeOK
  <2> SUFFICES ASSUME RowInv PROVE TypeOK
    OBVIOUS
  <2> USE DEF RowInv
  <2>1. rows \subseteq [Cols -> ColumnValues]
    BY DEF RowsEncode, Tuples, Cols
  <2>2. dict \in BoundedSeq(Names, Cardinality(Names))
    <3>1. DistinctNames(dict) /\ dict \in Seq(Names) /\ Len(dict) \in Nat /\ DOMAIN dict = 1 .. Len(dict)
      BY DEF IdsDense, DistinctNames
    <3>2. Len(dict) <= Cardinality(Names)
      BY <3>1, IdsFit
    <3>3. Cardinality(Names) \in Nat
      BY TablesAssumption, FS_CardinalityType
    <3> QED BY <3>1, <3>2, <3>3 DEF BoundedSeq, SeqOf
  <2> QED BY <2>1, <2>2 DEF TypeOK, KInv, Typed, IdsDense, Bounded
<1> QED BY <1>1, RowsInvariant, PTL

(***************************************************************************)
(* Whatever was done to the relation before, reading it by number gives    *)
(* what its rows say: ranks, selections and range counts, free and under   *)
(* bound columns, the test of a first column and the scan of a range.      *)
(***************************************************************************)
THEOREM ReadsAreExact == Spec => []ReadsExact
<1>1. RowInv => ReadsExact
  <2> SUFFICES ASSUME RowInv, NEW d, d = dafsa_build_sorted(rows)
      PROVE
       /\ \A t \in Probe : rel_rank(d, t) = Rank(rows, t)
       /\ \A k \in 0 .. MaxRows : rel_select(d, Arity, k) = Select(rows, k)
       /\ \A r \in Ranges : rel_range_count(d, r[1], r[2]) = RangeCount(rows, r[1], r[2])
       /\ \A l \in Leads :
            /\ \A k \in 0 .. MaxRows : rel_select_bound(d, Arity, l, k) = SelectBound(rows, l, k)
            /\ \A t \in Probe : IsPrefix(l, t) => rel_rank_bound(d, l, t) = RankBound(rows, l, t)
            /\ \A r \in Ranges : IsPrefix(l, r[1]) /\ IsPrefix(l, r[2]) =>
                 rel_range_count_bound(d, l, r[1], r[2]) = RangeCountBound(rows, l, r[1], r[2])
       /\ \A x \in Probes :
            /\ rel_has_col0(d, x) = HasCol0(rows, x)
            /\ \A y \in Probes : rel_range_each(d, Arity, x, y) = RangeEach(rows, x, y)
    BY DEF ReadsExact
  <2>1. rows \in SUBSET Tuples(Arity) /\ IsFiniteSet(rows)
    BY DEF RowInv, RowsEncode
  <2>2. Arity \in Nat \ {0} /\ Arity \in Nat /\ Arity = 2
    BY DEF Arity
  <2>3. Probes \subseteq ColumnValues
    <3>1. 0 \in ColumnValues
      BY WeightGrows, KeysAssumption DEF ColumnValues
    <3> QED BY <3>1, TablesAssumption DEF Probes
  <2>4. Probe \subseteq Tuples(Arity)
    BY <2>3 DEF Probe, Tuples, Cols
  <2>5. \A r \in Ranges : /\ r[1] \in Tuples(Arity) /\ r[2] \in Tuples(Arity)
                          /\ r[1] = r[2] \/ Smaller(r[1], r[2])
    BY <2>4 DEF Ranges
  <2>6. \A k \in 0 .. MaxRows : k \in Nat
    BY TablesAssumption
  <2>7. \A t \in Probe : rel_rank(d, t) = Rank(rows, t)
    BY <2>1, <2>2, <2>4, RanksAreExact
  <2>8. \A k \in 0 .. MaxRows : rel_select(d, Arity, k) = Select(rows, k)
    BY <2>1, <2>2, <2>6, SelectsAreExact
  <2>9. \A r \in Ranges : rel_range_count(d, r[1], r[2]) = RangeCount(rows, r[1], r[2])
    BY <2>1, <2>2, <2>5, RangeCountsAreExact
  <2>10. ASSUME NEW l \in Leads
         PROVE  /\ \A k \in 0 .. MaxRows : rel_select_bound(d, Arity, l, k) = SelectBound(rows, l, k)
                /\ \A t \in Probe : IsPrefix(l, t) => rel_rank_bound(d, l, t) = RankBound(rows, l, t)
                /\ \A r \in Ranges : IsPrefix(l, r[1]) /\ IsPrefix(l, r[2]) =>
                     rel_range_count_bound(d, l, r[1], r[2]) = RangeCountBound(rows, l, r[1], r[2])
    <3>1. PICK k \in 0 .. Arity : l \in Tuples(k)
      <4>1. CASE l = <<>>
        <5>1. <<>> \in [1 .. 0 -> ColumnValues] /\ 0 \in 0 .. Arity
          BY <2>2
        <5> QED BY <4>1, <5>1 DEF Tuples
      <4>2. CASE \E v \in Probes : l = <<v>>
        <5>1. PICK v \in ColumnValues : l = <<v>>
          BY <2>3, <4>2
        <5>2. <<v>> \in [1 .. 1 -> ColumnValues] /\ 1 \in 0 .. Arity
          BY <2>2
        <5> QED BY <5>1, <5>2 DEF Tuples
      <4>3. CASE l \in Probe
        <5>1. Arity \in 0 .. Arity
          BY <2>2
        <5> QED BY <2>4, <4>3, <5>1
      <4> QED BY <4>1, <4>2, <4>3 DEF Leads
    <3>2. /\ \A t \in Tuples(Arity) : IsPrefix(l, t) => rel_rank_bound(d, l, t) = RankBound(rows, l, t)
          /\ \A i \in Nat : rel_select_bound(d, Arity, l, i) = SelectBound(rows, l, i)
          /\ \A lo, hi \in Tuples(Arity) :
                IsPrefix(l, lo) /\ IsPrefix(l, hi) /\ (lo = hi \/ Smaller(lo, hi)) =>
                rel_range_count_bound(d, l, lo, hi) = RangeCountBound(rows, l, lo, hi)
      BY <2>1, <2>2, <3>1, BoundReadsAreExact
    <3> QED BY <2>4, <2>5, <2>6, <3>2
  <2>11. \A x \in Probes : rel_has_col0(d, x) = HasCol0(rows, x)
    BY <2>1, <2>2, <2>3, FirstColumnIsExact
  <2>12. \A x, y \in Probes : rel_range_each(d, Arity, x, y) = RangeEach(rows, x, y)
    BY <2>1, <2>2, <2>3, RangeScansAreExact
  <2> QED BY <2>7, <2>8, <2>9, <2>10, <2>11, <2>12
<1> QED BY <1>1, RowsInvariant, PTL

(***************************************************************************)
(* Ranks, selections and counts in permuted order agree with the rows of   *)
(* the moment without those a failed load put under the index, whatever    *)
(* was added, deleted, loaded, committed, aborted or lost since it was     *)
(* built: permRelRo keeps an index only while it counts as clean, what it  *)
(* builds answers as the rows do, and select undoes what rank maps         *)
(* (dl_rank_perm, dl_select_perm, dl_range_count_perm).                    *)
(***************************************************************************)
THEOREM PermutedReadsAreExact == Spec => []PermutedReadsExact
<1>1. IndexFresh /\ RowInv => PermutedReadsExact
  <2> SUFFICES ASSUME IndexFresh, RowInv, ~ pidx.dirty, NEW P, P = rows \ unseen
               PROVE  /\ \A t \in Probe :
                           dl_rank_perm(pidx.keys, Perm, t) = RankPerm(P, Perm, t)
                      /\ \A k \in 0 .. MaxRows :
                           dl_select_perm(pidx.keys, Perm, k) = SelectPerm(P, Perm, k)
                      /\ \A lo, hi \in Probe : ~ SmallerBy(Perm, hi, lo) =>
                           dl_range_count_perm(pidx.keys, Perm, lo, hi)
                           = RangeCountPerm(P, Perm, lo, hi)
    BY DEF PermutedReadsExact
  <2>1. pidx.keys = dafsa_build_sorted(permindex_build(P, Perm))
    BY DEF IndexFresh
  <2>2. Arity \in Nat /\ Perm \in ColumnOrders(Arity)
    <3>1. Perm \in [1 .. 2 -> 1 .. 2] /\ Perm[1] = 2 /\ Perm[2] = 1
      BY DEF Perm
    <3>2. \A c \in 1 .. 2 : c = 1 \/ c = 2
      OBVIOUS
    <3> QED BY <3>1, <3>2 DEF Arity, ColumnOrders
  <2>3. P \in SUBSET Tuples(Arity) /\ IsFiniteSet(P)
    BY FS_Subset DEF RowInv, RowsEncode
  <2>4. Probe \subseteq Tuples(Arity)
    <3>1. 0 \in ColumnValues
      BY WeightGrows, KeysAssumption DEF ColumnValues
    <3>2. Probes \subseteq ColumnValues
      BY <3>1, TablesAssumption DEF Probes
    <3> QED BY <3>2 DEF Probe, Tuples, Cols
  <2>5. \A t \in Probe : dl_rank_perm(pidx.keys, Perm, t) = RankPerm(P, Perm, t)
    BY <2>1, <2>2, <2>3, <2>4, PermutedRanksAreExact
  <2>6. \A k \in 0 .. MaxRows : dl_select_perm(pidx.keys, Perm, k) = SelectPerm(P, Perm, k)
    BY <2>1, <2>2, <2>3, PermutedSelectsAreExact
  <2>7. ASSUME NEW lo \in Probe, NEW hi \in Probe, ~ SmallerBy(Perm, hi, lo)
        PROVE  dl_range_count_perm(pidx.keys, Perm, lo, hi) = RangeCountPerm(P, Perm, lo, hi)
    <3>1. lo \in Tuples(Arity) /\ hi \in Tuples(Arity)
      BY <2>4
    <3>2. /\ Permuted(lo, Perm) \in Tuples(Arity) /\ Permuted(hi, Perm) \in Tuples(Arity)
          /\ Permuted(lo, Perm) = Permuted(hi, Perm) => lo = hi
      BY <2>2, <3>1, PermutedTuple
    <3>3. lo = hi \/ SmallerBy(Perm, lo, hi)
      BY <2>2, <2>7, <3>2, SmallerTotal DEF SmallerBy
    <3> QED BY <2>1, <2>2, <2>3, <3>1, <3>3, PermutedCountsAreExact
  <2> QED BY <2>5, <2>6, <2>7
<1> QED BY <1>1, IndexStaysFresh, RowsInvariant, PTL

=============================================================================
