-------------------------------- MODULE Tables --------------------------------
(***************************************************************************)
(* One declared relation behind the C interface: its rows, the kind each   *)
(* column is known to hold (raw integers or symbol ids), what rels.txt     *)
(* says of the kinds, a permutation index over the rows, and the           *)
(* transaction buffer as far as it touches the kinds.                      *)
(*                                                                         *)
(* A column value is a number; it may be a raw integer or a symbol id, and *)
(* dl_add_fact cannot tell which unless the number is no live id.  The     *)
(* kinds keep the two apart as well as they can: dl_load_facts knows the   *)
(* kind of every cell, dl_add_fact only learns from the first row.  Kinds  *)
(* are recorded before it is known whether the operation will be accepted, *)
(* so every way to refuse it must take them back, in memory and on disk.   *)
(* Where a write fails after that, the code takes nothing back: what stays *)
(* behind then is kept apart (left, loose, unseen).                        *)
(*                                                                         *)
(* Rows that were added or loaded with success survive a kill, they are in *)
(* the WAL or the saved base; RelationStore and TxnStore have that in      *)
(* detail, with its exceptions, and Vocabulary has the names.  At a close  *)
(* only the write of rels.txt may fail here.                               *)
(***************************************************************************)
EXTENDS Keys

CONSTANTS
  Values,     \* the column values tried, positive integers
  Names,      \* the strings tried in CSV files
  Files,      \* the CSV files tried: sequences of lines, a line a cell per column
  RuleKinds,  \* the kinds a loaded program may require, per column
  TxnRows,    \* the rows tried inside a transaction
  MaxRows,    \* no add when the relation has this many rows
  MaxOps      \* operations buffered in one transaction

Arity == 2
Cols  == 1 .. Arity
Perm  == <<2, 1>>

\* A cell of a line, an integer or a string.
Cell == [int : {TRUE}, val : Values] \cup [int : {FALSE}, text : Names]

\* relation.zig's column kinds.
KIND_UNKNOWN == 0
KIND_INT     == 1
KIND_SYM     == 2
Kinds  == [Cols -> {KIND_UNKNOWN, KIND_INT, KIND_SYM}]
NoKind == [c \in Cols |-> KIND_UNKNOWN]

\* Values and ids fit a column.
ASSUME TablesAssumption ==
  /\ MaxRows \in Nat /\ MaxOps \in Nat
  /\ \A v \in Values : v \in ColumnValues /\ v + 1 \in ColumnValues
  /\ IsFiniteSet(Names) /\ Cardinality(Names) \in ColumnValues
  /\ \A file \in Files : file \in Seq([Cols -> Cell])
  /\ TxnRows \subseteq [Cols -> Values] /\ RuleKinds \subseteq Kinds

Rows == [Cols -> Values]

NoTxn == [open |-> FALSE]

VARIABLES
  rows,       \* the relation's contents
  kinds,      \* col_kind: the recorded kinds
  relsTxt,    \* the kinds field of rels.txt
  metaDirty,  \* db.meta_dirty: rels.txt must be written at close
  dict,       \* the interner: position i holds the string of id i
  saved,      \* how many of its strings are in symbols.array
  rules,      \* the kinds the resident rules' constants require, per column
  revRel,     \* is the internal relation "rev" declared
  txn,        \* db.txn: NoTxn, or the buffer
  pidx,       \* the permutation index, [dirty, keys]
  earned,     \* history: the kinds recorded by accepted operations
  left,       \* history: kinds nothing accepted recorded, left by a failed write or a kill
  unwritten,  \* history: an abort could not rewrite rels.txt
  loose,      \* rows in memory only, of loads that failed or whose base was not saved
  unseen      \* history: rows a failed load put under a clean index

vars == <<rows, kinds, relsTxt, metaDirty, dict, saved, rules, revRel, txn, pidx,
          earned, left, unwritten, loose, unseen>>

\* Left alone by what writes no row and does not fail.
histories == <<earned, left, unwritten, loose, unseen>>

\* perm_index_entry: nothing is read of a dirty index, so its keys are dropped.
Stale == [dirty |-> TRUE, keys |-> {}]

Init ==
  /\ rows = {} /\ kinds = NoKind /\ relsTxt = NoKind /\ metaDirty = FALSE
  /\ dict = <<>> /\ saved = 0 /\ rules = NoKind /\ revRel = FALSE
  /\ txn = NoTxn /\ pidx = Stale
  /\ earned = NoKind /\ left = NoKind /\ unwritten = FALSE /\ loose = {} /\ unseen = {}

-----------------------------------------------------------------------------
(* Recording kinds *)

\* intern_str_of: ids are dense from 1.
Resolves(v) == v \in DOMAIN dict

\* relHasPendingTxnAdd
PendingAdd == txn.open /\ \E i \in DOMAIN txn.ops : txn.ops[i].kind = "add"

\* kindNoteRaw, column by column from the left: [kinds, newly, ok].  Up to the
\* first conflict, a column nothing is known of becomes one of integers if no
\* row can have decided about it.
KindNoteRaw(row) ==
  LET clashes == {c \in Cols : ~ Resolves(row[c]) /\ kinds[c] = KIND_SYM}
      noted   == {c \in Cols : /\ ~ Resolves(row[c]) /\ kinds[c] = KIND_UNKNOWN
                               /\ rows = {} /\ ~ PendingAdd
                               /\ \A d \in clashes : c < d}
  IN [kinds |-> [c \in Cols |-> IF c \in noted THEN KIND_INT ELSE kinds[c]],
      newly |-> noted # {}, ok |-> clashes = {}]

\* kindRecheckAfterLoad: do the resident rules' constants still fit.
Fits(k, required) ==
  \A c \in Cols : k[c] = KIND_UNKNOWN \/ required[c] = KIND_UNKNOWN \/ k[c] = required[c]

\* Faulty variants (Faulty...) stand before the definition they vary; each makes
\* a property below fail, none is part of Next.
\* The resident rules are not asked again when a first row gives a kind.
FaultyRowRefused(note) == ~ note.ok

\* A raw row is refused by its kinds, or by the rules if it is the first to
\* give a column a kind.
RowRefused(note) == ~ note.ok \/ (note.newly /\ ~ Fits(note.kinds, rules))

\* A write that forgets the index.
FaultyMarkDirty == UNCHANGED <<pidx, unseen>>

\* permindex_mark_dirty, when the rows really changed.
MarkDirty ==
  IF rows' # rows THEN pidx' = Stale /\ unseen' = {} ELSE UNCHANGED <<pidx, unseen>>

\* What an operation with the kinds k earns if it is accepted, and what it
\* leaves behind if one of its writes fails.
EarnedBy(k) == [c \in Cols |-> IF left[c] = KIND_UNKNOWN THEN k[c] ELSE KIND_UNKNOWN]
LeftBy(k)   == [c \in Cols |-> IF earned[c] = KIND_UNKNOWN THEN k[c] ELSE KIND_UNKNOWN]

-----------------------------------------------------------------------------
(* Direct operations *)

\* dl_add_fact, refused: the kinds of the columns before the conflict are
\* taken back; meta_dirty is not.
AddFactRefused(row) ==
  LET note == KindNoteRaw(row)
  IN /\ ~ txn.open /\ RowRefused(note)
     /\ metaDirty' = (metaDirty \/ note.newly)
     /\ UNCHANGED <<rows, kinds, relsTxt, dict, saved, rules, revRel, txn, pidx>>
     /\ UNCHANGED histories

\* maybeCompact, in an add: the relation is saved.
MaybeCompact == loose' \in {loose, {}}

\* dl_add_fact, accepted: kinds, the interner saved, the row if it is new.
AddFact(row) ==
  LET note == KindNoteRaw(row)
  IN /\ ~ txn.open /\ ~ RowRefused(note)
     /\ Cardinality(rows) < MaxRows
     /\ kinds' = note.kinds /\ earned' = EarnedBy(note.kinds)
     /\ metaDirty' = (metaDirty \/ note.newly)
     /\ saved' = Len(dict)
     /\ rows' = rows \cup {row}
     /\ MarkDirty
     /\ IF row \in rows THEN UNCHANGED loose ELSE MaybeCompact
     /\ UNCHANGED <<relsTxt, dict, rules, revRel, txn, left, unwritten>>

\* dl_add_fact, failing to save the interner, the term store or the record:
\* the kinds stay.
AddFactFail(row) ==
  LET note == KindNoteRaw(row)
  IN /\ ~ txn.open /\ ~ RowRefused(note)
     /\ kinds' = note.kinds /\ left' = LeftBy(note.kinds)
     /\ metaDirty' = (metaDirty \/ note.newly)
     /\ saved' \in {saved, Len(dict)}
     /\ UNCHANGED <<rows, relsTxt, dict, rules, revRel, txn, pidx>>
     /\ UNCHANGED <<earned, unwritten, loose, unseen>>

\* dl_delete_fact
DeleteFact(row) ==
  /\ ~ txn.open /\ row \in rows
  /\ rows' = rows \ {row} /\ loose' = loose \ {row}
  /\ MarkDirty
  /\ UNCHANGED <<kinds, relsTxt, metaDirty, dict, saved, rules, revRel, txn>>
  /\ UNCHANGED <<earned, left, unwritten>>

\* intern_str
Interned1(d, name) == IF Contains(d, name) THEN d ELSE Append(d, name)
IdOf(d, name) == CHOOSE i \in DOMAIN d : d[i] = name

\* The kinds after a file, kindNoteDefinite of every cell: a column that has
\* none yet takes that of its first cell.
CellKind(cell) == IF cell.int THEN KIND_INT ELSE KIND_SYM
FileKinds(file) ==
  [c \in Cols |-> IF kinds[c] = KIND_UNKNOWN /\ file # <<>> THEN CellKind(file[1][c]) ELSE kinds[c]]

\* The parse loop of dl_load_facts: cell by cell, interning strings, up to
\* the first cell whose kind conflicts with that of its column.
ReadFile(file) ==
  LET column(i) == ((i - 1) % Arity) + 1
      cell(i)   == file[((i - 1) \div Arity) + 1][column(i)]
      clashes   == {i \in 1 .. (Len(file) * Arity) : CellKind(cell(i)) # FileKinds(file)[column(i)]}
      last      == IF clashes = {} THEN Len(file) * Arity ELSE Min(clashes)
      d[i \in 0 .. last] ==
        IF i = 0 THEN dict ELSE IF cell(i).int THEN d[i - 1] ELSE Interned1(d[i - 1], cell(i).text)
      names     == d[last]
      value(x)  == IF x.int THEN x.val ELSE IdOf(names, x.text)
  IN [kinds |-> FileKinds(file), ok |-> clashes = {}, dict |-> names,
      rows |-> IF clashes = {} THEN rows \cup {[c \in Cols |-> value(file[l][c])] : l \in DOMAIN file}
               ELSE rows]

LoadRefused(end) == ~ end.ok \/ (end.kinds # kinds /\ ~ Fits(end.kinds, rules))

\* dl_load_facts, refused at a cell or by the resident rules: kinds and
\* meta_dirty are put back, the strings interned so far stay.
LoadFactsRefused(file) ==
  LET end == ReadFile(file)
  IN /\ ~ txn.open /\ LoadRefused(end)
     /\ dict' = end.dict
     /\ UNCHANGED <<rows, kinds, relsTxt, metaDirty, saved, rules, revRel, txn, pidx>>
     /\ UNCHANGED histories

\* dl_load_facts, accepted: interner and base saved, though nobody asks
\* whether the base was.
LoadFacts(file) ==
  LET end == ReadFile(file)
  IN /\ ~ txn.open /\ ~ LoadRefused(end)
     /\ Cardinality(end.rows) <= MaxRows
     /\ rows' = end.rows /\ dict' = end.dict /\ saved' = Len(end.dict)
     /\ kinds' = end.kinds /\ earned' = EarnedBy(end.kinds)
     /\ metaDirty' = (metaDirty \/ end.kinds # kinds)
     /\ MarkDirty
     /\ loose' \in {{}, loose \cup (end.rows \ rows)}
     /\ UNCHANGED <<relsTxt, rules, revRel, txn, left, unwritten>>

\* dl_load_facts, failing to build the new base, or with it in place to save
\* the interner or the term store.  It returns at once: the kinds stay, the
\* rows are in memory only, and the index is not told.
LoadFactsFail(file) ==
  LET end == ReadFile(file)
  IN /\ ~ txn.open /\ ~ LoadRefused(end)
     /\ Cardinality(end.rows) <= MaxRows
     /\ \/ UNCHANGED <<rows, saved>>
        \/ rows' = end.rows /\ saved' \in {saved, Len(end.dict)}
     /\ dict' = end.dict
     /\ kinds' = end.kinds /\ left' = LeftBy(end.kinds)
     /\ metaDirty' = (metaDirty \/ end.kinds # kinds)
     /\ loose' = loose \cup (rows' \ rows)
     /\ unseen' = IF pidx.dirty THEN unseen ELSE unseen \cup (rows' \ rows)
     /\ UNCHANGED <<relsTxt, rules, revRel, txn, pidx, earned, unwritten>>

\* dl_load_rules with constants that fit the kinds (or it refuses them).
LoadRules(required) ==
  /\ rules = NoKind /\ required # NoKind /\ Fits(kinds, required)
  /\ rules' = required
  /\ UNCHANGED <<rows, kinds, relsTxt, metaDirty, dict, saved, revRel, txn, pidx>>
  /\ UNCHANGED histories

\* permRelRo: a permuted read builds the index if it is missing or dirty.
PermRead ==
  /\ pidx.dirty
  /\ pidx' = [dirty |-> FALSE, keys |-> dafsa_build_sorted(permindex_build(rows, Perm))]
  /\ unseen' = {}
  /\ UNCHANGED <<rows, kinds, relsTxt, metaDirty, dict, saved, rules, revRel, txn>>
  /\ UNCHANGED <<earned, left, unwritten, loose>>

-----------------------------------------------------------------------------
(* Transactions *)

\* dl_txn_begin
TxnBegin ==
  /\ ~ txn.open
  /\ txn' = [open |-> TRUE, ops |-> <<>>, ksnap |-> <<>>, dirtyAtBegin |-> metaDirty]
  /\ UNCHANGED <<rows, kinds, relsTxt, metaDirty, dict, saved, rules, revRel, pidx>>
  /\ UNCHANGED histories

\* txnKindSnap: once per relation and transaction.
Snapped == IF txn.ksnap = <<>> THEN <<kinds>> ELSE txn.ksnap

\* dl_txn_add_fact, refused or buffered: the kinds are recorded at once, the
\* row only applies at commit.
TxnAddRefused(row) ==
  LET note == KindNoteRaw(row)
  IN /\ txn.open /\ RowRefused(note)
     /\ txn' = [txn EXCEPT !.ksnap = Snapped]
     /\ metaDirty' = (metaDirty \/ note.newly)
     /\ UNCHANGED <<rows, kinds, relsTxt, dict, saved, rules, revRel, pidx>>
     /\ UNCHANGED histories

TxnAdd(row) ==
  LET note == KindNoteRaw(row)
  IN /\ txn.open /\ ~ RowRefused(note)
     /\ Len(txn.ops) < MaxOps
     /\ kinds' = note.kinds
     /\ metaDirty' = (metaDirty \/ note.newly)
     /\ txn' = [txn EXCEPT !.ksnap = Snapped, !.ops = Append(@, [kind |-> "add", row |-> row])]
     /\ UNCHANGED <<rows, relsTxt, dict, saved, rules, revRel, pidx>>
     /\ UNCHANGED histories

\* dl_txn_delete_fact
TxnDelete(row) ==
  /\ txn.open /\ Len(txn.ops) < MaxOps
  /\ txn' = [txn EXCEPT !.ops = Append(@, [kind |-> "del", row |-> row])]
  /\ UNCHANGED <<rows, kinds, relsTxt, metaDirty, dict, saved, rules, revRel, pidx>>
  /\ UNCHANGED histories

\* dl_txn_cas: the first use declares "rev", which writes rels.txt with the
\* kinds of the moment.
TxnCas ==
  /\ txn.open /\ Len(txn.ops) < MaxOps
  /\ \A i \in DOMAIN txn.ops : txn.ops[i].kind # "cas"
  /\ txn' = [txn EXCEPT !.ops = Append(@, [kind |-> "cas"])]
  /\ revRel' = TRUE
  /\ relsTxt' = IF revRel THEN relsTxt ELSE kinds
  /\ metaDirty' = (metaDirty \/ ~ revRel)
  /\ unwritten' = (revRel /\ unwritten)
  /\ UNCHANGED <<rows, kinds, dict, saved, rules, pidx>>
  /\ UNCHANGED <<earned, left, loose, unseen>>

\* An abort that only drops the buffer, and one that forgets what declaring
\* "rev" had written to rels.txt.
FaultyTxnAbort ==
  /\ txn.open /\ txn' = NoTxn
  /\ UNCHANGED <<rows, kinds, relsTxt, metaDirty, dict, saved, rules, revRel, pidx>>
  /\ UNCHANGED histories

FaultyTxnAbortDisk ==
  /\ txn.open /\ txn' = NoTxn
  /\ kinds' = IF txn.ksnap = <<>> THEN kinds ELSE txn.ksnap[1]
  /\ metaDirty' = IF kinds' # kinds THEN txn.dirtyAtBegin ELSE metaDirty
  /\ UNCHANGED <<rows, relsTxt, dict, saved, rules, revRel, pidx>>
  /\ UNCHANGED histories

\* txnAbort: put the kinds back; rewrite rels.txt if they had changed, which
\* may fail unnoticed.  A commit that fails at its log has saved the interner.
TxnAbort ==
  LET before  == IF txn.ksnap = <<>> THEN kinds ELSE txn.ksnap[1]
      changed == before # kinds
  IN /\ txn.open
     /\ kinds' = before
     /\ relsTxt' \in {relsTxt} \cup (IF changed THEN {before} ELSE {})
     /\ unwritten' = IF changed THEN relsTxt' # before ELSE unwritten
     /\ metaDirty' = IF changed THEN txn.dirtyAtBegin ELSE metaDirty
     /\ txn' = NoTxn
     /\ saved' \in {saved} \cup (IF txn.ops = <<>> THEN {} ELSE {Len(dict)})
     /\ UNCHANGED <<rows, dict, rules, revRel, pidx, earned, left, loose, unseen>>

\* Apply the buffered operations in order.
Applied(ops) ==
  LET R[i \in 0 .. Len(ops)] ==
        IF i = 0 THEN rows
        ELSE CASE ops[i].kind = "add" -> R[i - 1] \cup {ops[i].row}
               [] ops[i].kind = "del" -> R[i - 1] \ {ops[i].row}
               [] OTHER -> R[i - 1]
  IN R[Len(ops)]

\* The rows the operations name, whose fate txn.wal records.
Named(ops) == {ops[i].row : i \in {j \in DOMAIN ops : ops[j].kind # "cas"}}

\* dl_txn_commit when every revision is as expected (TxnAbort is the other way).
TxnCommit ==
  /\ txn.open
  /\ Cardinality(Applied(txn.ops)) <= MaxRows
  /\ rows' = Applied(txn.ops)
  /\ saved' = IF txn.ops = <<>> THEN saved ELSE Len(dict)
  /\ earned' = EarnedBy(kinds)
  /\ MarkDirty
  /\ loose' \in {loose \ Named(txn.ops)} \cup (IF PendingAdd THEN {{}} ELSE {})
  /\ txn' = NoTxn
  /\ UNCHANGED <<kinds, relsTxt, metaDirty, dict, rules, revRel, left, unwritten>>

-----------------------------------------------------------------------------
(* The end of a process and the next open *)

\* dlOpenCommon: kinds from rels.txt, names from symbols.array, no rules.
\* Kinds of rels.txt that nothing accepted recorded are there to stay.
Reopen ==
  /\ kinds' = relsTxt' /\ metaDirty' = FALSE
  /\ rules' = NoKind /\ txn' = NoTxn /\ pidx' = Stale
  /\ earned' = [c \in Cols |-> IF relsTxt'[c] = earned[c] THEN earned[c] ELSE KIND_UNKNOWN]
  /\ left' = [c \in Cols |-> IF relsTxt'[c] = earned[c] THEN KIND_UNKNOWN ELSE relsTxt'[c]]
  /\ unwritten' = FALSE /\ loose' = {} /\ unseen' = {}
  /\ UNCHANGED revRel

\* dl_close (an open transaction only gives its kinds back), then dl_open.
CloseReopen ==
  LET final == IF txn.open /\ txn.ksnap # <<>> THEN txn.ksnap[1] ELSE kinds
  IN /\ relsTxt' \in {relsTxt} \cup (IF metaDirty THEN {final} ELSE {})
     /\ saved' = Len(dict)
     /\ Reopen
     /\ UNCHANGED <<rows, dict>>

\* The process dies, then dl_open.
KillReopen ==
  /\ dict' = SubSeq(dict, 1, saved) /\ rows' = rows \ loose
  /\ UNCHANGED <<relsTxt, saved>>
  /\ Reopen

Next ==
  \/ \E row \in Rows : \/ AddFactRefused(row) \/ AddFact(row) \/ AddFactFail(row) \/ DeleteFact(row)
  \/ \E row \in TxnRows : TxnAddRefused(row) \/ TxnAdd(row) \/ TxnDelete(row)
  \/ \E file \in Files : LoadFactsRefused(file) \/ LoadFacts(file) \/ LoadFactsFail(file)
  \/ \E required \in RuleKinds : LoadRules(required)
  \/ PermRead \/ TxnBegin \/ TxnCas \/ TxnAbort \/ TxnCommit
  \/ CloseReopen \/ KillReopen

Spec == Init /\ [][Next]_vars

-----------------------------------------------------------------------------
(* Properties *)

TypeOK ==
  /\ rows \subseteq [Cols -> ColumnValues] /\ Cardinality(rows) <= MaxRows
  /\ {kinds, relsTxt, earned, left, rules} \subseteq Kinds
  /\ {metaDirty, revRel, unwritten} \subseteq BOOLEAN
  /\ loose \subseteq rows /\ unseen \subseteq rows
  /\ dict \in BoundedSeq(Names, Cardinality(Names)) /\ saved \in 0 .. Len(dict)
  /\ txn.open => Len(txn.ops) <= MaxOps
  /\ pidx.dirty \in BOOLEAN

\* The kinds that are there to stay: earned, or left where nothing is earned.
Settled == [c \in Cols |-> IF earned[c] # KIND_UNKNOWN THEN earned[c] ELSE left[c]]

\* Outside a transaction the recorded kinds are exactly those that accepted
\* operations established and those left by a failed write: a refused add, a
\* load refused in the middle of a file, and an aborted or abandoned
\* transaction leave none behind.
KindsEarned == ~ txn.open => kinds = Settled

\* rels.txt keeps up, unless an abort could not rewrite it: outside a
\* transaction a kind that is not in it is marked to be written at close; and
\* it never holds a kind that was neither earned nor left by a failed write,
\* except while a transaction is open that wrote it by declaring "rev".
KindsPersist ==
  ~ unwritten =>
    /\ ~ txn.open /\ ~ metaDirty => relsTxt = kinds
    /\ \/ \A c \in Cols : relsTxt[c] \in {KIND_UNKNOWN, Settled[c]}
       \/ txn.open /\ revRel /\ relsTxt = kinds

\* Rules loaded before the facts still fit: no kind is ever recorded that
\* contradicts a constant of the resident rules.
RulesFit == Fits(kinds, rules)

\* What a caller reads.  The reads depend on the rows, the index and the names
\* only, so they are evaluated in the states where all else is quiet.
Quiet ==
  ~ txn.open /\ ~ metaDirty /\ rules = NoKind /\ ~ revRel /\ left = NoKind /\ ~ unwritten

\* The values tried as arguments: those of the rows and what is next to them.
Probes == {0} \cup Values \cup {v + 1 : v \in Values}
Probe  == [Cols -> Probes]

Ranges == {r \in Probe \X Probe : r[1] = r[2] \/ Smaller(r[1], r[2])}
Leads  == {<<>>} \cup {<<v>> : v \in Probes} \cup Probe

\* What depends on the rows alone is evaluated once for each set of them.
Plain ==
  Quiet /\ pidx.dirty /\ loose = {} /\ dict = <<>> /\ \A c \in Cols : kinds[c] = KIND_INT

\* Reading by number over the encoded keys gives what the tuples themselves
\* say: the byte order of the keys is the order of the numbers, and the bound
\* reads see the whole of their part and no more, also for arguments that are
\* not there, at the ends and in empty ranges; a scan from rank to rank gives
\* the tuples of its range.
ReadsExact ==
  Plain =>
    LET d == dafsa_build_sorted(rows)
    IN /\ \A t \in Probe : rel_rank(d, t) = Rank(rows, t)
       /\ \A k \in 0 .. MaxRows : rel_select(d, Arity, k) = Select(rows, k)
       /\ \A r \in Ranges : rel_range_count(d, r[1], r[2]) = RangeCount(rows, r[1], r[2])
       /\ \A l \in Leads :
            /\ \A k \in 0 .. MaxRows : rel_select_bound(d, Arity, l, k) = SelectBound(rows, l, k)
            /\ \A t \in Probe : IsPrefix(l, t) => rel_rank_bound(d, l, t) = RankBound(rows, l, t)
            /\ \A r \in Ranges : IsPrefix(l, r[1]) /\ IsPrefix(l, r[2]) =>
                 rel_range_count_bound(d, l, r[1], r[2]) = RangeCountBound(rows, l, r[1], r[2])
       /\ \A x \in Probes :
            /\ rel_has_col0(d, x) = HasCol0(rows, x)
            /\ \A y \in Probes : rel_range_each(d, Arity, x, y) = RangeEach(rows, x, y)

\* Reads in permuted order agree with the rows whenever the index counts as
\* clean, but for exactly the rows that a failed load put under it, and select
\* undoes what rank maps.
PermutedReadsExact ==
  Quiet /\ ~ pidx.dirty =>
    LET indexed == rows \ unseen
    IN /\ \A t \in Probe : dl_rank_perm(pidx.keys, Perm, t) = RankPerm(indexed, Perm, t)
       /\ \A k \in 0 .. MaxRows : dl_select_perm(pidx.keys, Perm, k) = SelectPerm(indexed, Perm, k)
       /\ \A lo, hi \in Probe : ~ SmallerBy(Perm, hi, lo) =>
            dl_range_count_perm(pidx.keys, Perm, lo, hi) = RangeCountPerm(indexed, Perm, lo, hi)
===============================================================================
