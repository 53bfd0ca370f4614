# Verification of datalog-dafsa

TLA+ modules of the parts of datalog-dafsa whose correctness depends on the
order of steps: storage and its logs, transactions, the locks between
processes, the id tables, snapshot publishing, the evaluation and
incremental maintenance of derived relations, and the algorithms under them:
key order, cursors, joins, searches, automata, tuple sets, compiled rules.
TLC checks them on small instances; TLAPS proves the theorems of the `*Proofs`
modules for every value of the constants.

Paths below are relative to the repository; `dl.zig`, `vm.zig`, `relation.zig`
and the like stand for `src/zig/src/<name>`.

    tlc -workers 2 -config RelationStore_full.cfg RelationStore.tla
    tlapm RelationProofs.tla

## 1. Inventory

### Components, their state and operations

| Component | Source | State | Operations | Correct when |
|---|---|---|---|---|
| Relation storage | `relation.zig`, `dl.zig` | BASE DAFSA, hot-write overlay, read state (deferred, view, owned), dirty flag; on disk the DAFSA file and the WAL | open, lookup, enumerate, add, delete, bulk load, overlay flush, compact, close | reads answer from the acknowledged contents in every read state; a stop at any point recovers what the durability contract says |
| Transactions | `txnwal.zig`, `dl.zig` | the buffer of the open transaction; on disk `txn.wal` | begin, buffer an add, delete or compare-and-set, rollback, commit, `dl_cas_revision`, replay at open | a commit is all or nothing over all relations, and permanent once acknowledged; an entity has one revision |
| Directory lock | `dl.zig` 800-960 | byte 0 and byte 1 of `LOCK`, nesting depth of the mutation window | open rw and ro, window begin and end, bounded wait, close | one writer per directory; no file is replaced under a reader's open; nobody waits forever where readers' opens leave gaps |
| Read-only open | `dl.zig`, `relation.zig` | a reader's per-relation read states | open, first touch, close | what the reader loads is a state the writer had |
| Interner, term store | `intern.zig`, `termstore.zig` | the table of names, a dirty flag; `symbols.array`, `terms.bin` | intern, cons, save, load | an id keeps its name for as long as anything refers to it |
| Snapshots | `dl.zig` 4600-5900, `snapshot.zig` | version directories, `CURRENT`, content revisions and watermarks, the view cache | publish, publish if needed, prune, query a version | `CURRENT` names a complete version; a version never changes; a skipped or linked file has the right bytes |
| Rule evaluation | `vm.zig` | idb, delta and added sets of a stratum, the views | evaluate a stratum from scratch or incrementally | the views are the least model of the stratum, whatever the order of the rules |
| View maintenance | `dl.zig` 4860-5010, `vm.zig` 2820-3480 | pending adds and deletes, the re-evaluation and dirty flags | propagate, delete-rederive, increment, re-evaluate, query | after a consolidation the views are the model of the asserted facts, whichever algorithm ran |
| Compiler, stratification | `compiler.zig`, `dl.zig` 3732-4091 | dependency graph, strata, compiled rules | compile, load rules in batches | batches add up to one program; a rule reads only complete lower strata under negation |
| Queries with rules | `wfs.zig`, `dl.zig` 4196-4427 | a clone of the database, the last points of the alternation, complements | evaluate, alternate | the true part of the well-founded model |
| Column kinds | `typecheck.zig`, `dl.zig` | recorded kinds per column, `rels.txt`, a flag that it lags | record, conflict, recheck of the rules, roll back | kinds are those of accepted operations, in memory and on disk, but for what a failing write leaves, and no resident rule contradicts them |
| Reads of a relation | `relation.zig`, `dl.zig` | the automaton of the encoded keys | lookup, prefix, rank, select, ranges, each also under a bound prefix | the answers are those of the set of tuples in column order |
| Permutation indices | `permindex.zig` | a permuted copy per column order, a dirty flag | build, mark dirty, permuted rank, select, range | agrees with the relation whenever it is read |
| Cursors, merge join | `iter.zig` | a stack of states and edges per cursor | open, seek, next, join | enumerate, from the prefix last sought, each tuple once; pair every two rows of equal keys |
| Tuple sets | `tupleset.zig` | an array of rows and a hash index into it | add, contains, sort, prefix | is a set, before and after a sort or a growth |
| Patterns | `regexwalk.zig`, `dl.zig` | an automaton per query | compile, scan, product walk, edit distance | report exactly the matching names and rows |
| Full-text index, graph memory | `index.zig`, `dl.zig` 6338-6750 | postings, a search or a walk in progress | index, search, rank, traverse | agree with counting terms, and with distance in the graph |
| Lists | `termstore.zig` | interned cons cells | cons, append, car, cdr | a handle stands for one list, equal lists share it |
| Compiled rules | `compiler.zig`, `vm.zig` | instructions; bindings, frames, half-results | compile, execute, backtrack | derive what the text of the rule says |
| Parser, schema file | `parser.zig`, `schema.zig` | none across calls | parse | accepts the grammar |
| Variable-arity relations | `vrelation.zig` | one relation per arity | as relations | as relations |
| C ABI, CLI, Python | `dl_cli.zig`, `src/src/*.h`, `src/python` | none | marshalling | |
| DAFSA library | empty submodule | a set of words; a self-framed log | save, append, replay | external |

### How they interact

A caller's add goes first to the id tables, which are saved if dirty, then to
the relation's WAL, then to the overlay, and last to the pending delta the
next consolidation reads (`dl_add_fact`). A transaction is buffered and, at
its commit, goes to `txn.wal` and then to memory; it never touches the
per-relation WALs. A consolidation syncs the WALs, folds the overlays and
brings the views up to date. A publish gates each file by a revision counter,
links or writes it, renames the directory and flips `CURRENT`. A compaction or
a publish runs inside the mutation window of the directory lock; a read-only
open of another process holds the same byte shared until it has replayed the
logs. Recovery at open reads the id tables, replays each per-relation WAL over
its DAFSA file, then the committed part of `txn.wal` over all of them.

### What is hard here

- *Crash points*: compaction saves a file and truncates a log in two steps; a
  commit has four kinds of step; a publish has six; the replay at open
  compacts relation after relation before it empties its log.
- *Two logs*: direct writes and transactions are logged separately and
  replayed one log after the other.
- *Processes*: two writers, readers beside a live writer, each able to die.
- *Stale decisions*: deferred loads, dirty flags, watermarks that are compared
  later with counters that moved, cached views of versions that are gone.
- *Partial failure*: a failing save, truncation, fsync or evaluation leaves a
  handle that goes on.
- *Choice of algorithm*: four ways of bringing views up to date, chosen from
  what is pending and from what the rules use.
- *Fixpoints*: delta joins that must neither lose a pair nor run forever.

`PROJECT.json` lists each hazard at its line, with the properties about it.

## 2. Plan

In the order of importance; all of it exists, except what section 8 lists.

1. `Wal`, `FactStore`, `RelationStore`: storage of a relation. `FactStore` is
   the abstract promise, `RelationStore` implements it.
2. `TxnOps`, `TxnContract`, `TxnStore`: transactions and compare-and-set over
   several relations.
3. `LockContract`, `DirLock`: the locks between processes.
4. `ReaderOpen`: a reader beside a writer, composing the storage and log steps
   of 1 and 2 with the window of 3.
5. `NameContract`, `Vocabulary`: ids and their durability.
6. `SnapshotContract`, `Publish`: snapshots and retention.
7. `Datalog`, `SemiNaive`: what a rule is, and the fixpoint of a recursive
   stratum, step by step.
8. `Stratify`, `Evaluate`, `ProgramContract`, `Views`: loading a program in
   batches and maintaining its views.
9. `Queries`: queries that bring their own rules, with the alternating fixpoint
   of `wfs.zig`, asked of the database of `Views`.
10. `TableReads`, `RuleBodies`: what the headers promise of reads, searches,
    patterns, lists and single rules; `Keys`, `Cursor`, `Search`, `Lists`,
    `Patterns`, `TupleSet`, `Bytecode`: the algorithms; `Tables`: one relation
    with its column kinds and a permutation index; `Reads`: every algorithm fed
    with its rows.

Twelve runs answer the questions asked. Theorems: every safety property and
every refinement of storage, transactions, locks, readers, ids and snapshots;
the exactness of the semi-naive fixpoint; stratification, loading in batches and
the choice of the maintenance algorithm; the complements of the alternation; the
column kinds, the key order, reads by number and the permutation index (section
6). Next in line
would be the evaluation of a whole program (`ViewsExact`), which needs the
meaning of one pass over the rules stated without an enumeration of them.

## 3. Modules

Two kinds of module describe the same thing. A *contract* is translated from a
header (`src/src/*.h`): what a caller is told, with no files, logs or
algorithms. A *detailed* module is translated from the Zig source. A run checks
that the second implements the first, as a refinement (`INSTANCE ... WITH`) or,
for pure reads, as equality in every reachable state.

| Contract | From | Implemented by | As |
|---|---|---|---|
| `FactStore` | `dl.h` adds, deletes, cycle boundary | `RelationStore` | `KeepsPromise` |
| `TxnContract` | `dl.h` transactions, compare-and-set | `TxnStore` | `KeepsTxnContract` |
| `LockContract` | `dl.h` concurrency contract, opens | `DirLock` | `KeepsLockContract` |
| `NameContract` | `dl.h` interning, `termstore.h` | `Vocabulary` | `KeepsNameContract` |
| `SnapshotContract` | `dl.h` publish, versions, retention | `Publish` | `KeepsSnapshotContract` |
| `ProgramContract` | `dl.h` accumulation contract, `vm.h` | `Views`, `Queries` | `OneProgram`, `RoutesAsPromised`, `ViewsExact`, `WfsExact` |
| `TableReads` | `dl.h`, `relation.h`, `index.h`, `regexwalk.h`, ... | `Keys`, `Cursor`, `Search`, `Lists`, `Patterns` | `ReadsExact` ... `PatternsExact` (of these `ReadsExact`, `PermutedReadsExact` also as theorems) |
| `RuleBodies` | `parser.h`, `compiler.h`, `vm.h`, `tupleset.h` | `TupleSet`, `Bytecode` | `TupleSetsExact`, `RulesExact` |

| Module | Models | Used by |
|---|---|---|
| `Wal` | log records, replay, prefixes | `RelationStore`, `TxnOps`, `ReaderOpen` |
| `RelationStore` | one relation | `RelationProofs` |
| `TxnOps` | operations of a transaction, their records, revisions | `TxnContract`, `TxnStore` |
| `TxnStore` | transactions over several relations | `MCTxnStore`, `TxnProofs` |
| `DirLock` | the byte-range locks | `ReaderProofs` |
| `ReaderOpen` | readers beside a writer | `MCReaderOpen`, `ReaderProofs` |
| `Vocabulary` | symbols and list nodes | `MCVocabulary`, `VocabularyProofs` |
| `Publish` | snapshots | `MCPublish`, `PublishProofs` |
| `Datalog` | rules, joins, override joins | `SemiNaive`, `Stratify` |
| `SemiNaive` | a recursive stratum | `MCSemiNaive`, `ProgramProofs` |
| `Stratify` | strata and recursion of a set of rules | `Evaluate` |
| `Evaluate` | evaluation of a program, as operators | `Views` |
| `Views` | loading rules, view maintenance | `Queries` |
| `Queries` | queries with rules of their own, on the database of `Views` | `MCViews`, `ProgramProofs` |
| `Keys` | encoded keys, their automaton, the reads over it | `Cursor`, `Patterns`, `Tables` |
| `Cursor` | cursors and merge join | `Search`, `Patterns`, `Reads` |
| `Search` | index, searches, traversal | `Reads` |
| `Lists` | the list store | `Reads` |
| `Patterns` | expressions, automata, edit distance | `Reads` |
| `TupleSet` | the hashed array of rows | `Bytecode` |
| `Bytecode` | code of a rule and its execution | `Reads` |
| `Tables` | one relation with kinds, index and transaction | `Reads`, `TablesProofs` |
| `Reads` | every read, search, pattern and rule over its rows | `MCTables` |
| `WalProofs` | lemmas on logs and replay | `RelationProofs`, `ReaderProofs`, `TxnProofs` |
| `RelationProofs`, `TxnProofs`, `ReaderProofs`, `VocabularyProofs`, `PublishProofs`, `ProgramProofs`, `TablesProofs` | theorems | |

Facts, names and contents are opaque values: encodings are injective and play
no part in the properties. Definitions keep the names of the functions they
model where that is possible. `map` in `PROJECT.json` gives the lines of each.
History variables (declared as such) appear in no guard.
Operators called `Faulty...` are plausible bugs; none is part of a
specification, each stands for a mutation that a property was seen to catch.

### RelationStore

`base`, `ov` and `state` are `r.base`, `r.ov` and `Relation.state`; `file`,
`wal` and `synced` are the DAFSA file, the log in the page cache and the part
of it that was fsynced. `pc` splits `rel_compact` at the two places where
something can come between: before `dafsa_save` and before `ftruncate`. The
other calls hold no file in an intermediate state another step could see, and
are one action. `CompactFail` stands for any failing call in a compaction; its
result is ignored by every caller, as in the code. `Kill` keeps the page cache,
`PowerLoss` cuts the log to any prefix that contains what was synced.

History: `facts` is what the acknowledged operations add up to, `may` the
contents a power loss is allowed to leave. Two exceptions are named by
variables of their own, and the properties are exact outside them:

- `stale`: facts bulk-loaded while the WAL still has a record about them
  (`dl_load_facts` writes the DAFSA file and leaves the WAL alone,
  `dl.zig:2085`). A replay then undoes the load of these facts.
- `early`: a threshold compaction, or a bulk load, saved the file while the
  WAL had unsynced records (`relation.zig:1820`). A power loss before the next
  sync replays a prefix of the log over a file that is already ahead.

### TxnStore

One action per append, marker, fsync and apply of `dl_txn_commit`, with a
compaction that the apply of an add may start, and the replay of `txn.wal` at
open with its compaction of each touched relation. One relation is the internal
`rev`: `CasRevision` checks and deletes the old row, `CasWrite` adds the new
one, and anything may come between the two records; a compare-and-set inside a
transaction is checked at commit (`NoConflict`) and logged as both records
(`SwapRecords`; a buffer has one at most, so `Records` needs no recursion).
`byTxn` are the facts last
written by an acknowledged commit; `stale` are the facts written directly
after a commit logged them, and those of a commit whose fsync failed.

`OneRevision` says no step gives an entity a second revision, nor one while a
direct swap has written only the first of its two records; except where the
two logs disagree on a revision row (`stale`), and a power loss that takes a
direct swap from under a durable transaction built on it.

### DirLock and ReaderOpen

Their definitions have distinct names (`LockInit`, `LockNext`, `LockSpec`), so
that one module can prove about both. `DirLock` models what fcntl does as the
code uses it: locks belong to the process, closing any descriptor drops them,
death drops them, and a waiter does not keep later requests out. A process has
one handle per directory. What is promised to writers holds where, again and
again, no reader is inside its open (`OpensHaveGaps`); two readers are enough to
refute it without that (section 7). `ReaderOpen` takes the window as atomic and asks what
a reader sees: it interleaves the per-relation steps of the open (the size of
the WAL, the file, the replay) with appends, commits, applies, compactions and
deaths of the writer, which take no lock except for the window.

History: `since` are the contents the writer has had since a reader's open
began. `direct` are the facts written directly during the open: a reader sees
them as of the moment its open came to their relation, all others as of its
end, when `txn.wal` is replayed.

### Vocabulary

Two tables, `sym` and `term`; saving the first is an append in place and may be
torn, saving the second is a rename. `spill` follows the one way a table can be
marked clean without being saved under the root: `term_save` into a snapshot
directory clears the store's only dirty flag (`dl.zig:5204`), and a root save
of the symbols that fails inside a publish loses the flag that `intern_save`
cleared (`dl.zig:5178`).

### Publish

A publish is a sequence of actions: `Begin`, one `SaveRel` for each relation,
`SyncTmp`, `Rename`, `Flip`, `Commit`; `Fail` and `Kill` can replace any of
them. What a relation holds is one value. `harmed` names two kinds of version:
one that CURRENT names although its directory was removed, because the fsync
after the rename of CURRENT failed and the cleanup took that for no flip
(`dl.zig:5362`), and one whose manifest, which nothing fsyncs, a power loss
took (`dl.zig:5321`).

### SemiNaive

One recursive stratum: `SeedRound`, `FixpointRound`, `Write` are the parts of
`evalStratumRecursive`. A program is a set of ground instances; other strata
are the fixed set `ext`. `Least` is the meaning, by intersection of all models,
and shares nothing with the evaluator but `Derive`.

### Stratify

`compute_strata` as operators over a set of dependencies (`Edge`): the two
fixpoints over stratum numbers (`Raise`, `Settled`), the components of the
positive graph (`Component`), and the recursion flags, which an earlier batch
seeds (`Recursive`). The code gives up after 10000 passes; a number that still
grows after as many passes as there are relations is on a cycle. `Stratifiable`
is the reference, by paths.

### Evaluate

`vm_execute` over a program and a store. Rules run in passes in source order,
reading what the rules before them committed, so that an unlucky order matters
as it does in the code. A program with recursion is evaluated stratum by
stratum, with at most `StratumCap` rules of each (256 in the code). `Meaning`
is the reference, stratum by stratum and independent of the order.

### Views

`LoadRules` loads a batch as `dl_load_rules` does: the batch is stratified
alone, then with all rules of earlier batches; either may refuse it, and what
is accepted is published to every rule. A program of the instance is a set of
batches that may come in any order, also only some of them. A rule carries two
inputs of the model about its plan: `opaque`, whether it has a walk or a
materialised half, and `via`, the relation joined on other than leading columns.
The latter is planned under the recursion vector of the moment (`Planned`) and
planned again for all rules when a batch changes that vector (`Plans`).

The other actions are `AddFact`, `DeleteFact`, `LoadFacts`, `LoadFactsFail`,
`Query`, `Compile`, and a consolidation as four actions, one for each branch of `consolidateInner`,
guarded by the branch conditions as the code computes them (`Path`,
`IvmEligible`, `DredEligible`). `ProgramContract` says by dependency cycles and
models, not by flags and strata, which programs each algorithm is for and what
it may change; `RoutesAsPromised` compares. Every evaluation may also stop after
any stratum or batch with an error (`EvaluateFail`, `ReevaluateFail`,
`IncrementFail`).

`LoadFactsFail` is the load that has replaced BASE and fails to save the
interner or the term store: it returns before the delta, the flags and the
indices are told (`dl.zig:2065`, `dl.zig:2080`).

History: `missed` (the deletion divergence of section 7), `torn` (an
evaluation failed, the heads are at their base, and neither a flag nor a
pending delta remembers it) and `untold` (facts of failed loads that no delta
and no evaluation has taken up).

### Queries

A query with rules runs on a clone and changes nothing, so it is an operator of
what the views hold, and `WfsExact` a property of every answer. `WfsEvalQuery`
is `wfs_eval_query`: the refusal of negated relations that are no heads, the
fast path for stratified programs (`QueryRulesRo`), else the rounds. A round
(`Round`) brings the complement of each negated relation up to date, by the
difference of two snapshots or from scratch (`Refreshed`), checks it as the code
does in its verify mode, evaluates the rewritten program and compares the result
with the last two points. The complement is a positive atom no rule writes,
which is the same as keeping the instances whose negated facts are in it
(`Rewritten`). Values of columns matter only for the active domain: a value that
no positive atom binds is a constant of the rule. `RebuildDenom` is the limit
for differences, 8 in the code. `WellFoundedModel` is the reference, by
unfounded sets.

### Keys, Cursor, Search, Lists, Patterns, TupleSet, Bytecode

Each is a set of operators, one per function of the source, over small data: a
column is encoded as `Width` digits of base `Radix` in place of four bytes, most
significant first, so that the order of keys is a fact and not an assumption;
the automaton of a set of keys is the external library's, walked by states and
edges. `Cursor` keeps the explicit stack of `iter.zig`, so that a cursor is a
value that can be advanced, abandoned and sought again. `Patterns` builds the
NFA fragments of the recursive-descent parser from an expression tree, then the
table by subset construction, and the edit-distance table from rows of
distances. `TupleSet` keeps the array and the slots of its hash index, with
probing, growth and the rebuild after a sort. `Bytecode` is the emission part of
`compile_one` (join order, permuted and hash joins, the split of a body into two
materialised halves, negation, equalities, arithmetic, ranges, comparisons,
aggregates) and `execRange` with its frames, one instruction at a time;
`MAX_FRAMES` is 3 in place of 8, numbers wrap at `Modulus`.

### Tables

One declared relation of two columns: `rows`, the recorded `kinds`, the kinds in
`rels.txt` and the flag that it lags, the interner as far as it tells a symbol
id from a raw integer, the kinds the constants of the resident rules demand, the
transaction buffer, and the permutation index. Actions are the operations of
`dl.h` on it, accepted, refused and failing at a write, with `TxnCas` for its
side effect on `rels.txt` (declaring `rev` writes the file while the kinds of
the open transaction are in memory), closes and kills. `AddFactFail` and
`LoadFactsFail` are the returns that come after the kinds were recorded and take
nothing back: at a save of the interner or the term store, at the append to the
WAL, and at the new BASE.

History: `earned`, the kinds accepted operations established; `left`, those a
failing write or a kill leaves where nothing is earned; `unwritten`, that an
abort could not rewrite `rels.txt`; `unseen`, the rows a failed load put under an
index that counts as clean. `loose` stands for what RelationStore has in detail:
the rows that are in memory only, and that a kill loses.

### Reads

`Reads` extends `Tables` with the properties of what is read: the rows of each
reachable state feed the operators above, as tuples, as postings, as edges, as
lists, as relations of a rule's body. It is apart because these operators
recurse, and a module that reaches a RECURSIVE operator can hold no theorem; the
reads by number, straight and through the permutation index, do not and stand in
`Tables`.

## 4. Runs

| Run | Instance | States | Shows |
|---|---|---|---|
| `relation_full` | 2 facts, WAL of 4, all features | 370,028 | reads are current in every read state; a kill or a power loss at any step recovers what is promised; the relation implements `FactStore` |
| `txn_full` | a relation with a fact, `rev` with an entity of two revisions, WALs of 1, transactions of an add or a delete, a swap, or one and then the other | 195,743 | commits are atomic over relations and durable; one revision per entity; the store implements `TxnContract` |
| `txn_order` | the same without compactions and failures | | violation, section 7 |
| `lock` | 2 writers, 2 readers, 1 retry | 6,560 | exclusion, that a reader's open ends, that each writer that waits is served if the readers' opens leave gaps, and `LockContract` |
| `reader` | 2 facts of one relation and one of another, 1 reader, WALs of 2, transactions that replace a fact | 2,585,939 | what the reader loads is a real state; the open is atomic |
| `vocabulary` | 3 names, 2 ids per table, 2 snapshots | 778,699 | ids keep their meaning, in the store and in snapshots; `NameContract` |
| `publish` | 2 relations, 2 contents, retention of 2, 3 versions, 1 revision, 1 cache slot | 835,668 | CURRENT is complete, skips are right, views coherent; `SnapshotContract` |
| `seminaive` | every subset of 7 instances, every input, both modes | 45,244 | the fixpoint ends at the least model |
| `views` | 8 programs in up to 3 batches, 3 assertable facts, the load of one may fail | 89,496 | batches add up to one program or are refused; each change takes a path meant for it; views are the model after every consolidation; each of 511 query programs over each store is answered by the well-founded model |
| `views_order` | one program in an unlucky order | | violation, section 7 |
| `views_deletes` | the chain program | | violation, section 7 |
| `tables` | 2 values, 2 columns, 3 rows, 4 CSV files, transactions of 2, 24 rules, 77 expressions | 786,574 | kinds are earned or left by a failing write, persisted and fit the rules; a clean index lacks only what a failed load put under it; every read, cursor, search, list, pattern, tuple set and rule gives what the rows say |

Each module also has a type invariant, `TypeOK`. It says nothing about the code
that the properties do not, so the runs leave it out; it was checked with TLC on
the same instances, and is proved where a proof rests on it.

### Why the bounds are enough

- *Facts.* Each storage property is about one fact at a time or about a set
  against a log. Two facts show a step disturbing the fact it is not about.
- *WAL length.* Four records hold an add, a delete and an add of the same fact,
  or an interleaving of two facts. A prefix of them has every combination of
  synced and lost. `relation_full` lets a log fill, be compacted and fill again,
  without a bound on the number of rounds.
- *Transactions.* An add or delete before a swap (`SwapLast`) reaches both
  relations, and the swap alone is already two records. `MaxTxnWal = 1` lets a
  log that holds the records of a commit that failed take another; a second
  commit onto a log that already holds a complete one is outside the bound of
  the run, and inside what `TxnProofs` proves.
- *Readers.* Two facts in one relation are what a direct write and a commit need
  to reach one relation during one open. `FewMoments` follows a reader while the
  writer goes through three contents, `MaxMoments`; a third fact in the other
  relation shows an open that comes to two relations at two moments.
- *Processes.* Two writers queue behind one another; a third adds only another
  in the queue. Two readers are what overlapping opens need. The theorems of `ReaderProofs` are for any number.
- *Versions.* With retention of two, three versions are needed for a prune that
  removes something.
- *Names.* Three names for two ids: a table can be full, and a torn append can
  read back as each of the others. The run follows a behaviour until a table has
  lost ids to the divergence above (`NothingLost`).
- *Programs.* The seven instances are base rules, linear and non-linear
  recursion, a cycle, a repeated atom and negation; the rule sets of `Views`
  take each of the four algorithms (propagation and delete-rederive;
  delete-rederive with resets; increments; full evaluation).
- *Batches.* One program raises the strata of its first batch with the second
  and can close a cycle through negation with the third; another becomes
  recursive with its second. `OneProgram` is evaluated where no fact exists: a
  load reads no fact, so every program that can be loaded is loaded there.
- *Failed loads.* `Fragile` has the fact `m`, which nearly every program reads
  and none derives: it is in the views as in the base, and what follows from it
  is missing.
- *Reads.* Two values and two columns give sixteen sets of up to three rows and
  all arguments around them, absent ones, ends and empty ranges included. Reads
  depend on the rows only: they are evaluated in the states where nothing else
  goes on (`Quiet`), those that need neither the index nor the names once for
  each set of rows (`Plain`).
- *Rules.* The rules have one to four relational atoms, repeated variables,
  constants, negation with bound and free variables, each built-in, each
  aggregate, and bodies beyond the frame limit; each is compiled under every
  setting of the three switches and three states of the catalogue, and run once
  plainly and once for every delta standing in for each of its atoms. Four atoms
  are the least that a bushy plan splits.
- *Tuple sets.* Four slots at first and rows that collide: probing, growth and
  sorting in between all happen with the four rows.
- *Queries.* Every program out of nine rules with even and odd cycles through
  negation, chains of it, recursion and constants. Alternations take up to four
  rounds; with `RebuildDenom = 1` the small complements are updated by
  difference as well as rebuilt. `WfsExact` is evaluated where facts were only
  added, which has every store.

Deadlock is checked everywhere except in `seminaive`, where the evaluation is
over.

## 5. Fairness

Only two runs use it.

- `lock`: a call that has begun goes on (`WF` on the end of a window, of an
  open and of a close, and on the reader's polling); an application closes its
  writer handle eventually (`SF` on the window a close begins with); the kernel
  does not pass a waiter of `F_SETLKW` over for ever when the byte is free again
  and again (`SF` on the grants). Nobody has to open, write or die.
  That last one says nothing while the byte is never free, which two readers
  can bring about by opening in turns: `QueueServed` and `WindowServed` assume
  `OpensHaveGaps`, and section 7 says what TLC finds without it. A holder that
  closes needs a window too, so the queue depends on the gaps as well.
- `seminaive`: the evaluation is one call that runs to its end.

## 6. Proofs

Assumptions are those the modules declare: `NoFact`, `NoRel` and `Missing` are
nothing else in the model, bounds are naturals, a fact belongs to one relation,
two revisions of an entity are two rows and a compare-and-set is between
revisions, the heads of a stratum's rules are heads and none of its negated
facts is. For `Tables`: the values of rows and their successors fit a column, as
do the ids of all names; there are finitely many names; a CSV file is a sequence
of lines with a cell for each column; `Refused`, what a read returns with an
error, is no tuple. The number base of a column's digits and their number are
any naturals (from 2 and from 1). Sets of facts, processes and programs may be
infinite, logs are finite and of any length.

**RelationProofs.** `TypeOK` is inductive by itself (`TypeCorrect`).
`ReadsAreCurrent` and `KillSafe` are not: `IInv` adds

- `Handle`: only an owned relation is dirty, has an overlay or is inside a
  compaction, and a relation that was not loaded has an empty WAL - otherwise
  the file would not be what it shows;
- `Contents`: an owned relation holds the facts in `base` and `ov`, any other in
  its file;
- `OverlayLog`: the last record about an overlay fact is an ADD, needed where a
  bulk load makes the file ahead of the log;
- `SavedFile`: between the two halves of a compaction the file has everything,
  so a replay of the old log over it changes nothing.

`PowerSafe` is inductive relative to `IInv` (`PowerStep`); each log operation
is a lemma of `WalProofs` about `Replay` after an append and of prefixes.

`StorageKeepsPromise` is the refinement `KeepsPromise` for every set of facts,
log bound and choice of features. The contents of `FactStore` are what a read
sees through an open handle, or what the next open would recover (`Seen`). Under
an open handle `IInv` makes that the acknowledged contents; across a stop it
agrees with them outside the rows `Uncovered` names, which is where the contract
lets go as well. Two facts are needed on top of `IInv` and `PowerSafe`: a handle
that is not dirty, which a close does not compact, has an empty log and nothing
in its overlay (`Clean`), and there is always some contents a power loss may
fall back on (`Left`). `StepRefines` then has one case per action.

**ReaderProofs, the locks.** `LInv` (`LockInvariant`) ties each handle to the
lock it believes it has (`Backed`), says that an exclusive lock is alone on its
byte (`Disjoint`), that the nested window does not end the outer one (`Depth`)
and that a process has one handle (`OneHandle`), without which a close would
drop another handle's locks. `SingleWriter` and `WindowKeepsReadersOut` follow
for any number of processes. `LocksKeepContract` is the refinement
`KeepsLockContract`: each step of the locks is an open, a replacement of files,
a ready reader or a departure of `LockContract`, or changes none of it
(`RwRefines`, `RoRefines`). It needs one more part of the invariant, that no
lock outlives what it was taken for (`NoneStale`); else an open that must
succeed could be refused.

**ReaderProofs, the opens.** `WriterInv` says that files and logs give the
committed contents at every moment (`Recoverable`), that what memory lacks is
the commit being applied (`Memory`), and that in the window no reader is opening
(`Window`), so that no file changes under an open. `ReaderOk` says what each
relation of a reader holds along its open (`Opening`): facts that `txn.wal` does
not touch are as of the moment the open came to the relation, and unless written
directly still so. The replay of `txn.wal` at the end decides the others, which
makes it the committed contents over all relations together (`OpensAreAtomic`).
For relations not yet touched, the file and the writer's memory are contents the
reader may show (`LiveTouch`), since a compaction may save one before the first
touch (`ReadsAreReal`).

**ProgramProofs, a recursive stratum.** Soundness: `idb` stays inside `Least`,
because what a rule derives from facts of the least model is in it.
Completeness: `Pending` says of every instance whose body is in `idb` that its
head is there already, or that it reads the last delta; folding the delta and
firing the rules on it keeps that (`RoundKeepsPending`), and a round without
candidates therefore leaves `idb` closed (`NoCandidatesClosed`). The incremental
seed starts from the least model of the old facts, which is inside the new one
because the rules are positive (`LeastGrows`). From scratch the exact statement
is restricted to `Covered`, see section 7.

**ProgramProofs, strata.** The code raises strata until nothing changes, at most
10000 times (`Settled`), and refuses what has not settled then. A pass that
changes something raises a relation, and over `NRels` relations none rises above
the number of negated edges unless a cycle runs through one: so an accepted
graph has no such cycle (`AcceptedIsStratifiable`), one without is accepted
(`StratifiableIsAccepted`), strata grow along edges and strictly along negated
ones (`StrataAreOrdered`), and relations that depend on each other share one
(`OneStratumPerComponent`). The model's passes are bounded by the number of
relations; the code has at most 64 (`MAX_RELS`), so that its 10000 passes never
end what would still settle.

**ProgramProofs, loading.** `OneProgram` compares what is loaded with one load
of all batches. It is not inductive: the next batch is compiled on top of flags
and strata of the ones before. `ProgramInv` says that every rule loaded is the
rule `Compiled` under the strata and the recursion of all rules' edges together,
and that these strata are accepted. A load keeps it because edges only grow:
what was recursive stays so (`RecursiveGrows`), and a graph that is stratifiable
has only stratifiable parts (`StratifiableShrinks`), which makes the refusals
agree. `BatchesAreOneProgram` follows, for any rules and any number of batches,
and `RoutesAreEligible`: the flags the code chooses a route by are those of the
program's graph, so that propagation is taken only without recursion, increments
only with it and without a delete, DRed only where deletes can be followed, and
the full evaluation only where none of them is or where it was asked for.

**ProgramProofs, complements.** `AltInv` says of each round of the alternation
that the complement it was given is exact for the snapshot it was computed from.
`ComplementsAreExact`: the update by difference and the rebuild give the same
set, for every number of rounds and every `RebuildDenom`; the facts are finite
there, as every domain of `wfs.zig` is.

**TxnProofs.** The log has a *settled* part: all of `txn.wal` up to its last
marker, without the commit that still waits for its fsync (`LogTail`). `Logs`
says that, fact by fact, the settled log decides if it touches the fact, and
else the relation's file with its WAL; together they give the acknowledged
contents, with the commit in them while it is being applied. That much implies
`TxnAtomic`, but is not inductive: a compaction saves what is in memory
(`Memory`, `SavedFile`), and the end of a recovery empties the log, which is
right only because each relation it touches was compacted before (`Recovery`).
For `TxnDurable` every cut of every log has to be looked at: the synced part of
`txn.wal` reaches the settled end or ends at a marker, what a cut can take is
about no durable fact, and a durable fact the log does not mention is in its
file and has no direct write awaiting replay (`Durable`). `RevisionsStaySingle`
needs one more part: a commit under way was found without a conflict in the
contents it still starts from (`Validated`); then a buffer's records touch the
rows of its one swap only (`SwapInBuffer`). `StoreKeepsContract` maps the
contents to what a caller sees, or would see after an open (`Seen`); the log
and the apply are hidden, the step that returns from the commit is the
contract's, and a stop is one that shows the commit entirely or not at all.

**VocabularyProofs.** A table in memory continues its root file (`Rooted`), the
root file names what facts refer to (`Meant`), a published table is a part of
it (`Snapped`), and each step of an add or a publish relies on the ones before
(`Underway`). A table may have lost ids to the divergence of section 7: the
proof covers the other table then, beyond what the run follows. `MeaningIsKept`
and `VersionIdsKept` follow, and the refinement `VocabularyKeepsContract`.

**PublishProofs.** `Building` says what each step of a publish has in its
directory, `Chain` how far the process's version and CURRENT can be apart,
`Orphans` which directories a crash leaves, and `Marks` that a watermark equal
to the revision stands for a file with the contents, which makes a link or a
skip right (`SkipsAreSound`). `ViewsAreCoherent` needs `Mapped`: a cached view
has the bytes of its version, except for the one being replaced. That CURRENT
is there (`CurrentIsComplete`), and so the refinement `PublishKeepsContract`, is
proved for every retention but 1: with that one the code can remove it (section
7). The default retention is 0, which keeps every version (`dl.zig:1029`).

**TablesProofs, kinds.** `KindsEarned`, `KindsPersist` and `RulesFit` lean on
each other (`KInv`). The *settled* kinds are the earned ones and, where nothing
is earned, those left by failing writes (`Settled`); no kind is both
(`Exclusive`). An abort returns to the kinds that were there before the
transaction, and those are the settled ones (`Returns`); kinds that are not
settled yet belong to a pending add (`Undecided`); without the dirty flag
`rels.txt` has the settled kinds (`Written`); and what `rels.txt` says is at most
what is settled, but for a transaction that declared `rev`, which writes the file
while its own kinds are in memory (`Disk`). The last two stop holding when an
abort cannot rewrite the file, until the next write or open (`unwritten`). A
write that fails settles the kinds it recorded like one that succeeds, by `left`
in place of `earned` (`Settles`), so the theorems are about all operations,
failing ones included. `RulesFit` is part of it since rules
add demands and operations add kinds. `KindsAreEarned`, `KindsArePersisted`,
`RulesStayFit`.

**TablesProofs, order of keys.** That a row's rank can be read off an automaton
of byte strings is a fact about positional digits (`DigitsOrder`, from the high
part of a number up to a digit, `HighPart`) and about concatenation
(`KeyShape`). `KeysKeepOrder`: keys compare as tuples do, column by column. From
it `RanksAreExact`, `RangeCountsAreExact`, `SelectsAreExact` and the scan from
rank to rank (`RangeScansAreExact`) for tuples of every length, base and width.
Ranks number the rows of a finite set without a gap (`RanksNumberRows`), and a
key read back is its row (`KeyReadBack`). Through a column order they hold as
well (`PermutedRanksAreExact`, `PermutedCountsAreExact`,
`PermutedSelectsAreExact`), because a column order is a bijection of rows
(`PermutedTuple`). Under bound columns the walk over their digits comes to what
is left of the keys that start with them (`StateReached`), and that is the
automaton of the suffixes of the tuples there (`PrefixStateIsExact`); suffixes
keep the order (`SuffixOrder`), so counting from that state is exact
(`BoundReadsAreExact`, `FirstColumnIsExact`).

**TablesProofs, rows.** To apply this to a reachable state needs that every row
is a tuple of column values: `RowInv` adds to `KInv` that rows are finitely many
such tuples (`RowsEncode`), that the dictionary numbers distinct names without a
gap and what is saved of it is a part (`IdsDense`), since ids become values, and
the ranges of the other variables (`Bounded`). `RowsInvariant`, `TypesHold`. An
index that does not count as dirty has the keys of all rows but `unseen`, those
that failed loads added since it was built (`IndexStaysFresh`); any other change
of the rows marks it, and building it takes them in. Together they
give `ReadsAreExact` and `PermutedReadsAreExact`: reads by number of a reachable
state, straight or through the permutation index, are what the headers promise.

**Only model-checked**:

- liveness (`QueueServed`, `ReaderBounded`, `WindowServed`, `Terminates`): the
  prover handles neither fairness nor ENABLED;
- `ViewsExact` and `WfsExact`: an evaluation is a fold of folds over the rules
  in the order of a sequence, and what it computes for every input needs
  induction over that data, which the prover cannot do (the library's induction
  theorems take an operator). Nor are they true of every value of the constants:
  a stratum beyond `StratumCap` or an unlucky order of rules refutes them
  (section 7). For the same reason the part of `RoutesAsPromised` that speaks of
  the result of a route, beyond `RouteIsEligible`;
- the properties of `Reads`: cursors, merge join, searches, patterns, lists,
  tuple sets and code of rules use RECURSIVE operators, in which the prover has
  no SMT.

Least elements of sets of naturals are within reach: `WFMin` with the order of
the naturals gives the last marker of a log, the first row of an entity, the
first id of a name and the first pass that changes nothing.

## 7. What the models show about the code

Three runs end in a counterexample to what the repository says.

1. `txn_order`: `txn.wal` is replayed after all per-relation WALs and is
   emptied only by the next open, not by `dl_close` (`dl.zig:3152`). A
   committed add that is deleted directly afterwards is back after a reopen,
   clean or not. `src/src/dl.h:193` says that everything before the last
   boundary replays at open.
2. `views_order`: a program without recursion runs all its strata in every pass
   (`vm.zig:2037`, called for the whole program at `vm.zig:2738`). If a rule of
   a low stratum stands before the one it reads, a rule above that negates its
   head fires in the first pass, and nothing takes the fact back.
3. `views_deletes`: the over-delete of DRed joins one deleted fact with the live
   views, from which the others deleted since the last consolidation are gone
   (`vm.zig:3279`). A derivation that used two of them is never found and its
   head stays.

Behaviour the models follow and state as an exception or describe:

- a bulk load over a WAL with records about its rows is undone by a replay
  (`stale` in `RelationStore`; `dl.zig:2085`);
- a threshold compaction makes unsynced records durable ahead of the sync
  point, so that a power loss does not leave one of the states since then
  (`early`; `relation.zig:1820`);
- a commit whose fsync fails returns an error and leaves its COMMIT marker in
  the file (`stale` in `TxnStore`; `dl.zig:3068`);
- a publish that saves the term store clears the flag the root file needs
  (`spill`; `dl.zig:5204`), and a failing root save inside a publish does the
  same for symbols (`dl.zig:5178`);
- a failing fsync after the rename of CURRENT, and a manifest that is not
  synced (`harmed`; `dl.zig:5362`, `dl.zig:5321`);
- retention counts directories, not published versions: an orphan directory of
  a crashed publish, above CURRENT, makes a prune with `Retain = 1` remove
  CURRENT's own (`dl.zig:4659`). The run uses two, with which one orphan takes
  the place of an old version only;
- a full evaluation that fails outside a consolidation, or inside one with
  nothing pending, leaves reset heads and no flag (`torn`; `vm.zig`
  `vm_execute`, `dl.zig:4925`);
- asserting a fact that is derived already is a duplicate and is not recorded
  (`dl.zig:2353`): when its derivation goes, so does it. `ViewsExact` is about
  the recorded facts;
- from scratch, the seed of a recursive stratum does not put the asserted facts
  of its heads into `idb`: a rule with two recursive atoms never joins one of
  them with a derived fact (`Covered` in `SemiNaive`; `vm.zig`,
  `evalStratumRecursive`);
- evaluating stratum by stratum, `vmExecuteMode` and `vm_dred_delete` collect a
  stratum's rules in an array of 256 and drop the rest without an error
  (`Collected`; `vm.zig:2749`, `vm.zig:3408`); the properties are about programs
  that fit;
- a deferred relation of a reader is read at its first touch, after the window
  was released, and shows the file of that moment (`relation.zig:349`), which
  may be the middle of a commit being applied when a compaction saved it;
- a read-only open comes to one relation after the other and replays `txn.wal`
  last: it can show a later commit without a direct write that came before it
  (`direct` in `ReaderOpen`; `dl.zig:3112`), where `dl.h:126` speaks of the
  committed state as of the open;
- overlapping opens of several readers can hold byte 1 shared without a gap,
  and a writer that waits for its window, to write or to close, then waits
  without bound. The comment at `dl.zig:894` takes the wait to be bounded ("the
  only holder that can be in the way is another process's open-time replay,
  which is bounded by its WAL size"), which is true of one reader only: TLC
  refutes `WindowServed` without its premise for one writer and two readers that
  open in turns, each before the other is done;
- a bulk load that fails to save the interner or the term store, with the new
  BASE in place, returns before it queues the delta, sets `fixpoint_dirty` and
  marks the permutation indices (`dl.zig:2065`, `dl.zig:2080`). The views are
  then stale and count as current (`untold` in `Views`), a clean index lacks the
  rows (`unseen` in `Tables`), and loading the file again finds no new rows and
  repairs neither: only another change of the relation marks the index, and only
  a full evaluation sees the facts;
- the comment at `dl.zig:2334` says that `loadKindRollback` is called "at EVERY
  failure return in dl_load_facts"; the returns at 2051, 2065 and 2080 do not
  call it, nor does anything in `dl_add_fact` after the recheck (2478-2515).
  The kinds recorded stay, `dl_close` writes them, and from then on rows of the
  other kind are refused by a column without a row (`left` in `Tables`);
- the rewrite of `rels.txt` in `txnAbort` may fail unnoticed, and leaves there
  the kinds of the aborted transaction, setting no flag that would have the
  file written again (`unwritten` in `Tables`; `dl.zig:2812`);
- a second handle of one directory in one process drops the locks of the first
  when it is closed (`dl.zig:1389`);
- a bulk load of a fact the overlay has counts it twice in `dl_count` until the
  overlay is folded (`relation.zig:975`), where `dl.h:372` speaks of distinct
  tuples; no property is about counts over an overlay;
- `dl_snapshot_versions` lists the directories above CURRENT that a crashed
  publish left (`dl.zig`, `snapshotEnumerate`);
- a kill while a transaction is open that declared `rev` leaves in `rels.txt` a
  kind nobody earned, which the next open believes (`left`; `KindsPersist`
  excepts the open transaction; `dl.zig:2595`);
- a kind is recorded from the first raw row; symbols bulk-loaded into a column
  that has rows and no kind make it a symbol column whatever the rows are
  (`dl.zig:1994`);
- `dl_load_facts` means to skip a row with an integer above 32 bits and adds it
  with columns that were never written (`dl.zig:1966`, "force skip"); the files
  of the instance have none;
- `dl_load_rules` does not ask whether a transaction is open;
- two rows of one entity's revision are possible where the logs disagree, and
  after a power loss (`OneRevision`);
- the index counts itself complete when as many contents are indexed as there
  are (`index.zig:982`): after one observation is deleted and another added the
  new one is not indexed. `MemoryExact` is about observations that are only
  added;
- `dl_search` scores a repeated term as often as it is given, `dl_search_ranked`
  once;
- a bound read with an empty bound looks at the live relation where the plain
  form looks at the snapshot (`dl.zig`, `dl_rank_bound`);
- `vrel_prefix` goes on to the next arity after a callback asked to stop
  (`vrelation.zig:122`), which `vrelation.h` says it does not;
- `dl_traverse` refuses a depth below one that `dl.h` says is clamped;
- an override that is empty counts as no override: the instruction reads the
  stored relation (`vm.zig:757`); its callers pass none that is empty;
- in a rule with negation every atom before the first positive one, a built-in
  included, is compiled as a negation check (`compiler.zig:2623`); the rules of
  the instance start with a positive atom when they negate;
- a live cursor borrows the relation's automaton and is not told of a write
  (`iter.zig:252`); in the model nothing is written between its calls.

## 8. What is not modelled

- *Byte formats and text*: the record framing of the logs, the parser, the
  schema file, JSON, tokenisation, character classes and escapes of patterns.
- *The DAFSA library*: external, a set of words walked in byte order, with an
  atomic save and a log whose valid prefix is read back.
- *Instructions on strings and lists, pattern walks inside a rule, variadic
  heads*: `Bytecode` leaves them out; `Lists` and `Patterns` model the
  functions they call. Aggregates are evaluated by `Bytecode` and not loaded
  into `Views`.
- *Refusals of the compiler* (safety of variables, aggregates in cycles) and the
  propagation of kinds through variables in `typecheck.zig`: a rule stands for
  the kinds its constants demand.
- *Files of variable-arity relations and permutation indices in a snapshot*:
  they go through the same gate as relations.
- *Caps* on symbols, relations, automaton states and the active domain, except
  those the modules name.
- *The vector half of `hybrid.zig`, the command line, the C ABI and the Python
  binding*: numeric or marshalling code around the operations modelled.
- *Errors of a read, of memory and of `fcntl`*: only failing writes,
  truncations, syncs and renames are modelled. Each module has those that matter
  to its state: `RelationStore`, `TxnStore` and `ReaderOpen` of the logs and
  DAFSA files, `Vocabulary` of the id files, `Publish` of a snapshot, `Views` and
  `Tables` of the writes inside a load, an add and an abort. What fails for lack
  of memory (the returns of `dl_load_facts` inside its loop among them) is left
  out, and so is a failing write of `rels.txt` when `rev` is declared.
- *A lock error in `mutWindowBegin`*: the code then goes on without the window
  (`dl.zig:901`), on purpose; `WindowExclusive` holds where `fcntl` does not
  fail.
- *An fsync that fails after the truncation* in `rel_compact`
  (`relation.zig:1838`) leaves the log empty and returns an error; `CompactFail`
  keeps the records. They are in the saved file already, so only a power loss
  could tell this from a compaction that succeeded.
- *Promotion of a view* to an owned relation by a read that a view cannot serve
  (`relEnsureOwned`, `relation.zig:304`) is no step of `RelationStore` or
  `ReaderOpen`: it reads the file once more, in a writer with the same contents.
- *Part of a failing `intern_save`*: when only the fsync of the directory behind
  the rename fails (`intern.zig:1140`-1149) the new file is there and the table
  stays dirty; in `AddSaveFail` a failing save leaves the old file.
- *Power loss during a publish*: `PowerLoss` of `Publish` comes between calls
  and takes manifests, the only file nothing syncs, of versions from CURRENT on;
  a process death comes at any step.
- *A new revision of 0*, which `dl_cas_revision` and a commit accept
  (`dl.zig:2628`, `dl.zig:2856`): it writes a row that a later compare-and-set
  takes for no row. `SwapsAssumption` keeps it out, and so does what `TxnProofs`
  proves.
- *Live overlay rows in a prefix scan*: `rel_prefix` folds the overlay in before
  it walks (`ovConsolidateForRead`); where that fails it reports the rows of the
  overlay unsorted after those of the automaton (`relation.zig:1315`). The scans
  of the model have no overlay.
- *The hash table of the visited pairs* in `symProdDfs` (`regexwalk.zig:1641`):
  the walk of `Patterns` keeps the pairs on its path as a set. It returns the
  symbols in the order they are reported, so that one reported twice shows.
- *The last loops of a merge join*, which advance the side that is left to its
  end: the operator gives the pairs, and its cursors are not used again.
- *Deletes under an index of observations*: see `index.zig:982` in section 7.
- *Threads*: a handle is used by one thread at a time (`src/src/dl.h`); the
  concurrency is between processes.
