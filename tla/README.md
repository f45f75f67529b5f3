# A verification project for vectorized-query-engine

The repository is an in-memory analytical query engine in C++: typed column
batches, a cost-based planner, pull-based operators that work a batch at a
time, hash aggregation, hash join, sort, and row-group pruning on statistics.
This directory holds TLA+ modules that model it, TLC configurations that check
the models on small instances, and proofs that TLAPS checks for every instance.

All paths below are relative to the repository: `hash.hpp` is
`include/vqe/hash.hpp`, `blocking.cpp` is `src/blocking.cpp`, and so on.

## 1. The system

The engine runs on one thread. What makes it hard is not concurrency but state
that outlives a call: every operator is a coroutine written by hand, whose
`next(Batch&)` is left in the middle of a row group, a probe batch or a chain of
duplicates and has to go on there; a hash table whose loops have no bound of
their own; decisions (skip a row group, move a filter, drop a column, take a
fast path) made from summaries of the data that must not contradict the data.

| Component | State it keeps | Operations | Correct when |
| --- | --- | --- | --- |
| `HashIndex` (`hash.hpp`, `hash.cpp`) | `buckets_` (hash, row), `size_` | `find`, `find_or_insert`, `grow` | it is a map from keys to rows; every probe ends |
| `HashJoin` (`blocking.cpp`) | row store, index, `next_`/`tails_` chains, `heads_`, `probe_cursor_`, `match_` | `build`, `load_probe`, `next` | every matching pair once, in probe order then build order |
| `HashAggregate` (`blocking.cpp`) | `keys_`, `states_` (number, seen, overflow), `cursor_`, `consumed_` | `consume`, `next` | each group once, with the SQL value of each aggregate |
| `Sort` (`blocking.cpp`, `compare_cell` in `hash.cpp`) | `store_`, `order_`, `sorted_`, `cursor_` | `next` | a stable order under a strict weak comparator |
| `Scan`, `Filter`, `Projection` (`operators.cpp`), `Limit` (`blocking.cpp`) | `group_`, `row_`, counters, the selection of a batch, `remaining_` | `next` | the accepted rows in table order, cut at the limit |
| `Table` and statistics (`operators.cpp`, `statistics.cpp`) | `groups_`, statistics per group and per table | `append`, `analyze`, `merge_statistics`, `may_match`, estimates | a group with a matching row is never skipped; groups and their statistics stay in step |
| Planner (`plan.cpp`) | an immutable plan tree | `optimize` (`rewrite`, `prune`, `rewrite`), `lower` | the plan it makes gives the result of the plan it was given |
| Expressions (`expression.cpp`) | one buffer per node of a compiled tree | `expression_type`, `compile`, `evaluate`, `referenced_columns` | three-valued logic, IEEE comparison, NULL for overflow; the same on every path |
| `Validity` (`vector.cpp`) | packed words, `size_`, `null_count_` | `reset`, `set`, `append`, `append_range` | a sequence of flags with an exact count of NULLs |
| `Column` (`vector.cpp`) | typed buffers, the string arena with its offsets, a `Validity` | `reset`, `append`, `append_null`, `append_from`, `append_range` | a sequence of cells |
| `Batch`, `Selection` (`vector.cpp`), `RowStore` (`hash.cpp`) | columns, a row count, the selected rows | `append_row`, `finish`, `validate`, `push`, `truncate`, `append` | rows are whole, and the selection names rows of the batch |
| Kernels (`kernels.cpp`, `kernels_scalar.cpp`) | none | comparison and sum of arrays | equal to the scalar loop |
| Parquet (`parquet.cpp`) | per row group and per file statistics; a file reader and the rows still to come | constructor, `scan`, `next` | rows of the file; no wrong skip |

How they meet: an operator calls `next` on its child and reads the batch it
filled through the batch's selection; `HashAggregate` and `HashJoin` own a
`HashIndex` and a row store, and hand the index an `equal` callback that reads
the store; `Scan` asks `may_match` with the statistics that `Table::append`
made; `lower` copies predicates of filters into the `Scan` below. An exception
travels up through every `next` on the stack and leaves each operator where it
was, and nothing prevents a caller from calling `next` again.

The behaviours that are hard to test are listed, each at its line, under
"hazards" in `PROJECT.json`.

## 2. The modules

| Module | Models | Extended or instantiated by |
| --- | --- | --- |
| `KeyDirectory` | what `HashIndex` promises: a map | `HashIndex` (refinement) |
| `HashIndex` | `hash.hpp`, `hash.cpp`: the table, a bucket per step | `MCHashIndex`, `HashIndexProofs` |
| `HashIndexProofs` | proofs about `HashIndex` | |
| `PullContract` | what every operator promises the caller of `next` | the four operator modules (refinement) |
| `HashJoin` | the join, a row per step | `MCHashJoin`, `HashJoinProofs` |
| `HashJoinProofs` | proofs about `HashJoin` | |
| `HashAggregate` | the aggregation, a row per step | `MCHashAggregate`, `HashAggregateProofs` |
| `HashAggregateProofs` | proofs about `HashAggregate` | |
| `Sort` | the sort | `MCSort`, `SortProofs` |
| `SortProofs` | proofs about `Sort` | |
| `Pipeline` | Limit over Projection over Filter over Scan or ParquetScan | `MCPipeline`, `PipelineProofs` |
| `PipelineProofs` | proofs about `Pipeline` | |
| `Expressions` | the nodes of expressions and the value of a node on a row | `Evaluation`, `Optimizer` |
| `Evaluation` | the value of every tree of a given set of trees | `Evaluator`, `Statistics` |
| `Evaluator` | compilation and vectorised evaluation, the kernels | `MCEvaluator`, `ExpressionProofs` |
| `Statistics` | statistics of a column, `may_match` | `Sources` |
| `Sources` | `Table::append` and `ParquetSource`: the metadata scans prune with | `MCSources`, `ExpressionProofs` |
| `ExpressionProofs` | proofs about `Sources` and `Evaluator` | |
| `Optimizer` | `optimize` and `lower` | `MCOptimizer` |
| `Validity` | the packed NULL flags | `Column`, `MCValidity` |
| `Cells` | what `Column` promises: a sequence of cells | `Column` (refinement) |
| `Column` | string arena and offsets beside a `Validity` | `MCColumn`, `ColumnProofs` |
| `ColumnProofs` | proofs about `Column` and the `Validity` in it | |
| `Rows` | `Batch`, `Selection`, `RowStore` and the index beside it, under exceptions | `MCRows`, `RowsProofs` |
| `RowsProofs` | proofs about `Rows` | |

### How state and actions correspond to the code

*HashIndex.* `buckets`, `capacity`, `size` are `buckets_`, its size and `size_`.
`stored` is the caller's `RowStore`, of which only the keys matter: row `r` is
`stored[r]`, counted from 1, and `NoRow` is `no_row`. `pc`, `op`, `key`, `slot`
are the call in progress and its loop variable; `old`, `oldCapacity`, `pos` the
array that `grow()` moves out and its cursor. One iteration of a loop is one
action: `ProbeHit`, `ProbeNext`, `FindMiss`, `InsertMiss` for the two probing
loops, `RehashSkip`, `RehashPick`, `PlaceNext`, `PlaceEntry`, `RehashDone` for
`grow()`. The hash function is a CONSTANT, any function at all, so that full
64-bit collisions are included. `StoresDuplicates` says which of the two callers
it is: the aggregation stores a row per key, the join every row. `capacity` is
any number of at least 2 (the code: powers of two from 16), with `%` for the
mask.

*PullContract.* `answer` is the operator's result, `delivered` the rows of the
batches given so far, `verdict` what the latest call said. A call delivers a
nonempty batch of the next rows, or says false when and only when everything is
delivered, or throws. A caller that goes on after an exception is promised no
more than that no row is taken back. A caller that keeps pulling is told the end.

*HashJoin.* Rows are positions in the two inputs and a row is its key; `NullKey`
stands for a key with a NULL or NaN cell, which joins nothing. `buildRight`
covers both choices of the side to store. `index` is the map that `HashIndex`
implements. `BuildRow` is the body of the loop of `build()`, with the two writes
to `next_` and `tails_`; `LoadProbe` is `load_probe()`, with the heads of a whole
batch located at once; `Advance` and `Emit` are the two branches of the emission
loop; `NothingStored`, `BatchFull` and `ProbeExhausted` the three ways out of it.
`BuildThrow` and `ProbeThrow` are exceptions of the children. `Answer` is the
reference: the matching pairs, each at the place behind those before it.

*HashAggregate.* A row is a key and the value of the aggregated column.
Accumulators reach from `-MaxInt - 1` to `MaxInt`, so `Wrap` is what
`__builtin_add_overflow` stores. `ConsumeRow` is one row through every
accumulator, in order, with the COUNT that throws leaving the later ones
untouched; a DOUBLE column holds NaN and numbers small enough to add without
rounding. `KeyThrow` is a key that does not fit into `keys_`, `ChildThrow` an
exception of the child. `grouped` covers aggregation with and without key columns.
The reference is about positions of the input: `Values` are those of a group's
rows that have a value, `Total` the running total after every row, and a group
stands where its first row does.

*Sort.* `Ahead` is the lambda given to `stable_sort`; `Decides` its body for one
key, `CompareCell` the function of `hash.cpp`. `Earlier` is the order stable_sort
is specified to give, and the place of a row in `order_` is one behind those that
go before it; the library's algorithm is not modelled.

*Pipeline.* `batch` and `selection` are Projection's `input_`. A row carries the
truth value of the filter's predicate. `pruned` is any set of row groups without
an accepted row: every choice that `may_match` could soundly make. `leaf` says
what is at the bottom: a `Scan`, a `ParquetScan` (`FileRead`, `FileEnd`,
`ReaderEnd`; `taken` is how far Arrow's reader has come, `unread` is
`remaining`), or a `ParquetScan` without columns, which only counts rows.
`ScanThrow` loses the batch in the making, and of a file the rows the reader has
handed over. A throw between `++groups_read_` and the copy of a group's first rows
leaves `row_` at 0, so the next call counts the group again; the history variable `again` says how often, and `MaxAgain` bounds it. `Arranged` turns
a set of rows into the sequence of them in a given order.
`ProjectAndLimit` joins the tails of `Projection::next` and `Limit::next`, which
nothing can come between.

*Expressions, Evaluation.* A tree is a record that holds its operands. `NodeValue` is
the value of a node from those of its operands, one kind at a time. What is recursive
over trees is a recursive function on `Trees`, the domain of the constant `Height`:
the predicates or expressions of an instance and all they are made of, each higher than
its operands (shared pointers to const nodes cannot form a cycle). A run computes
the heights from its trees. `Optimizer`, which makes new trees as it goes, uses recursive
operators instead, over the same `NodeValue`.

*Statistics, Sources.* One column of numbers with NULL and NaN. `Append_` is the
whole of `Table::append`: copy through the selection, analyse, merge, and the two
`push_back`s; `AppendFailsEarly` and `AppendFailsLate` are `bad_alloc` in the
first and in the second of them. `ReadRowGroup` is a turn of the loop in the constructor of
`ParquetSource`, over a footer that may lack the count of NULLs or the bounds,
and whose bounds may be loose; `Open` is what follows the loop. `MayMatch` is
`may_match` case by case (`NodeMayMatch` is one call of it). `WellTyped` is what
`expression_type` accepts over that column.

*Evaluator.* `nodes` and `buffers` are `nodes_` with their buffers, `next` the loop
variable of `evaluate`, `batch` its argument. A column is a payload and a flag for
every physical row, so that what stands under a NULL is part of the state. An
action evaluates one node: `ColumnNode`, `LiteralNode`, the two kernels
(`LessConstant`, `AddDoubles`, and `LessThrows` where `std::get` does), `UnaryNode`,
`ConnectiveNode`, `ComparisonNode`, `ArithmeticNode`. `Out` is the node's buffer
after `reset`. `Code` is what `compile` leaves in `nodes_`, `TypeOf` is
`expression_type`. `Evaluate` of module `Evaluation` is the reference. An arithmetic
kind with a dot is on DOUBLE.

*Optimizer.* Plan nodes are records made by operators named after the functions
of `namespace logical`. `Rewrite`, `Prune` and `Lower` follow the functions of
that name; the passes of `optimize()` are the actions. Estimates only decide the
order of filters that stay and the build side of a join, so both are left open
(`reversed`, and `side` in the properties). `Execute` gives a plan its meaning, as
the properties need it.

*Validity.* A word is the set of its one bits. `CopyChunk` is one turn of the loop
of `append_range`; `preset` records that `reset(n)` with n > 0 made the rows.

*Column.* `bytes` and `offsets` are `StringBuffer`; the flags are an instance of
`Validity`, whose variables `Column` shares. `Truncated` is the cast to the width
of an offset, `Fits` the check that an append makes first. `AppendRange` copies
bytes and offsets and starts the copy of the flags, which `AppendFlags` carries
on; the refinement shows the cells of the range when the last chunk is in.

*Rows.* A cell is the number of the source row it is from, so a row whose cells
differ is torn. `AppendCell` appends to one column; `RowWritten` counts the row
when every column has it; `ArenaFull` and `OutOfMemory` are the exceptions before
the payload and between payload and flag. `owner` says which operator fills the
store, and so when the index learns of a row: `StoreRow` for a join, `RowWritten`
for an aggregation, never for a sort. `Filter`, `Truncate` and `Finish` are the
operations on the selection. `kept` and `chosen` are history variables that hold
what the properties compare with.

## 3. The runs

| Run | Question | Bounds, and why they are enough |
| --- | --- | --- |
| `index` | Does the table behave as a map, does the index name the first row of each key, does every call return, and does the invariant of the proofs (`IInv`) hold? | 2 buckets at first, 5 keys and 6 rows: it grows at the 2nd and the 3rd key, the second time out of a grown array, and duplicates are stored before, between and after; the hashes give a full collision, keys that part when the array doubles, and probes that wrap around. Until a key comes again the use is that of an aggregation. |
| `join` | Is the result the join, across full batches, probe batches and chains, what is left after an exception, and does `IInv` hold? | Inputs of up to 3 rows over 2 keys and NULL, both sides: chains of 3, batches of 2 on both ends, so that each cut falls inside a chain, between chains and at an end. |
| `aggregate` | Do SUM and COUNT treat their limits as SQL and the code say? Are MIN and MAX independent of where NaN and NULL arrive? Does `IInv` hold? | 3-bit accumulators (`MaxInt` = 3, so -4 to 3): 4 rows overflow COUNT, 3 + 1 a SUM, and a sum can leave and come back. DOUBLE columns of up to 3 rows over 2 numbers, NaN and NULL. 3 groups take two batches. |
| `pipeline` | Are the first n accepted rows delivered, whatever the row groups and whichever scan, what is left after an exception, and does `IInv` hold? | Batches of 2 rows; 2 groups of up to 3 rows, or 3 groups of up to 2 with 4 rows together: batches span groups and groups span batches. Limits 0, 3 (cuts a batch) and 9 (never reached). Arrow may give any number of rows up to a batch. A group is counted again at most twice. |
| `sort` | Is the comparator a strict weak order, the result stable, does a second key decide exactly where the first ties, is nothing repeated after an exception, and does `IInv` hold? | Up to 3 rows of 1, 2, NaN, NULL and 4 rows of three of them: three rows suffice to refute transitivity, four fill two batches with a tie. Up to 3 rows of two cells, the first key in each direction and place of NULL, the second ascending. |
| `sources` | Is a group, or a source, with a matching row ever skipped? Are merged statistics those of one analysis? | 2 groups of up to 2 cells, as tables and as files with every footer that is right; one failing append; every comparison with a literal below, at and above the cells, NULL and NaN, on either side, negated and connected. |
| `optimizer` | Does planning keep the schema, the rows and their order, and finish its own work? | All plans of 3 nodes over a scan, and 2 nodes and a filter: each rule meets each kind of node above and below. Sources of 4 and 5 rows with NULL, ties and rows without a partner. |
| `column` | Are arena, offsets and packed words a sequence of cells, with exact counts, and does `IInv` hold? | Words of 2 bits, 3 rows, 2 columns: copies start at either bit and reach into the next word in source and destination. An arena of 3 bytes fills up. |
| `evaluator` | Does every path compute the expression on every selected row? | `MaxInt` = 3, so each operation overflows; 2 lanes and up to 3 rows: no vector turn, one, one with a tail. Batches one after the other, of any length and selection, through the same buffers. Ten well-typed trees reach every path at the root and below another node. |
| `rows` | Are accepted batches and stored rows whole, and does the index name stored rows? | 2 columns, so that a throw can part them; batches of 3 rows, 5 source rows: a filtered batch can be filtered again, and a second batch follows; 2 throws. |
| `validity_mixed` | May rows be appended after `reset(n)`? | No: expected violation, see below. |
| `append_failure` | Is pruning sound after an append that ran out of memory? | No: expected violation, see below. |

The numeric bounds are CONSTANTS named where they are declared: `MaxRows` (rows
stored by the index's caller, rows of a join input, of a column, of the source in
`Rows`), `MaxGroups` (row groups of a source), `MaxThrows` (appends that throw),
`ArenaLimit` (bytes of a string arena, 2^32 - 1 in the code), `Capacity` and
`ChildCapacity` (rows of a batch, `batch_size` in the code), `Width` and `MaxInt`
(64 bits in the code), `Lanes` (4 or 2 in the code), `MaxAgain` (how often a scan
counts a group again). Deadlock is checked
except where a model ends: a lowered plan is final, a source holds at most
`MaxGroups` groups, and the source rows of `Rows` run out.

Each property of a passing run has a mutant: a change to one definition, as a
plausible bug would make it, under which TLC finds the property violated. Their
definitions stand beside the ones they change, marked "mutant".

*Fairness.* A call that has begun runs to its return: there is one thread and no
loop waits for anything, so weak fairness of the steps of a call (`Work`) is what
the C++ runtime gives. In the operator modules the caller's next call is fair as
well, as `collect()` (`operators.cpp`) and every operator loop until false. Calls
of `HashIndex` are not fair: nobody has to make one. Exceptions are never fair.
`Column`, `Evaluator`, `Rows` and `Sources` state safety only: their loops are
counted, and end by their shape.

*The findings.* `Validity::reset(n)` fills the last word with ones up to bit 63,
and `append()` counts its row as NULL until `set()` changes the bit, which it
finds already set. After `reset(n)` with n not a multiple of 64, `append(true)`
counts a NULL that is not there. `validity_mixed` shows it in two calls. The
engine itself never appends after `reset(n)`, which is what `Mixed = FALSE` in
`Column` says; under it the counts are exact.

`Table::append` pushes the statistics of a batch before the batch. When the
second push runs out of memory, every later group is paired with the statistics
of the one before, and a scan may skip rows its predicate accepts.
`append_failure` shows it with two appends, the first of them failing. Without
such a failure pruning is sound (`PruningSound`), and the statistics of the whole
table, which only ever grow, stay sound in any case (`SourceStatisticsSound`).

Two things the properties tell of exceptions that are not contradicted by any
comment of the code: after an append to its store has thrown, `Sort` counts rows
that are not whole when a caller pulls again (`StoredRowsWhole` promises only the
rows before), and the index of a `HashJoin` names a row that is never stored
(`IndexNamesStoredRows`).

## 4. The proofs

Eight modules prove theorems, each for every value of the constants. In all of
them the theorem `...Invariance` (`SourcesInvariant`, `EvaluatorInvariant`) is
`Spec => []IInv` for an inductive invariant `IInv` that the module of the component
states, part by part; the runs `index`, `join`, `aggregate`, `pipeline`, `sort` and
`column` check it on small instances, and the other theorems follow from it.
Each action has a lemma of its own.

The assumptions on constants are the ones the component's module names, and no
others: batches have at least one row, inputs are finite sequences over the cells
the module knows, NULL and NaN are not numbers and not each other. `ColumnAssumption`
takes strings to be sequences, and `ArenaLimit` and `Width` to be any numbers;
`HashAggregateAssumption` leaves `MaxInt` and the set of keys free;
`PipelineAssumption` leaves tables, limits and batch sizes free. `StatisticsAssumption`,
`SourcesAssumption` and `EvaluatorConstants` ask for expressions that `expression_type`
accepts or rejects as the code does, for cells and literals of their types, for
selections inside their batches and for footers that are right where they say something;
the one restriction the code does not make is that BOOLEANs are compared for equality
only, since the model has no order on them. What the model
itself says of the outside is assumed with it: skipped groups hold no accepted
row, `stable_sort` gives the stable order, the index is the map that
`HashIndexProofs` shows it to be.

### The index

`HashIndexProofs` (every set of keys, hash function, initial capacity of at least
2, number of rows, both kinds of caller):

- `Invariance`: `Spec => []IInv`, the inductive invariant;
- `TypeCorrect`: `slot` and `pos` stay within their arrays;
- `NoEntryLost`: no free bucket lies between an entry and its home;
- `Occupancy`: `size_` is exact and at most 70 % of the buckets are used, in the
  middle of `grow()` too, which is what the comment at `hash.hpp:18` relies on;
- `MissIsRight`: a probe that stops at a free bucket is right;
- `FirstRows`: the index names exactly the first row of each key;
- `Refinement`: the table implements `KeyDirectory`.

`EntriesReachable` is not inductive alone. A probe may bind a key to a free bucket
only because it has seen every bucket from the key's home up to there taken, and
none of them with the key; so the invariant carries what the running loop has
established (`LoopFacts`: the buckets passed are taken, and do not match). The path
is taken along the circle (`Path`), so that wrap-around is a case of its own in
`PathStep` and `PathTotal`. While `grow()` runs, the keys are spread over two
arrays, so `EntriesSound`, `KeysIndexed` and the count of `OccupancyBounded` range
over both (`Pending` is what remains to be moved). Only the last step of that
argument needs `OccupancyBounded`: there is always a free bucket
(`FreeBucketExists`). `WriteKeepsReachable` is shared by `PlaceEntry` and
`InsertMiss`. The refinement maps the table to the set of its (key, row) pairs,
pending ones included, so that rehashing is a stutter, and a hit, a miss and an
insertion are the three steps of the map.

### The operators

`HashJoinProofs`, `HashAggregateProofs`, `SortProofs` and `PipelineProofs` prove
the invariants their runs check, and that each operator implements the safety
part of its contract, `Spec => Contract!Safety`, with the operator's own reference
as `answer`: rows come in the order of the reference, false is told when and only
when the last has been given, and an exception takes no row back. The promise that
the end comes (`Ends`) is liveness and stays with TLC.

They share an argument. The reference is a finite set of rows arranged by a strict
total order; the place of a row is one behind the number of rows before it, so the
arrangement is a permutation and in order (`InPlaceOrder` of the join and the
pipeline, `ArrangedInOrder` of the sort). A sequence that is in order and leaves out
no row before one it has is the beginning of the arrangement, and all of it when it
leaves out none (`FrontOfArrangement`). The invariant of the operator supplies the
two hypotheses while nothing has thrown. The groups of an aggregation are arranged
by their first rows in the same way.

- *Join* (`JoinInvariance`, `JoinTypes`, `JoinChains`, `JoinPairs`, `JoinComplete`,
  `JoinKeepsContract`). `PairsGenuineAndOnce` is not inductive: a pair emitted from
  `match_` is new only because what has been given is exactly what lies behind
  the cursor. `Resumable` says what the cursor, `heads_` and `match_` still stand for,
  `Behind` turns the position into a set of pairs, and `NothingSkipped` says that,
  unless something threw, that set has been given. `ChainsInOrder` is proved of
  every prefix of the build input, with one lemma for a row that heads a chain and
  one for a row that joins one, and makes the step along `next_` skip no build row.
  That a call after the end fills no batch (`NothingAfterEnd`) is added for the
  contract.
- *Aggregation* (`AggregateInvariance`, `AggregateStatesExact`,
  `AggregateCountThrows`, `AggregateKeepsContract`). `Took` relates an accumulator
  to the values of its group, `Described` to the rows taken so far, and each step
  of an accumulator is compared with the reference after one more row. The sticky
  overflow flag is a statement about every running total, so `Total` is defined
  by recursion over the rows; that there is such a function is proved by the least
  row up to which there would be none (`TotalExists`). Groups are in the order of
  their first rows because a new group's place is the number of first rows so far.
  The proof showed `DrainedOnce` to be too weak: without `out` being empty while rows
  are consumed, the invariant admits a batch that was begun before the input was
  drained, and `GivenSoFar` does not survive the step to the emission.
- *Sort* (`SortInvariance`, `SortComparator`, `SortRowsInOrder`,
  `SortKeepsContract`). `SortComparator` is the precondition of `std::stable_sort`:
  irreflexivity, transitivity and transitive ties for any list of keys, from the
  least key on which two rows differ. From it the order of `Earlier` is total, so
  that sorting a store is an arrangement. `SortedOnce` says that this happens once,
  after the last row was pulled, and `GivenSoFar` that the rows given are the order up
  to the cursor. `Reported` holds what an exception may and may not lose.
- *Pipeline* (`PipelineInvariance`, `PipelineRowsInOrder`, `PipelineCounters`,
  `PipelineKeepsContract`). `Passed` turns the position of the scan, or of Arrow's
  reader, into the set of rows it has come past. `BatchInOrder` and
  `SelectionInOrder` place the batch between those given and those to come;
  `NothingLost` says that an accepted row the scan has passed is given, in the batch or
  beyond the limit, and, of a file, that `unread` is what the reader has still to
  give, so that the reader's own end (`ReaderEnd`) comes only after a throw.
  `FileScan` is what a file's scan adds: one read makes a batch. `PipelineCounters` is about
  `groups_read()` and `groups_skipped()`: exact but for groups whose first copy threw
  (`again`). It is proved, and not checked by a run.

### Columns and rows

`ColumnProofs`, for every width of a word, limit of the arena and number of rows:
`ColumnInvariance`, `ColumnTypes`, `ColumnNullCounts` and `ColumnImplementsCells`.
`NullCountExact` alone is not inductive: `append()` only sets bits, so it is right
because the bits behind the last row are clear (`BitsBehindClear`). While a range is
copied, `RangeUnderWay` says that the bytes and offsets of all its rows have landed
and the flags of those whose words are done, in the source's order; source and
destination are two columns. In the refinement of `Cells` the whole copy is
the one step `AppendRange` at its last chunk, and every chunk before it a stutter;
`append_from` is an `AppendRange` of one cell. The lemmas about words (which bits
of a source word are cut, shifted and merged, and how many of them are NULL) are
shared by `append`, `set` and the copy.

`RowsProofs`, for any number of columns and of throws: `RowsInvariance`, `RowsTypes`,
`BatchRowsWhole`, `StoreRowsWhole` and `IndexNamesRows`. A throw in the middle of
`append_row` leaves the columns before it longer for good. What holds always is that
no column is behind a later one and has the same cells while it is not ahead
(`BatchColumnsFall`), so columns of equal length are whole rows, which is the
check that `validate()` makes. `StoreColumnsLevel` and `IndexFollowsStore` say the
same of the store and of the two orders in which an owner tells the index.

### Expressions, statistics and the evaluator

`ExpressionProofs` is about every tree that expressions can be, of any depth. The value
of a tree, its type, its code and the verdict of `may_match` are recursive functions,
and that such a definition defines anything has to be proved, without an induction
rule. The first section does so once: `H` gives heights and `D` operands, an equation is
`Local` when it mentions the operands only, two functions that satisfy the equations
below a height agree there (`SolutionsAgree`: a lowest tree where they differ), there is
one for every height (`SolutionBelow`: a least height without one), and so there is
one for all (`RecursionDefines`). Each of the functions is then shown to be local, and
obeys its equation (`EvaluateFacts`, `MayMatchFacts`, `TypeFacts`, `CodeFacts`,
`EvaluateEquation`).

- *Sources* (`SourcesInvariant`, `SourcesTypes`, `SourcesPruningSound`,
  `SourcesStatisticsSound`, `SourcesStatisticsExact`), for any appended batches, row
  groups, footers, predicates and `MaxGroups`. `Admits` says that statistics count a cell
  and, where they have bounds, enclose it; `TrueMayMatch` that a predicate that is true of
  an admitted cell is never ruled out, by a lowest predicate that is. Its cases are those
  of `may_match`, with `FlipTurns` for a literal on the left. The invariant says
  that the statistics of a group admit its cells (`GroupsAdmitted`, until an append has
  failed), and those of the source all cells, also after one. For the source that takes
  three parts: counts are never lost by merging (`AllCounted`, which needs
  `nulls <= rows`: a column that is all NULL rules out every comparison), bounds enclose
  every number as long as every group had bounds or nothing to bound, and otherwise the
  constructor drops them before it returns (`AllEnclosed` with `unknownBounds`).
  `SourceStatisticsSound` is not inductive alone: it speaks of the predicates at hand,
  and a merge can only be judged by the cells. `MergeAnalyzed` is the algebra of
  `StatisticsExact`: the analysis of a concatenation is the merge of the analyses.
- *Evaluator* (`EvaluatorInvariant`, `EvaluatorTypes`, `EvaluatorRight`,
  `EvaluatorThrows`), for any trees, batches, selections, integer width and number of
  lanes. `NodesEvaluated` says that each node behind the one being evaluated has its
  value in every selected row, and that the column of a NULL literal is NULL in every
  row, selected or not. The second half is what makes `ThrowsOnlyWithoutRows` true: the
  kernel for column < literal is taken only where no flag is down, so with a NULL literal
  only in a batch without rows. `CodeFacts` says that `compile` links a node to nodes
  before it that compute its operands, so `Kept` reduces every action to the cells it
  writes: by the loops over the selection (`SelectedKept`), or by the kernels, whose
  vector turns and tail take every row once (`KernelRowsAll`) and which leave the flags
  that `reset` set (`KernelKept`). `ConnectedRight` compares the flag arithmetic of AND and
  OR with three-valued logic, `Int64ResultRight` the overflow built-ins and the guarded
  division with exact arithmetic; `WrappedFacts` and `QuotientRange` are about the width.

`Sources` and `Evaluator` are about different trees and batches, so the module extends
the one and instantiates the other (`E`) with constants of its own. The ASSUMEs of an
instantiated module are no facts for the prover; what `Evaluator` assumes of its
constants is therefore the hypothesis of each of its theorems (`EvaluatorGiven`, which
is `TreesRight` and `EvaluatorConstants`, word for word the two ASSUMEs that TLC
evaluates in the run `evaluator`).

### What is only model-checked

- Liveness: `CallsReturn` of the index, and `Ends` of `PullContract`. The prover has
  no ENABLED and so no fairness.
- `Optimizer`. A plan is made anew by every pass, so that the sets of plans and
  expressions are not given beforehand, and what the passes compute is recursive over
  trees whose shape they change; its module has RECURSIVE operators, which the prover
  does not take.
- The module `Validity` by itself, of which only the use without `Mixed` calls is
  proved, in `Column`.
- The two findings are runs that TLC refutes.
- Induction over data has no rule that the provers can apply. Where a proof needs
  it, it takes the least counterexample instead (`Least`, from the well-foundedness of
  the naturals), which does for numbers, lengths and the heights of trees.

## 5. What is not modelled

- Rounding: doubles are NaN and small whole numbers. What a SUM or an expression
  over DOUBLE loses by rounding depends on the order of the rows.
- Allocation failure inside `HashIndex::grow()` and in `states_.resize()` of the
  aggregation, after either of which the next use reads outside of an array (both
  are listed as hazards), and inside `append_string` between bytes and offsets,
  which leaves bytes that become the front of the next string. In `Rows` the throw
  between payload and flag is modelled for columns that are not strings.
- Strings in expressions, `describe` and `expression_equal`, `to_string`, the checks
  of schemas in constructors, `allocated_bytes`.
- The choice of an instruction set and the instructions of the kernels.
- Cardinality estimates and the distinct-count sketch: they choose among plans
  that the models treat alike.
- Arrow: decoding, and what its reader does beyond cutting batches and throwing.
  The model takes a footer to be right where it says something, without NaN among
  its bounds, and a reader never to give an empty record batch before its end
  (`ParquetScan::next` would take that for the end).
- Data generators, the demo, benchmarks and build files.

## 6. Plan

Done so far, in this order: the index and its proofs, the operator contract, the
join, the aggregation, the pipeline, statistics, the sort, the planner, validity;
then columns, rows under exceptions, the evaluator, the Parquet source and scan,
DOUBLE aggregates; then the proofs about the join, rows, columns, the sort, the
pipeline and the aggregation, with the safety part of the pull contract for all
four operators; then the proofs about sources and the evaluator.

What could follow:

1. The arrangement lemmas and the least-number lemmas, which several modules of
   proofs state for themselves, in one module that they all extend.
2. `Optimizer` over plans of bounded height, so that its passes are recursive functions
   and a single rewriting step (a filter pushed below a projection, a sort or a
   grouping) can be proved to keep the result.
3. Blocking operators on one another (a sort over a join over filtered scans), where an
   exception passes through several of them.
