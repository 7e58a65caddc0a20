# A TLA+ development of gsuneido's database

gsuneido is the Go implementation of Suneido: a language, an IDE runtime and a
database server in one executable. This directory specifies the part of it
where mistakes are hard to see and expensive: **db19**, the database, and the
parts of the server that decide in which order things happen to it.

## 1. The system and its parts

A client (or a thread of the standalone program) starts an update transaction,
reads and writes records through it, and completes it. Reads see the immutable
`DbState` of the transaction's start plus the transaction's own writes.

| part | source | role |
|---|---|---|
| conflict checker | `db19/check.go` | optimistic concurrency control: decides which transactions may commit |
| verification of the checker | `db19/check_verify.go` | the checker's own consistency rules |
| checker goroutine | `db19/checkco.go`, `util/queue` | one goroutine runs the calls of the checker from a bounded priority queue |
| read tracking, write tracking | `util/ranges`, `util/ordset` | ordered ranges of keys read, ordered sets of keys written |
| transactions | `db19/tran.go` | read and update transactions, foreign keys, cascades |
| state | `db19/state.go` | the current `DbState`, persisting it, reading a persisted one |
| merger and persister | `db19/concur.go` | merges committed layers into the state, persists it |
| indexes | `db19/index/overlay.go`, `index/ixbuf`, `index/btree`, `index/btree3`, `index/overiter.go` | a base btree with layers of changes on it |
| metadata | `db19/meta`, `util/generic/hamt` | schema and table information in persistent hash tries, saved as chains |
| storage | `db19/stor` | append-only chunks in memory-mapped files |
| crash recovery | `db19/repair.go`, `db19/checkdb.go` | finding the last good state of a file |
| administration | `db19/database.go` | opening, closing, schema changes |
| timestamps | `db19/timestamp.go`, `core/thread.go` | unique increasing timestamps, handed out in batches |
| client/server protocol | `dbms/mux`, `dbms` | many sessions over one connection |
| tools | `db19/tools` | dump, load, compact |
| language | `compile`, `core`, `builtin`, `dbms/query` | compiler, interpreter, builtins, query optimizer |

How they interact: every call of an `UpdateTran` is sent by `CheckCo` to one
goroutine, which runs `Check` on it. A commit that the checker accepts is
layered onto the state and its table list is sent to the merger, which folds
the layer into the indexes' in-memory layer; from time to time the state is
persisted by writing the merged layers into the btrees. A schema change takes
its table exclusively through the same checker.

## 2. The conflict checker: `Check.tla`

### State and actions

| `Check.tla` | `check.go` |
|---|---|
| `seq`, `next` | `Check.seq`, `next`: starts and ends are odd numbers of one counter |
| `actvTran`, `cmtdTran` | the two maps of transactions, here sets of starts |
| `ct[t]` | the `CkTran` of a start: `end`, `hasUpdates`, `readConflict`, `failure`, and the age that `tick` computes from `birth` and `clock` |
| `bytable[table][t]` | the `actions` of a transaction on a table: locations written and locations read |
| `exclusive[table]` | `Check.exclusive`, with 0 for "no entry" |
| `oldest` | `Check.oldest`, with `MaxInt` for "recompute" |
| `StartTran`, `Read`, `Output`, `Delete`, `Update`, `Abort`, `Commit`, `AddExclusive`, `EndExclusive`, `Tick` | the calls of the same names, one action each |
| `AbortAll`, `CleanEnded` | `abort` and `cleanEnded`, part of the actions that make them |
| `Corrupt` | `Database.Corrupt` as the checker sees it |
| `acked`, `hist`, `periods` | history only: which commits were answered "true", everything each transaction read and wrote, and the exclusive periods |

`Check` runs in one goroutine, so a call is one step, and everything a call
does belongs to that step: the aborts of the transactions it conflicts with,
the recomputation of `oldest`, and the forgetting of committed transactions
that nobody overlaps any more. What varies between executions is what the code
leaves open: the order in which a Go map yields the conflicting transactions and
the random choice of the one to abort (`Abort1of`: `seen` were settled before
the actor itself lost, or all of them were).

Outputs and deletes are one set of writes because the code tests both wherever
it tests one. A key is a number and a read is a range of keys of one index, so
a read conflicts with the write of a key that did not exist when it was read.
Reaching `readMax`, or overflowing the set of writes of one index, is a free
choice (`tooMany`).

### What is checked

| run | instance | shows |
|---|---|---|
| `check_ranges` | one index with two keys (so ranges overlap without being equal), four values of the counter | types, serializability, the rules of `check_verify.go`, the code's assertions, and that a transaction without updates is nobody's victim |
| `check_three` | one key, six values of the counter: three transactions can start and all commit | nothing is forgotten while it can still conflict, where the oldest of several transactions ends first |
| `check_admin` | one table that is made exclusive again and again, a database that may become corrupt, `MaxAge` 2 and fair ticks | an exclusive period is respected by every committed write; every update transaction ends |

The instances are small because a conflict takes two transactions and one
location. What a third transaction adds is a different oldest one, which is what
`cleanEnded` depends on (`check_three`). `MaxInt` bounds the counter: the model
stops when it is reached, which is why deadlock is not checked. `MaxAge` is 1 in
`check_ranges` and `check_three` (a tick aborts everything that is active, so
aborts by `tick` mix with all other steps) and 2 in `check_admin`, where a
transaction survives a tick.

Fairness: only `Tick` is fair. `tickGenerator` (checkco.go:281-290) sends a
tick every second for as long as the database is open. Nothing is assumed of
clients: that a transaction ends even when its client does nothing more is what
`EveryTranEnds` says.

### What is proved

`CheckProofs.tla` proves, for **every** set of tables, indexes and keys, every
`MaxAge` and every bound `MaxInt` of the counter, with schema changes and
corruption allowed or not, under `CheckAssumption` only:

| theorem | says |
|---|---|
| `TypeCorrect` | `Spec => []TypeOK` |
| `CommitsAreSerializable` | `Spec => []Serializable` |
| `AlwaysConsistent` | `Spec => []VerifyConsistency` |
| `AssertionsNeverFail` | `Spec => []AssertionsHold` |
| `NothingForgottenTooSoon` | `Spec => []RememberedWhileOverlapping` |
| `ExclusiveIsRespected` | `Spec => []ExclusiveRespected` |
| `ReadersAreSpared` | `Spec => ReadersAreNotVictims`, an action property |

None of these is inductive. The invariant `IInv` adds what the checker relies on:

* `Times`: an active transaction has started, not ended and not failed; an ended
  one ended after it started and not in the future; no transaction starts at the
  moment another ends; nothing is recorded for a start not yet used.
* `Remembered`: `oldest` is `MaxInt` or the least active start; a committed
  transaction that has been forgotten ended before every active one started;
  only remembered transactions have entries in `bytable`.
* `Tracked`: what the history says a remembered transaction wrote is in
  `bytable`; the reads of an active one are too unless it has a read conflict
  (then it may not write any more, so it need not be checked).
* `Disjoint`: an active transaction without a read conflict has read nothing
  that an overlapping remembered transaction wrote. This is the heart: every
  call either keeps it or aborts or marks one of the two.
* `Periods`: the exclusive periods agree with `exclusive`, an ended one is kept
  until no active transaction started before its end, and no such transaction
  has written to the table.

A commit then preserves `Serializable` because the committing transaction was
active, so by `Remembered` every transaction that committed since its start is
remembered, and by `Disjoint` and `Tracked` it read nothing that they wrote.

The proof goes from the inside out: what `cleanEnded` and a series of aborts keep;
an action that has been checked against the overlapping transactions; then one
lemma for each call (`StartTran`, `Abort`, `Tick`, `AddExclusive`, `Read`, the
writes, `EndExclusive`, `Commit`), the step theorem and the results. `IInv` was
model-checked on the instances above before it was proved.

`ReadersAreSpared` needs an invariant of its own, `Forgets`: the history of a
transaction that failed or ended without updates is empty. So a step in which a
history grows is a step of that transaction, and such a step aborts only itself and
`Victims`, which have updates.

Only model-checked: `EveryTranEnds` (liveness).

### The queue in front of it: `CheckCo.tla`

| `CheckCo.tla` | code |
|---|---|
| `items`, `best`, `isOldest`, `HasRoom`, `Put` | `PriorityQueue` |
| `CallStart`, `CallAccess`, `CallCommit`, `CallAbort`, `CallAdmin`, `CallTick`, `Stop` | the calls of `checkco.go`, up to a `Put` that may have to wait for room |
| `Get` with `Dispatch`, `GetRun`, `RunDone`, `GetStop` | the checker goroutine: `dispatch` of one message, waiting for the merger, the nil that ends it |
| `at`, `call`, `tran`, `age`, `unseen` | where each thread is; what has become of each client's transaction; (history) how many of its reads and writes were called and not seen by the checker |

What `Check` does with a message is reduced to what a client can tell: an access
may abort any active transactions, a commit is accepted if the transaction is
still active. `Check` is proved for calls in *any* order, so the only thing the
queue has to provide is the order within one transaction. That is
`CommitHasEverything`: a commit has a higher priority than the reads and
writes, which return when they are queued, and still does not overtake them.
`StopComesLast`: when the checker stops, no message of a transaction is left.
`CommitsAreAnswered`: a commit that is queued while the checker runs is answered, also
when it waits for reads of its own that have no higher priority than the reads of
others, and these never end. `AbandonedTransEnd`: if the client of a transaction has
gone away, the ticks end the transaction; or else some client goes on reading and
writing for ever, and then the ticks may never get their turn (section 6).

Run `checkco`: two clients, schema changes, ticks and the shutdown on a queue
with room for three: a read and the commit of one client, and something of another
thread that is before, between or after them; a fourth message waits for room. A
client reads and writes as often as it likes (`readMax` is no limit: a range that was
read before does not count). `MaxAge` 1: the first tick that gets through ends a
transaction. Deadlock is not checked, because the checker returns after `Stop`.
Fairness, weak everywhere: the checker (a goroutine that can run does run; the merger's
answer is `CallsAreAnswered` of `Pipeline`), the ticker's timer, and the ticker's
`Put`. A `Put` that is woken tests again for room, which another thread may have
taken, so nothing stronger is justified. Nothing is assumed of clients.

`CheckCoProofs.tla` proves `CommitHasEverything` and `StopComesLast` for any clients,
any capacity of the queue and any `MaxAge`, under
`ThreadsAssumption` and `CheckCoAssumption` (the threads differ, the bounds
are numbers). Its invariant says

* `Shapes`: which thread calls what: a client speaks only for its own transaction;
* `Starting`: nothing is called for a transaction before its start is answered, and
  a start is on the queue once;
* `Committing`: the client of a commit waits for the answer, so no message of the
  transaction is behind the commit;
* `Counting`: the reads and writes of an active transaction that the checker has not seen
  are the ones on the queue and the one that waits for room. When `Get` takes a commit it
  is the oldest message of its transaction (`isOldest`), so by `Committing` it is the
  only one, and by `Counting` all has been seen.

## 3. Saving the metadata: `MetaChain.tla`

### State and actions

| `MetaChain.tla` | code |
|---|---|
| `schema`, `info` | the two `Chain`s of `Meta` (hamt.go:331-343): items, chunks (`offs`), `ages`, `clock` |
| an item | `lastMod`, `created`, whether it is a tombstone, and a value for everything that is written of it |
| `WriteChain`, `nmerge`, `Chunk`, `OldestAge` | the function of that name and `Hamt.Write`: which items go into the new chunk and how many old chunks it replaces |
| `ReadChain`, `ChecksumOK`, `SchemaFound` | `ReadChain` and what makes it, or `ReadMeta`, panic |
| `pending`, `modified` | layers that are committed and not merged; tables that the next persist saves |
| `Create`, `Drop`, `RenameTable`, `Alter`, `AlterRename`, `AddView`, `DropView` | the operations of `database.go` and `meta.go`; all but `AddView` run in the merger when all earlier merges are done (`AllMerged`) |
| `Commit`, `Merge`, `Persist` | `LayeredOnto`, `meta.Apply`, `Database.persist` |
| `Crash`, `Shutdown` | reopening from the last state in the file, without and with a final persist |
| `disk`, `saved` | the chunks of the last state in the file; (history) what was in memory when it was written |

The trie is a finite function and the checksum is ideal: equal only for equal
live items. A value is the number of states in the file when the item changed,
so all versions that can be in the file differ. `since` is the clock at which a
table was last used exclusively: a transaction that writes to it started
later (this is `ExclusiveIsRespected` of section 2).

### What is checked

| run | operations | shows |
|---|---|---|
| `metachain_tables` | create, drop, alter, commits, restarts after a shutdown | the last state can be opened and is what was saved, also when ages and `lastMod` were made up from the positions of the chunks; the newest version of an item is always in a chunk that a merge reaching back to its `lastMod` rewrites (`AgesCoverItems`) |
| `metachain_names` | renaming tables and columns, views, crashes; no commits | renames are saved, and an old name or a dropped view does not come back, while the clocks of the two chains differ |

Bounds: two tables, because what goes wrong in a chain is that one item is
written and another one is not; `maxChain` 3 instead of 7, and 4 states in the file
(`metachain_tables`) or 5 (`metachain_names`), so that chunks are kept, merged singly
(`nmerge` follows the trailing ones of the clock) and, when the limit is reached, all
together; at most one unmerged commit per table. A merge of two chunks out of three
needs `maxChain` 4 and `MaxStates` 5. `metachain_names` holds with these too, but its
1.7 million states take more minutes than a regular run should. `MaxStates` ends
every behaviour, so deadlock is not checked. `MaxSpan` says how many persists may
happen during a transaction. It is at most 1: a transaction lives at most `MaxAge` =
20 seconds and the persist interval of a server is a minute, but calls of `Persist`
come in addition. `Kept` is a table that is never dropped, so that the last table is
not (section 6).

## 4. From commit to file: `Pipeline.tla`, `Info.tla` and `Store.tla`

### State and actions

| `Pipeline.tla` | code |
|---|---|
| `info[t]` | the `Info` of a table in the current state: `Indexes` (a btree and layers each), `Deltas`, `Nrows`, `BtreeNrows` |
| `checker` | the checker goroutine: idle, sending a todo, waiting for its answer, stopped |
| `mergeChan` | the channel, with capacity `chanBuffers` |
| `merger` | the merger goroutine: at its select, a todo in hand, results of a merge or a persist computed and not applied, done, or fatal |
| `changed` | `db.GetState() != prevState` |
| `admin` | a thread that adds an index to a table, or loads one |
| `Commit`, `CallPersist`, `AddExclusive`, `RunEndExclusive`, `Send`, `Stop` | `dispatch` and `Stop` (checkco.go) |
| `Receive`, `StartMerge`, `Merge`, `Run`, `Tick`, `StartPersist`, `Persist`, `Finish` | `merger` (concur.go), `Database.Merge` and `Database.persist` (state.go) |
| `buildIndexes` | the function of that name, run in the admin thread |
| `Reopen`, `Crash` | opening from the last state of the file |
| `log` | history: the tables that each accepted transaction wrote |

`Info.tla` has what a commit, a merge and a persist make of the `Info` of one table
(`LayeredOnto`, `MergeResults` and `ApplyMerge`, `SaveResults` and `ApplyPersist`), with
no state of its own. An entry of an index is the number of the transaction that
made it; a btree or layer is the sequence of its entries, and merging is
concatenation. Merges and
persists are two steps, because the code computes outside the state's mutex and
applies inside it. The worker pools are inside the computing step: they work on
one immutable state and their results are applied per table. `drain` takes as
many merges as it likes, since whether two transactions have the same schema is
left open. A crash is the death of the process: what was written to the mapped
file is kept (losing it with the machine is not modelled; `FlushTo` is in `Stor`).

`Store.tla` is what this promises: transactions are accepted one after
the other, a reader sees all of them, the file holds a prefix of them, and a
crash loses the rest. `Implements` is `Store`'s specification with the contents
of the first index for `view` and its btree in the file for `disk`. So it says nothing
of further indexes; `IndexesStayEqual` does, as long as the file is not opened again.

### What is checked

| run | instance | shows |
|---|---|---|
| `pipeline_commits` | two tables, four transactions, channel of two, crashes | `Implements`: a transaction on two tables is in the file in both or in none; the assertions of `Info.Check`; `Persist` returns a fully merged state; a shutdown saves everything in the channel |
| `pipeline_alter` | one table, four transactions, channel of two, indexes added | the merger never slices out of range, and until the next opening both indexes agree; every commit gets to the file, the checker never stays blocked, a shutdown ends |

Bounds: four transactions are enough for one to be saved, one merged, one
in the channel and one being sent. The channel is full in each run. Deadlock is checked.
`log` is bounded by `MaxCommits`; calls of `Persist`, shutdowns and openings are not
bounded.

Fairness: `Send`, the steps of the merger and `Tick`, each weakly. Goroutines that
can run do run, and the ticker of `merger` fires every `persistInterval`. Go's
`select` chooses at random between a todo and a tick, which is more than weak
fairness asks for. Commits, calls of `Persist` and schema changes are not fair.

### What is proved

`PipelineProofs.tla` proves for every set of tables, every capacity of the channel,
every `MaxCommits`, with and without crashes, under `PipelineAssumption` (the bounds
are numbers, the switches are Booleans):

| theorem | says |
|---|---|
| `TypeCorrect` | `Spec => []TypeOK` |
| `MergerIsSafe` | `Spec => []MergerNeverFails` |
| `ShutdownIsComplete` | `Spec => []ShutdownSavesAll` |
| `IndexesAreEqual` | `Spec => IndexesStayEqual`, an action property |
| `Refinement` | `Spec => Implements` |
| `CountsAddUp` | `~Alter` gives `Spec => []InfoCheck` |
| `PersistIsComplete` | `~Alter` gives `Spec => PersistReturnsMerged` |

The last two need `~Alter` because an index that is added can have a layer too many
(section 6), and then they are false.

The commits before a moment are a sequence, the `log`. The invariant says that there
are three points in it, `f <= d <= e` (`IInv == \E f, d, e \in Nat : Held(f, d, e)`):
the file has the transactions up to `f`, the base layers have the ones up to `d`, and
the ones up to `e` have been taken off the channel and counted in the merge that is
being computed. All the rest follows from the points:

* `Base`: in the `Info` of a table, the btree, the base layer and the layers above it
  are consecutive pieces of the transactions that wrote the table, the base layer
  ends at `d`, and each layer above has one entry; `Nrows`, `BtreeNrows` and `Deltas`
  are the lengths of these pieces. The file is the same with everything in the btree.
* `Queue`: the transactions after `e` are, in their order, with the merger, in the
  channel and with the checker, none twice and none missing.
* `Work`: the results that the merger has computed outside of the mutex are the ones
  for `d` and `e`, although commits have happened since.
* `Orders`, `Building`: where a call of `Persist` or `RunExclusive` can be, and that the
  index which `buildIndexes` makes has at least the layers of its table.

`Commit` makes the log longer and moves no point, `StartMerge` moves `e` to the last
message that it takes, `Merge` moves `d` to `e`, `Persist` moves `f` to `d`, and opening
the file moves all of them, and the end of the log, back to `f`. `Durable`, which the
refinement uses for the prefix in the file, is `f`; so a persist is `Store`'s `Save`, a
commit is its `Accept`, an opening its `Lose`, and all other steps change nothing that
`Store` shows.

`InfoProofs.tla` has the part without state: for an `Info` with any number of indexes,
layers and entries, `LayeredOnto`, `ApplyMerge` and `ApplyPersist` keep it made of
consecutive pieces (`Layered`), with the points moved. `Flatten`, `SumSeq` and `Store`'s
`Writes` are recursive functions; that they compute what they should for every length
is proved by induction, from the well-foundedness of the natural numbers (`WFMin` and
`NatLessThanWellFounded` of the library), applied to the set of the numbers for which
the claim holds. `IInv` quantifies over points that the state does not show; what it
implies was model-checked, the theorems above on the two runs.

`IndexesAreEqual` is about the second index of a table, whose layers need not be
aligned with the ones of the first. It has an invariant of its own, `Computed`: what the
merger has computed outside of the mutex is, for every index, what it would compute from
the `Info` of now, and the index that `buildIndexes` has made has the entries of its table.
A commit keeps that, because it adds a layer on top and the exclusive table gets none;
and then a merge and a persist change the entries of no index, whatever the layers are.
`Computed` was model-checked on the instance of `pipeline_alter` with crashes.

## 5. The parts beside the pipeline

### Indexes: `Overlay.tla` and `OverIter.tla`

An index is a btree with layers of operations on it. `Overlay.tla` has its
operations, with no state of its own: a buffer is a function from keys to slots,
a slot is an operation (`add`, `update`, `delete`: the two bits of an offset)
and an offset.

| `Overlay.tla` | code |
|---|---|
| `Combine`, `Joined`, `Merge` | `Combine`, `Insert` and `Merge` of `ixbuf.go` |
| `Lookup`, `Mutable`, `UpdateWith`, `WithMerged`, `WithSaved` | the methods of `Overlay` |
| `modify`, `MergeAndSave` | what `btree3/merge.go` does with each operation of a layer |

`OverIter.tla` has one index, one transaction at a time that uses an iterator, and
everything that can happen between two steps of the iterator: the transaction
writes (`Output`, `Delete`, `Update`), commits, or is aborted, which shows as a
panic in the middle of the step (`ReadFails`); another transaction begins and goes
on with the same iterator (a cursor does this); others commit, layers are merged,
the base layer is saved. `Rewound`, `IterNext`, `IterPrev` and `Seek` are the
iterator of one buffer, and also of the btree, which has the same interface.
`update`, `modNextAt`, `modPrevAt`, `minIter`, `maxIter` are the functions of
`overiter.go`. The address of an `Overlay` is a number, because `update` compares
addresses; `Fresh` and `Kept` use a number again once nobody has it.

Run `overiter` (three keys, the whole index and a range that leaves out the last key,
up to two writes of all transactions together, two layers):

* `TypeOK`: besides the types, `Combine` never meets operations it panics on, a
  save never fails an assertion, and no step of the iterator panics.
* `LookupIsLastWrite`: a lookup gives the last record written.
* `StepIsRight`: `Next` and `Prev` go to the neighbour of the current key among
  the records the transaction can see.
* `ReadCoversStep`: the range that a step gives to the checker holds every key
  whose insertion, change or deletion by others could have changed the step: with any
  other records outside of the range, the step would have found the same. `Check` takes
  it from there: a read conflicts with any write inside its range.

Two writes are enough for an operation to be in the transaction's layer, one in
a committed layer and one in the btree, which is what a step has to combine.

`OverlayProofs.tla` proves for every offset and every pair of operations that may
follow each other (`Fits`: an add where there is no record, an update or delete
where there is one): what `Combine` leaves is no panic, may be done where the
first could be, and leaves the same record (`CombineTheorem`); saving the base
layer and merging the next layer into it change no lookup, key by key
(`SaveTheorem`, `MergeTheorem`). No invariant is needed; this is why `Pipeline` may
treat a merge as a concatenation. That the layers of a reachable `Overlay` fit on
each other is model-checked (`TypeOK`).

### Storage: `Stor.tla`

`Alloc` takes no lock. Each action is one atomic operation with the local
computation after it: `Call` (load `allocChunk`), `Add` (add to `size` and see
whether the space lies in the chunk), `Lock`, `AddChunk`, `SetSize`, `NextChunk`
(`extend`), `Retry`. `FlushTo`, `FlushRequest`, `FlushStart` are `FlushTo`, the
actions from `FlusherSwap` to `FlusherEnd` are the goroutine `flusher`, `Close` and
`FlushWait` are `Close`.

Run `stor`: two threads, chunks of two bytes, two allocations of one or two bytes
(so they fit, fill, or straddle), two flushes, a close at any time. Deadlock is not
checked since calls are bounded. `AllocsAreDisjoint`: no two allocations overlap and
none straddles chunks; `CloseKeepsAllocs`: the size that `Close` takes covers those
returned before; `RetriesMoveOn`: an allocation is tried again only when somebody has
moved on; `RequestsAreKept`: no requested flush is taken for done, that is, a chunk not
flushed is still ahead of the flush that runs, or a request is counted and the next
flush takes the chunk in. `StorProofs.tla` proves all four properties for
any number of threads and calls, chunk size and starting size, under
`StorAssumption`. Its invariant says

* `ExtendInv`: only the thread with the lock extends, and it extends the current
  chunk; the chunk is mapped before `allocChunk` says so; who tries again has seen
  an older chunk than the current one;
* `SizeInv`: `size` is never less than the start of the current chunk, nor than
  the end of any allocation, although `extend` sets it back: it sets it to the end
  of the chunk, and an allocation that was returned lies in a chunk;
* `FlushInv`: `RequestsAreKept` and what it rests on, `prevFlushChunk` and the local
  variables of a flush never being beyond what was requested.

### Timestamps: `Timestamps.tla`

The server hands out blocks (`Fetch`), a client numbers on within its block
(`Timestamp`, `Fetched`) until it is used up or a second has passed (`Expire`); the
server's `Ticker` moves the time on if the clock is ahead. The clock may be set to
anything at any time, and the server restarts when the clock has caught up with its
timestamp (`Restart`; `AnyRestart` lifts this, section 6).
Run `timestamps`: two clients, seconds of four milliseconds
with blocks of both kinds, a few seconds, restarts. `TimestampsProofs.tla` proves
`Unique` and `Increasing` for all lengths and any clients, under
`TimestampsAssumption` and `~AnyRestart`. The invariant: every value lies in its
block, the blocks do not overlap, each is used by one client, one on its way
is nobody else's, and all are before the server's timestamp.

### Repair: `Repair.tla` and `CheckDb.tla`

`CheckDb` is the pool that checks the tables of one state: a sender, workers, an
unbuffered channel, a stop that the first error closes. `Repair` composes it with
the goroutine that scans the file for states, the search (jumps, then bisection),
and `fix`. Run `repair` starts from every file of up to four states, each
unreadable, good, or with damaged tables, in any order:

* `CheckIsExact`, `ChecksEnd`: a check of a state finds an error just when there
  is one, and ends;
* `FoundIsBoundary`: the state found is good and the next newer one is not, also
  when good and bad are mixed; `FindsNewest`: if they are not mixed, it is the
  newest good one, and none is found only if there is none;
* `WaitsForMore`: the search never sleeps on a state that is there;
* `OriginalKept`: however far `fix` gets, the damaged file still exists.

Four states are two jumps and a bisection. Two workers and three tables let one
worker meet an error while the other checks and the sender still has a table.
Deadlock is not checked because a repair ends. Fairness: the program as a whole
goes on while any of its goroutines can.

`RepairProofs.tla` proves the five safety properties for any number of states, tables
and workers, under `RepairAssumption`; `CheckIsExact`, `FoundIsBoundary` and
`FindsNewest` for files in which no state lacks a table (`~Growing`, section 6), the
others for all. In addition
`RepairsToGood`: what the search returns is a state without damage, always. The
invariant: until there is an error, every damaged table is unsent or with a worker
(`Pool`); the states before the low end of the search are bad and the one at its high
end is good, as far as they were checked; and while the search waits for a state that
has been found, the scanner is about to signal.

## 6. Where the code does not do what it says

Modelling met these places, where a comment, an assertion or a check of the
repository says something that the code does not keep. The runs stay within what
does hold; each item tells how to see the rest, with a copy of a configuration.

* **A commit on a corrupt database is answered with success.** `check.go:558`: "It
  returns false if the transaction is not found (e.g. already aborted)". After
  `Database.Corrupt`, `commit` aborts the transaction, found or not, and returns an
  empty, non-nil list (check.go:567-570), which `CheckCo.Commit` reports as success.
  `Check_admin.cfg` with the property `AckedWasFound`.
* **A dropped table without a tombstone.** `Drop` compares the info clock with the
  `created` of the *schema* item (meta.go:365); once a view was persisted the clocks
  differ, and a persisted table can be taken for "not persisted so no need for
  tombstone" (meta.go:367). `MetaChain_names.cfg` with `Ops` = create, drop, view,
  crash and `MaxSpan` 0: `DiskIsSaved` fails.
* **Renaming copies `created`** (meta.go:321, 328) onto a name that has a tombstone;
  dropping the new name in the same clock removes the tombstone too.
  `MetaChain_names.cfg` with `Ops` = create, rename, drop: `DiskIsSaved` fails.
* **`lastMod` goes back.** `LayeredOnto` sets it from the clock of the transaction's
  start (meta.go:928); info.go:29 says "lastMod must be set to Meta.infoClock on new
  or modified items". `MetaChain_tables.cfg` with `MaxSpan` 2 and
  `MaxStates` 7: `AgesCoverItems` fails, and in time `DiskIsSaved`.
* **The last table.** When it is dropped and all chunks merge there is nothing to
  write, and `Write` keeps the old chunks (hamt.go:411), against "containing at least
  the newly modified items" (hamt.go:347-348). `MetaChain_tables.cfg` with `Kept` = {}:
  `DiskIsSaved` fails.
* **An index with a layer too many.** `buildIndexes` reads the number of layers
  (database.go:395) before the merges that are waiting; `Deltas` are then not "parallel
  to the Indexes Overlay layers" (info.go:25-26), each merge leaves the newest commit
  in a layer, and after a shutdown the index lacks entries ("count ... should equal
  info", checkdb.go:144). `Pipeline_alter.cfg` with `InfoCheck` or `IndexesAgree`.
* **Loading a table.** `OverwriteTable` (database.go:181) is not run by the merger; a
  persist computed before it and applied after it puts the old btrees back, while
  state.go:49 says `Persist` "returns a persisted state, with all ixbuf layer entries
  merged into the btree". `Pipeline_commits.cfg` with `LoadSpec`:
  `PersistReturnsMerged` fails.
* **Timestamps after a quick restart.** `StartTimestamps` starts less than a second
  ahead of the clock; if the old server had got further, values repeat.
  `Timestamps.cfg` with `AnyRestart` = TRUE: `Unique` fails.
* **`flushWait`** "waits up to 5 seconds for flushes to finish" (stor.go:254), but if
  it comes between the count and the start of the flusher, it takes the flusher's
  place in the channel and the flush is not done. `Stor.cfg` with
  `FlushWaitFlushes`. And `flush` loads the chunks before the last chunk to flush,
  which may be beyond them (stor.go:244-248): the invariant `flusher.at # "panic"`
  fails. An `extend` that is under way when the storage is closed stores the size
  after `Close` has (stor.go:143).
* **A flush left to the next one.** stor.go:229 says "flush already running", but the
  flusher may be between its last `Swap` and leaving the channel (stor.go:236-240). The
  request stays counted (`RequestsAreKept`), and nothing is flushed until `FlushTo` is
  called again. `Stor.cfg` with the invariant
  `flushTo = "idle" /\ flusher.at = "none" => dirty = {}`.
* **Ticks that get no turn.** "tick should be called regularly e.g. once per second"
  (check.go:661). It is put on the queue once per second, but while there is always
  some read or write on the queue, `Get` never picks a message of low priority
  (priority_queue.go:67-73): ticks, and with them the end of transactions that are too
  old, starts, and calls of `Persist`. `CheckCo.cfg` with `AbandonedTransEnd` without
  `EndlessAccess`.
* **Older states without a table.** The search sends the table of the last error
  first, also to a state that does not have it (checkdb.go:246-247), where that
  counts as an error. `Repair.cfg` with `Growing` = TRUE, two tables, `MaxStates` 2
  and `Bads` = {{}, {"a"}}: `CheckIsExact` and `FindsNewest` fail.
* **The end of the scan.** `done` is set and signalled without the lock
  (repair.go:229-230), so the signal can fall between the test and the wait of
  `getUpTo`, and the search sleeps for ever. And with no state in the file the
  search indexes with -1 instead of saying "repair failed - no valid states found"
  (repair.go:33). `Repair.cfg` with the property
  `<>(search \in {"done", "panic"})` ends at "waiting" for the first, and the
  invariant `search # "panic"` fails for the second.
* **`Database.Check`** (checkdb.go:52-58) assigns its result to a new `ec` and
  always returns nil. (Read, not modelled.)
* **A cursor on the same `Overlay`.** overlay.go:22-29 calls the btree and the layers
  of an `Overlay` "(immutable)", and `OverIter.update` compares addresses
  (overiter.go:135), but `UpdateWith` changes the transaction's `Overlay` in place
  (overlay.go:178-183). An iterator that was used in a transaction that wrote and
  then in the next one keeps the old layers and misses what others committed in
  between. And a step that fails in `Read` has moved the iterators but not set
  `lastDir` (overiter.go:130): on an unchanged `Overlay` the next step the same
  way skips or repeats records. `OverIter.cfg` with `Reuse` = TRUE: `StepIsRight`
  fails.

## 7. How the modules fit together

`CheckCo` brings the calls to `Check` in an order that is free between transactions
and fixed within one; `Check` decides which commits are accepted, for any such
order; `Pipeline` starts from an accepted one, and takes from `Check` that
nobody else commits to a table that is exclusive. `Overlay` is what `Pipeline`
treats as concatenation of entries; `OverIter` shows that a transaction's reads
are what `Check` is told. `MetaChain` refines what `Pipeline` treats as one step,
writing the metadata at a persist, and takes from `Pipeline` that schema changes
run when all earlier merges are done. `Stor` is where all of it allocates, and
`Repair` starts from what is left in the file when `Pipeline` has crashed.

Each module's `TypeOK` documents its types. `Check`'s and `OverIter`'s are part of
a run; the ones of `Check`, `CheckCo`, `Pipeline`, `Repair`, `Stor` and `Timestamps`
are proved; the others hold in the runs of their modules too.

## 8. What is not modelled

* The nodes of the btrees, the hash trie, the chunks of a buffer, the trees of
  `util/ranges` and `util/ordset`, and all encodings: sequential code on encoded
  bytes, which is tested against random data; their results are sets and functions
  here.
* Foreign keys, cascades and triggers (`tran.go`): they decide what a transaction
  reads and writes, and `Check` allows any reads and writes.
* Corruption in `Pipeline` and `MetaChain`; it is in `Check`.
* Losing what was written to the mapped file with the machine; `Stor` has the
  flushing, and `Repair` starts from any mixture of good and bad states.
* Old states (`Asof`), dump and compact: they read immutable states.
* The client/server protocol: sessions and a worker pool without shared state of
  the database.
* The query engine, the compiler, the interpreter, the builtins and the C++ code of
  the Windows interface: sequential, with unbounded data.

Only model-checked, because the prover does not do liveness: `EveryTranEnds`,
`CallsAreAnswered`, `CommitsAreAnswered`, `AbandonedTransEnd`, `CommitsGetSaved`,
`StopFinishes`, `ChecksEnd`. Only model-checked, because it does not
do recursive operators (`Extreme`): everything about `OverIter`. Only model-checked,
because they hold for some sets of operations and not for others (section 6), so that
there is nothing to prove for all constants: `DiskIsSaved`, `AgesCoverItems` and the
other properties of `MetaChain`.
