# sqlite3-wasm in TLA+

This directory is a verification development of sqlite3-wasm: a Go
`database/sql` driver compiled to WebAssembly that talks to SQLite, also compiled
to WebAssembly, in a dedicated browser worker.  It holds TLA+ modules translated
from the source, TLC configurations that check them on small instances, and TLAPS
proofs of the properties that matter most.  All paths below are relative to the
repository (`src/src/worker/index.ts` in PROJECT.json is `src/worker/index.ts`
of the repository).

## 1. The system

Two JavaScript realms, each with one thread and one event loop:

    Go program (wasm)                              database worker (wasm)
    driver.Conn / Stmt / Rows / Tx
      binding.DB, Rows        -- postMessage -->   dispatch -> chains -> handle
      binding.Worker, route  <-- postMessage --    runQuery / runExec / ...
                              == SharedArrayBuffer ==> progress handler

The two channels are reliable and ordered.  The shared buffer holds one 32-bit
cancellation word per open database; Go writes it while the worker is inside
`sqlite3_step` and can receive nothing.

### Inventory

| component | state it keeps | operations | what makes it correct |
| --- | --- | --- | --- |
| **Dispatcher** (`src/worker/index.ts` 136-263) | `chains`, `streams`, `abortedBeforeStart` | CREDIT and ABORT at once, other requests through the chain of their database | requests of one database run one at a time and in order; no abort is lost; databases do not block one another |
| **Row streams** (`index.ts` 433-539) | `Stream.credit/aborted/wake`, batch stage | bind, step, flush, park on credit, yield, end | credits are conserved; exactly one terminal frame; a parked stream is woken |
| **Resources of the worker** (`index.ts` 277-363, `src/worker/session.ts`) | `sessions`, `freeSlots`, `statements`, `Session.cache` | OPEN, CLOSE, PREPARE, FINALIZE, the statements of QUERY, SHUTDOWN | every statement is finalized exactly once and before its database is closed; a slot belongs to one database; a cache hit runs the text asked for |
| **Exec script** (`index.ts` 583-722) | none between requests | run every statement of a text, handing out arguments in order | arguments go to the statements that take them |
| **Transport** (`binding/worker.go`) | `routes`, `nextID`, `dead`, `closed`, `route.frames/wake` | Spawn and handshake, begin, end, post, receive, route.next, die, Close | no wake-up is lost; late frames are dropped; after `die` nobody waits |
| **DB and Rows** (`binding/db.go`) | `Rows.pending/eof/closed`, the armCancel watcher | exec, query, pull, Next, Close, Open, Prepare, Finalize | Close never blocks and tells the worker unless it has finished; a reader buffers a bounded number of batches |
| **Cancellation** (`binding/db.go` 191-208, `session.ts` 189-208) | one word per database, `runningRequestId` | store the id; compare it every 10 000 VDBE operations | only the request that was cancelled is interrupted |
| **Conn, Tx, Stmt** (`driver/conn.go`, `tx.go`, `stmt.go`, `rows.go`) | `inTx`, `poisoned` | Exec, Query, Prepare, BeginTx, Commit, Rollback, ResetSession, IsValid, retry | a pooled connection is handed out with no transaction open; what may have run is not run again |
| **Connector** (`driver/connector.go`, `driver.go`) | `workerOnce`, `worker`, `workerErr` | Connect, Close, Driver.Open | one worker, torn down once; nobody waits for one that does not come |
| **Data source names** (`driver/dsn.go`) | none | ParseDSN, FilenameFor, the BEGIN of a transaction | the connections of a pool see one database |
| **Wire codec** (`binding/wire`, `src/wire.ts`) | read position, sticky error, the writer's buffer | encode and decode frames | both halves agree; a short frame is an error and never a panic |
| **Values and times** (`driver/convert.go`, `timefmt.go`, `decltype.go`, `time.go`) | none | conversions | order and instants survive a round trip |
| **Results and errors** (`driver/result.go`, `binding/wire` error codes) | none | accessors | |
| **Early listener, Go worker host, page glue** (`src/worker/early.ts`, `src/go-worker*`, `src/index.ts`, `src/global.ts`, `src/capabilities.ts`) | buffered messages, a `started` flag | install, start, report | no message is dropped before the dispatcher is ready |

Hard behaviours, and where they are: the interleaving of goroutines with the
worker's event loop at every `await`; cancellation by three independent means
(context, ABORT, shared word) that race with the answer; frames for a route that
no longer exists; waits for credit; a bounded set of early aborts; an abandoned
request that still executes later; pooled connections that carry state from one
caller to the next.  PROJECT.json lists each as a hazard at its line.

## 2. The modules

| module | models | built on |
| --- | --- | --- |
| `Stream` | the request protocol between the Go goroutines and the worker: EXEC and QUERY, chains, streams, credits, aborts, cancellation words | |
| `Calls` | what `Stream` promises to a caller of ExecContext or QueryContext: the abstract specification | |
| `StreamInv` | the refinement mapping from `Stream` to `Calls`, and the inductive invariant of `Stream` | `Stream`, `Calls` |
| `StreamProofs` | theorems about `Stream`: order and aborts, credits and rows, and that it implements `Calls` | `StreamInv` |
| `Session` | databases, slots, prepared statements and the statement cache of the worker | |
| `SessionProofs` | theorems about `Session` | `Session` |
| `Conn` | one pooled connection: transactions, poisoning, what is left behind by an abandoned call | |
| `ConnProofs` | theorems about `Conn` | `Conn` |
| `Transport` | the Go end of the channel: routes, wake tokens, handshake, worker death | |
| `TransportProofs` | theorems about `Transport` | `Transport` |
| `Cancel` | the cancellation word of one database: ids and word in their widths, the watcher, the phases in which SQLite polls the handler | |
| `CancelProofs` | theorems about `Cancel` | `Cancel` |
| `Wire` | the codec of the frames, both halves | |
| `WireProofs` | theorems about `Wire` | `Wire` |
| `Values` | arguments and columns: values, times, declared types | |
| `Script` | how the arguments of a call reach the parameters of its statements | |
| `CodecProofs` | theorems about `Values` and about `Script` | `Values`, `Script` |
| `Dsn` | data source names, and which database SQLite opens for one; no state | |
| `Connector` | the worker that a connector starts once, its callers, the databases they open, Close | `Dsn` |
| `Busy` | the locks of several connections, SQLITE_BUSY and the retry | `Dsn` |
| `PoolProofs` | theorems about `Connector` and about `Busy`, and that `MCPool` is the sum of its parts | `MCPool`, `ConnProofs` |
| `MCCodec` | one instance of `Wire`, `Values` and `Script` | these |
| `MCPool` | one instance of `Conn`, `Connector` and `Busy` | `MCConn`, `Connector`, `Busy` |
| `MCStream`, `MCSession`, `MCConn`, `MCTransport` | values for the constants that a `.cfg` cannot write | the module they are named after |

The modules are layers, joined by their properties rather than by one large
product.  `Transport` shows that a route delivers what was posted to it and that
its reader is woken; `Stream` therefore lets a blocked call take a frame as soon
as there is one.  `Stream` shows that the requests of one database execute one at
a time in the order issued (`InOrder`); `Session` and `Conn` therefore let one
request of a database run at a time and keep the requests of a connection in one
queue.  `Connector` reduces an answer to a reply that arrives once or not at all,
which `Transport` shows.  The parts of `MCCodec` share no state and neither do those
of `MCPool`: a behaviour of either is one of a single part, and the instance is a sum
and not a product.

PROJECT.json maps every definition to the lines it is translated from.  The
correspondence in outline:

**Stream.**  An action of the worker is what its JavaScript does between two
`await`s; an action of a goroutine is what it does between two points at which
another can run.  `Issue` is `DB.exec` or `DB.query` up to the first
`route.next`; `Dispatch*` the three arms of `dispatch`; `Start` the head of a
chain entering `handle`; `Segment` the row loop of `runQuery` up to its next wait
(`parked` on a credit, `yielded` to a macrotask) or its end; `TakeReply`,
`TakeRows`, `TakeFailure`, `NextRow`, `NextBatch`, `NextEnd` and `Close` the Go
reader; `CtxDone`, `WatchStore`, `WatchStop` and `CtxReturn` a context that ends
and the `armCancel` goroutine, whose `select` may still choose `ctx.Done()` after
`stop()`.  The progress handler fires in `Segment` when the word of the database
holds the running id.  Rows are counted: `got` and `total` are history variables.

**Session.**  A statement is an address, free again once finalized, so a
double-finalize or a stale pointer hits somebody else's statement.  SQL texts are
model values of three kinds, those that are one statement, those with a blank
tail and those whose tail does not compile, because `prepareOne` and `release`
tell these apart.  `lost` (statements nobody will finalize) and `shut` are
history variables, which the invariants use to state their exceptions.

**Conn.**  The queue holds what was posted on one connection and has not
finished, each entry with the lease (caller) that posted it and whether it was
abandoned; `txBy` and `roBy` say whose BEGIN and whose `query_only` SQLite really
has in force, `inTx` is what Go believes.  `rolledBack` is a history variable:
SQLite ends transactions on its own after some errors.  database/sql is external:
it is modelled by the order in which it calls the driver.

**Transport.**  One step is one critical section, one operation on a wake channel
or one callback's part between two of them, because the goroutines, the
JavaScript callbacks and a goroutine in `Worker.Close` interleave exactly there.
Frames are counted.  Id 0 is the handshake.

**Cancel.**  `Stream` looks at the word once per segment and its ids do not wrap;
this module takes the word by itself.  `WatchStore` and `WatchStop` are the two arms
of the watcher's `select`, and a context may end after its call has; `Start` and
`Compiled` say under which `runningRequestId` a request compiles and runs (EXEC sets
it before it compiles, QUERY after, PREPARE never); `Interrupt` is the handler
answering 1.  `Polls` says whether SQLite polls while it compiles.  A call's answer,
its rows and its abort are reduced to `Leave` and `Finish`.

**Wire.**  A frame is a header, a count and fields of every type the protocol has.
It is written by `Writer` of Go, which appends (`gs`), and by `FrameWriter` (`ts`),
which has a backing buffer that it doubles until the next write fits, so that a
forgotten `Grow` is a write past the end (`threw`) or a string cut short, and which
puts the count and the flags in last (`Flush`); then one half's frame is read field by
field by both readers,
whole, or cut short, or with one byte replaced.  Both readers have a position; an
error of Go's is sticky, one of the worker's is thrown.  `GoRead` and `JsRead` are
translated each from its own half; `got` counts the fields read.  A string
is a sequence of characters, each its bytes, so that the byte order mark that
TextDecoder drops, surrogate pairs and a cut character are all visible.  What depends on
the length of a string or on how often the buffer is doubled (`Prefix`, `Counted`,
`Doubled`) is a recursive function, not an operator, since theorems are proved about it.

**Values.**  A column is what one connection wrote; another reads it by its declared
type.  Values go through
`CheckNamedValue` and `EncodeValue` into a tagged cell, which the affinity of the
column is taken to leave alone, and back through `DecodeValue`.  A time is a number of ticks; its
text is a sequence of fixed-width numerals, so that texts compare as their bytes do.
A zone is two offsets and an instant at which the second replaces the first, which is
enough for an hour that occurs twice and one that does not occur.

**Script.**  `Statement` is one round of `forEachStatement` in `runExec`, with the
arguments consumed so far in `at`; `One` is `bindArgs` for a statement of its own.
An argument's value is its number, so a parameter shows where its value came from.  A
parameter that has a name has a sigil, and two that differ in nothing else are two
parameters: `ParamIndex` gives an argument, whose name has none, to the one `paramIndex`
tries first.

**Dsn, Connector.**  A DSN is its parts, not its characters.  `ParseDSN` is a set of
configurations: where two parameters set one field the winner is whichever Go's map
iteration meets last.  In `Connector`, `Claim` is `sync.Once` entered by the first
caller (the others wait behind it, as they do in the code, whatever their contexts
say), `Spawned`, `GiveUp` and `Refused` the three ends of Spawn, `Enter` what every
caller does with the outcome (`checkVFS`, and the OPEN it posts), `Opened` and
`PragmaDone` the rest of `Connect`, `UndoOver` the CLOSE of a connection whose pragma
failed, `Disown` the Close by Driver.Open of a connector whose only connection
failed.  `Close` may come at any moment, also while `Claim` runs.

**Busy.**  A request executes without another in between (`Run`), as far as its locks
let it; `n` is how many of its statements take effect.  `Returns` and `Again` are one
round of `retry`, `Abandon` the end of a call's context, with which its request stays
posted.  Locks are those of a rollback journal: many readers or one writer, and a
commit that waits for no reader is refused.

## 3. What the runs check

| run | instance | what it shows |
| --- | --- | --- |
| `stream_two` | 2 requests of either kind on one database, window 1, batches of 1 and 2, up to 3 rows, one early abort remembered, cancellable | `CreditConserved`, `EofMeansComplete`, and that the protocol implements `Calls` |
| `stream_live` | 2 requests over 2 databases, up to 1 row | `InOrder`, `AbortNotLost`, the inductive invariant, and the liveness properties `Settles` and `ReadersFinish` |
| `stream_evicted` | 3 requests, room for one early abort | `Settles` is violated (section 6) |
| `session_own` | 2 databases, 2 slots, 4 addresses, 3 prepared statements, a cache of 1, 4 texts, SHUTDOWN | `OwnedOnce`, `QueriesLive`, `SlotsPartition`, `CacheFaithful` |
| `session_badtail` | 1 database, no SHUTDOWN | `CleanClose` is violated (section 6) |
| `conn_pool` | the sum `MCPool`. `Conn`: 3 leases, queue of 3, with and without shared memory, contexts that end at the calls `MCSparing` lists. `Connector`: 2 calls of Connect, contexts of both may end, 11 DSNs. `Busy`: 2 connections, 2 attempts, a script of two statements | `NoStrangerInTx`, `TxStatementsInside`, `AbandonedIsDiscarded`; `NoWorkerLeft`, `DatabasesOwned`, `OneDatabase`, and that every Connect and Close returns (`ConnectReturns`); `AppliedOnce`, `NoUpgrade` |
| `pool_deadline` | the same | `OwnDeadline` is violated (section 6) |
| `codec` | the sum `MCCodec`. `Wire`: a byte of 8 values, frames of up to 2 fields, one byte replaced by 0, 3 or 7. `Values`: 11 instants, 19 configurations, 13 other values, 3 declared types, two cells. `Script`: up to 2 statements of 8 kinds, up to 4 arguments | `WrittenAlike`, `ReadBack`, `DamageSeenAlike`; `ValuesReadBack`, `TimesSort`; `ScriptBinds` |
| `conn_begin` | 2 leases, shared memory, contexts end anywhere | `NoStrangerInTx` is violated (section 6) |
| `conn_rows` | 2 leases, no shared memory, contexts end anywhere | `AbandonedIsDiscarded` is violated (section 6) |
| `cancel_word` | 3 requests, ids 1, 2, 3 or 2, 3, 4 (4 is the first id the word holds as a negative number) or 6, 7, 1; polled while a statement runs | `OnlyTheCancelled` and `CancelledStops` |
| `transport` | the handshake, one answer of 2 frames and one of 1 | `NoLostWakeup`, `DeadFailsAll`, `NoFrameLost`, the inductive invariant, and `Released` |

*The bounds.*  Two requests on one database are enough for one to wait behind
another, to be overtaken by an abort, and to be interrupted by a cancellation
meant for its predecessor; two databases are enough for one to be independent of
the other.  A window of 1 makes every second batch wait.  Three rows in batches of
1 and 2 reach a full batch, a partial one and the empty last one.  A cache of 1
evicts on every second release, and four addresses let a finalized one be used
again while a query, a cache and a prepared statement hold others.  Three leases
let a connection be handed on twice, so a caller can meet what the one before the
last left.  In `transport` two requests are the fewest for which `die` has several
routes to fail while another begins.  In `cancel_word` three requests let a
cancellation arrive for the one before, the one that runs and the one after, and
the sign bit is at 4 instead of 2^31.  In `codec` a byte of 8 values lets an i64
and a frame's length fit TLC's integers; every type occurs with the values at its
edges, and `Hint` 2 makes the writer grow in all but the shortest frames.  Minutes of 4
seconds, days of 3 minutes and factors of 10 for 1000 keep an instant with its tick
small; `Guess` (1e12 in the code) and `MaxInt` are scaled with them so that integers
fall on either side.  Two statements and four arguments are enough for one statement
to take another's arguments, for too few and for too many.  In `MCPool` two Connects
suffice for one to start the worker while another waits for it; two attempts (8 in the
code) are the fewest with a last one and one that is not; the script writes
first what needs no lock, so that its second statement can be refused when its first
has taken effect.

Deadlock is not checked in any run: the instances have bounded numbers of
requests, so each of them stops when these are used up, and a caller may hold Rows
for ever.  What must not stop is stated as liveness.

Every property of a passing run has a mutant in PROJECT.json, a plausible slip in
one mapped definition (an abort dropped, a wake-up forgotten, `<=` for `<`, a cache
entry dropped by text) that makes TLC find the property violated.  The mutated
form of an operator stands just before it in its module.

### What is external

Taken from how `src/` uses it: the decoding of TextDecoder; zones as the Go library
resolves them (a wall clock that a change of offset makes ambiguous is read with
either offset); the affinity of SQLite; the locks of its rollback journal; that memdb
shares a database between handles only under a name with a leading `/`; which VFSs a
worker reports; database/sql's order of calls.  Each is a definition marked
`external`, or stands in the comment of its module.

### Fairness

`RuntimeFairness` of `Stream` is weak fairness of each step that the two event
loops and the Go scheduler take by themselves: a posted message is delivered, a
dispatched one handled, a continuation resumed, a goroutine whose frame is there
runs.  Statements are assumed to end.  Nothing is assumed of a caller, which may
hold Rows without reading and whose context need never end; `Settles` has the
exception that follows (a held Rows blocks its own database, and only that).
`ReaderFairness`, used as a premise in `ReadersFinish` only, is a caller that
reads on or closes, and database/sql's watcher, which closes Rows whose context
has ended.  `Fairness` of `Transport` is weak fairness of the callbacks, of an
actor in the middle of `push`, `fail` or `Close`, and of a caller in `route.next`;
the worker may stay silent for ever and no context need end.  `Cancel` assumes only
that SQLite goes on polling while a statement runs.  `ConnectorFairness` is weak
fairness of a goroutine that can go on, of the timer of the handshake (an alternative
of `GiveUp`), and of the answers of a worker that serves, which is what `Settles` of
`Stream` shows; whether a worker comes up at all, refuses or stays silent is left
open, and that is the case `ConnectReturns` is about.  `Busy`, `Wire`, `Values` and
`Script` assume no fairness.

## 4. What is proved

The theorems hold for every value of the constants that meets the assumptions of their
modules: natural bounds, positive database ids, a positive window, a non-empty sequence
of batch targets; for the connector, that its random name begins with `/`, as
`newConnector` makes it, and that `:memory:` and the empty name do not, and that `Null`,
the nil pointer, is no configuration; for the retry, at least one attempt, and scripts
of statements that read, write or write what is their connection's own; for `Values`,
whole seconds and ticks, at most 60 seconds in a minute, zones with whole offsets and
integers that are numbers; for `Script`, that database/sql hands over names and SQLite
statements whose named parameters all differ; for `Wire`, a byte of more values than
there are tags, fields whose values are of their types, a hint that is positive, and
fewer rows in a frame than its count can say. A string is also taken to be shorter than
`Absent` bytes, the length that stands for none; in the code that is 4 GiB, as much as
the memory of the program. A theorem that needs more says so in its statement; the last
column gives it.

| theorem | says | where |
| --- | --- | --- |
| `StreamProofs!TypeCorrect` | `Spec => []TypeOK` of `Stream` | |
| `RequestsInOrder` | `Spec => []InOrder` | |
| `NoStreamForgotten` | `Spec => []AbortNotLost` | `MaxEarlyAborts >= MaxId` |
| `CreditsKept` | `Spec => []CreditConserved` | |
| `EndsAreComplete` | `Spec => []EofMeansComplete` | |
| `StreamInvariant` | `Spec => []StreamIInv` | `MaxEarlyAborts >= MaxId` |
| `Implementation` | `Spec => ImplementsCalls`: `Stream` implements `Calls` | |
| `SessionProofs!TypeCorrect` | `Spec => []TypeOK` of `Session` | |
| `StatementsOwnedOnce` | `Spec => []OwnedOnce` | |
| `QueriesStepLive` | `Spec => []QueriesLive` | |
| `SlotsArePartitioned` | `Spec => []SlotsPartition` | |
| `CachesAreFaithful` | `Spec => []CacheFaithful` | |
| `ConnProofs!TypeCorrect` | `Spec => []TypeOK` of `Conn` | |
| `TxStatementsAreInside` | `Spec => []TxStatementsInside` | |
| `NoStrangers` | `Spec => []NoStrangerInTx` | `BeginsAreAwaited` |
| `AbandonedDiscarded` | `Spec => []AbandonedIsDiscarded` | `RowsAreRead` |
| `TransportProofs!TypeCorrect` | `Spec => []TypeOK` of `Transport` | |
| `TransportInvariant` | `Spec => []TransportIInv` | |
| `NoWakeupIsLost` | `Spec => []NoLostWakeup` | |
| `NobodyOutlivesWorker` | `Spec => []DeadFailsAll` | |
| `FramesAccounted` | `Spec => []NoFrameLost` | |
| `CancelProofs!TypeCorrect` | `Spec => []TypeOK` of `Cancel` | |
| `OnlyCancelledStop` | `Spec => []OnlyTheCancelled` | `MaxCalls <= Width`, `"compiling" \notin Polls` |
| `ConnectorTypeCorrect` | `ConnectorSpec => []ConnectorTypeOK` | |
| `PoolTypeCorrect` | `PoolSpec => []PoolTypeOK`, the three type invariants together | |
| `NobodysWorker` | `ConnectorSpec => []NoWorkerLeft` | |
| `PoolSeesOneDatabase` | `ConnectorSpec => []OneDatabase` | |
| `DatabasesHaveOwners` | `ConnectorSpec => []DatabasesOwned` | |
| `BusyTypeCorrect` | `BusySpec => []BusyTypeOK` | |
| `RetryAppliesOnce` | `BusySpec => []AppliedOnce` | |
| `BegunIsNotRefused` | `BusySpec => []NoUpgrade` | |
| `WireProofs!WireTypes` | `Spec => []TypeOK` of `Wire` | |
| `FramesWrittenAlike` | `Spec => []WrittenAlike` | |
| `FramesReadBack` | `Spec => []ReadBack` | |
| `FramesFailAlike` | `Spec => []DamageSeenAlike` | |
| `CellsReadBack` | `ColumnInit /\ [][ColumnNext]_columnVars => []ValuesReadBack` | |
| `TimesSorted` | the same for `[]TimesSort` | |
| `ArgumentsReach` | `ScriptInit /\ [][ScriptNext]_scriptVars => []ScriptBinds` | |

*The premises.*  Each excludes something that the code does.
`MaxEarlyAborts >= MaxId`: there is room for every abort, so none is evicted; the run
`stream_evicted` shows what follows when one is.  `BeginsAreAwaited`: where memory is shared, no context ends
inside BeginTx; `conn_begin` shows what follows when one does.  `RowsAreRead`: where
it is not, no context ends over open Rows; `conn_rows` shows what follows.
`conn_pool` meets both, with contexts that end everywhere else.  `MaxCalls <= Width`:
no id is given out a second time (`IdsDiffer`); one more request than that, and the
last has the id of the first.  `"compiling" \notin Polls`: SQLite does not poll
the handler while it compiles (section 6).

*Order.*  `InOrder` speaks of what runs, and a request is dispatched long after it
was issued, so it is not inductive.  `OrderIInv` adds where a request can be in
between: on the wire in the order of ids and not dispatched (`WireInv`), dispatched
after every earlier one (`DispatchInv`), and in the chain of its database in order
with only the head begun (`ChainInv`).  `HeadInOrder` is the heart: whoever is at
the head of a chain has nothing earlier unfinished, because everything earlier has
been dispatched and what is unfinished is in the chain.

*Aborts.*  `AbortNotLost` needs `AbortInv`, which follows an ABORT from the channel
to the stream or to the set of early aborts and from there to the stream.  It holds
only where no abort is evicted; the pigeonhole lemma turns that premise into "the set
is never full when it matters".  `TerminalInv` (a terminal frame exists only once the
request is done) lets `AbortInv` exempt readers that have seen the end.

*Credits and rows.*  `RowIInv` adds two accounts to `OrderIInv`.  `CreditInv` is
`CreditConserved` and that a stream whose reader is there parks exactly at credit 0.
`RowInv` says that what the reader has read, has in hand and is on its way, with what
the statement has left, are all of its rows; once the worker is done they may be
fewer, unless an end was sent.  Both are kept by counting: the credits and batches in
the channel with `CountIn`, the rows with `Points`, pairs of a frame and a row of it,
so that a sum over a sequence is a cardinality and its lemmas need no induction.
`EofMeansComplete` is about a caller who may be told EOF for an ABORTED that was meant
for it; `AbandonInv` says that nobody is cancelled or aborted who did not ask for it,
and `LastInv` that nothing follows the frame that ends a stream.

*The refinement.*  `Calls` lets a caller wait, hold rows and be told an outcome, and
lets the worker begin and finish each request.  `CallsStep` goes through the actions
of `Stream` one by one: each is one of these steps under the mapping of `StreamInv`, or
leaves all of them as they are.  That an answer fits what the worker did (a success
only after the statement ran, an interruption only for a context that ended) is where
it needs `RowIInv`.

*Statements.*  `OwnedOnce` counts the keepers of an address.  `SessionIInv` says the
same without a count: what a cache, a prepared statement and a query may share
(`CacheInv`, `PreparedInv`, `UsingInv`: only a query and the prepared statement it
borrows), what `lost` statements share with nobody (`LostInv`), and that whoever lives
is in one of these places (`KeptInv`).  Addresses are used again, so each action has to
show that the one it finalizes is in no other place; `WithoutFacts` and its neighbours
say what taking an entry out of a cache leaves.  `SlotsPartition` is inductive beside
that, once an open database is known to have a slot (`OpenInv`).

*The connection.*  `ConnIInv` rests on one observation: what a call waits for is the
last statement of the queue (`AskedInv`), so when its answer comes the queue is empty
but for a stream.  With it, `PlaceInv` and `HolderInv` (who posted what, and what may
follow it) suffice for `TxStatementsInside`, wherever contexts end.  `NoStrangerInTx`
needs `StrangerIInv`: the statements of a lease follow those of the one before it
(`OrderInv`); a transaction that is open is the last lease's, or the one's before it
with its ROLLBACK ahead of everything the last lease posted (`RollbackAhead`); the
driver knows of it or will not use the connection again (`KnownInv`), and the same of
`query_only` (`ReadOnlyInv`).  `AwaitInv` is where `BeginsAreAwaited` enters: a BEGIN
that is queued is awaited, or the connection is given up.

*Transport.*  `TransportIInv` adds to the three properties that a caller which
waits has its route until the worker dies (`RouteInv`), so that `die`, which takes
the routes under the lock, misses nobody, and that nothing comes for an id before
it is posted (`FreshInv`).  The account of the frames is kept by counting messages
in the channel; `CountAppend` and `CountTail` say what posting and handling one do.

*The cancellation word.*  `WordInv` says whose id the word holds: a call's whose
context has ended; `RunInv` that the running id is that of the request in hand.  The
rest is arithmetic in the widths of the code: ids that differ as requests differ as
numbers before nextID has gone round (`IdsDiffer`), and an id from 2^31 on is stored as
a negative number that equals no id (`WordOfId`).

*The connector.*  `NoWorkerLeft` follows from `ConnectorIInv`: who is past
`ensureWorker` found the connector made and the Once done (`MadeInv`); while the Once
has not been run there is no worker and while it runs no error and no caller beyond it
(`OnceInv`); once Close is past, a Once that is done has an error or its worker is
terminated (`ClosedInv`).  The last is why Close runs the Once itself when nobody has:
a Connect that comes after it finds it done.  `DatabasesOwned` adds `OwnedInv`, what a
caller at each stage knows of its own database.  `OneDatabase` needs no invariant but
that the configuration came from `ParseDSN`: `SharedIsOne` goes through its cases, for
every DSN.  It is the in-memory spellings that make this worth a proof, since
each of them that escapes the rewrite is a database per connection.  `ConnectorTypeOK`
counts the callers that spawn; that there is one while the Once runs is `RestInv`.

*The retry.*  `AppliedOnce` needs that a request which is posted has had no effect, and
that a call in its backoff is a single statement that was refused (`BusyIInv`): for a
script the second would not give the first.  `NoUpgrade` needs the
lock: a transaction that is not deferred and not read-only has held the write lock since
its BEGIN, and there is one such lock.  The proof goes by one lemma per action and one
(`Undisturbed`) for the connections that an action is not about.  That there is one such
lock is in `BusyTypeOK`: a script may come by it in the middle, and `FirstWrite` says
that it then does so at its first statement that writes, which had to ask for it.  The
same theorem has that no call is tried more often than `RetryAttempts`.

*Values and times.*  The invariant of a column (`ColumnInv`) says no more than that
every cell is what its value was encoded to by the one connection that writes it; the
work is in the conversions.  A clock and a fraction are the same thing twice, the
numerals of a number: dividing twice is dividing by the product (`DivTwice`), so the
numerals give the number back (`NumeralsRead`) and compare as it does
(`NumeralsSort`).  With that, `StampRead` shows that what follows eight such codes, a Z,
an offset or nothing, does not disturb the reading of them, `ReadWithZ`,
`ReadWithOffset` and `ReadInLocation` that each form of text is read as the instant it
was made from, and `StampsSort` that two texts differ first in a numeral.  An offset
reads back only in whole minutes (`WholeMinutes`), a wall clock only where it is not
ambiguous (`DatetimeReadsBack`), an integer only where an int64 holds it
(`Int64Holds`): these are the exceptions that `Kept` makes.

The proof corrected the model.  A text ends in a Z or in the minutes of an offset, and
both are numbers there: an offset of 90 minutes was taken for the code of a Z, which no
instance of TLC's had.  `ParseTime` now looks at the sign before it.

*Frames.*  The proofs about `Wire` go through five layers, none of which knows of the
one above.  A number read from its little-endian bytes is the number written, in every
width and with its sign (`NumeralRead`, `NumberRead`).  A buffer that is doubled while
it is too short is long enough, and holds what it held (`DoublesEnough`, `GrownHolds`);
the three bytes per UTF-16 unit that `FrameWriter` reserves are enough for any string
(`RoomForString`); so each of its operations appends the bytes `Writer` appends
(`PutFieldHolds`), and patching the count and the flags leaves the frame of Go
(`PatchedFrame`).  For any bytes whatever, both readers take the same field to be there
or not there, and end at the same place (`GoReads`, `JsReads`: each follows one parse of
the bytes).  A field that was written is there (`FieldIs`), in a frame that is cut behind
it still and in one that is cut before its end not (`ReadCut`).  `WireIInv` says this of a
frame on its way: what the two writers hold (`WriterInv`), how the frame comes from it
(`FrameInv`), that both readers have failed or neither has and then both are at one place
(`ReaderInv`), and that this place is where the last field they read ends (`Along`).

What `Prefix`, `Counted` and `Doubled` give for every string and every length is an
induction.  The library's rule for it takes an operator, so `AllNumbers` is that rule for
a set instead, from the well-foundedness of `<` on the naturals; and that such a function
exists at all, which a recursive definition does not say, is shown in the same way
(`PrefixExists`, `CountExists`, `DoublingExists`).

*Arguments.*  `ScriptBinds` says that the arguments can be cut into the shares of the
statements that ran.  `ScriptInv` adds that the last share ends at `at`, so the next
statement's begins where `runExec` goes on; the rest is one statement at a time, that
binding a share puts each argument in its place or under its name (`StatementMeets`).

TLC checks the inductive invariants of `Stream` and `Transport` in `stream_live` and
`transport`; those of the other modules were checked on instances of these before they
were proved.

*Only model-checked:* the liveness properties (`Settles`, `ReadersFinish`, `Released`,
`CancelledStops`, `ConnectReturns`), since TLAPS has no rule for fairness.  Every
invariant that a passing run checks is a theorem, and so is the refinement.  The runs
still say something the theorems do not: that the cases a theorem is about occur, that
its premises are met, and that a slip in the code would be seen.

## 5. What the models leave out

- SQL itself: a statement is a kind, or its parameters.
- The calendar: `Values` counts days, so the lengths of months, and years of more than
  four digits, are not in it.  Percent-encoding in a DSN.
- The metadata of columns (`readColumns`, `TableColumns` of `db.go`), Ping, and the
  handles a `Stmt` holds on the worker (`Session` has their other end).
- OPEN, CLOSE, PREPARE and FINALIZE in `Stream`: to the protocol they are calls
  with one answer, as EXEC is; what they do is in `Session`.
- Request ids are unbounded in all modules but `Cancel`, and there none is used
  twice; the code's wrap at 2^32 onto a request that still has a route is left out.
  From 2^31 on `Int32(id)` is negative and no cancellation is ever recognised;
  `CancelledStops` excludes these ids and says nothing of them.
- Compilation is one step in `Stream` and `Session`; `Cancel` has it as a phase.
- The Go worker host, the page glue and the capability probe.  They load modules and
  report failures; no later step reads state of theirs.
- `early.ts`, a buffer that `setSink` drains in order.  Go posts nothing before READY,
  and `main` posts READY just before `setSink` in the same task, so the buffer of a
  worker started by this driver is always empty.
- The examples, the scripts that build the bundle and its check: programs that use
  the driver or make it.
- In `Session`, the schema: the columns `PREPARE` answers from a cache hit.

## 6. What the runs found

Each is a run with `expect: violation`; PROJECT.json quotes the line contradicted.

- **An evicted abort wedges its database** (`stream_evicted`, `index.ts` 62).  When
  more than MAX_EARLY_ABORTS aborts of queued requests are remembered the oldest is
  dropped.  The comment says this costs one wasted scan; its query parks on a
  credit for ever and everything behind it waits.
- **A text with a bad tail leaks a statement** (`session_badtail`, `session.ts`
  270).  `prepareOne` throws from its second compile with the first statement live,
  and the database is later closed over it.
- **A context that ends inside BeginTx leaks a transaction** (`conn_begin`,
  `conn.go` 171).  The BEGIN runs, `inTx` stays false, the connection is not
  poisoned, and the next caller's statements join the transaction.
  The plan at `docs/PLAN.md` 170-171 has ResetSession ask SQLite whether it is in
  autocommit mode; the code asks `inTx`.
- **A connection is reused behind abandoned Rows** (`conn_rows`, `rows.go` 107).
  Without shared memory the README promises that it is discarded; an abandoned
  query poisons it only when its error passes through `classify`.
- **The first caller's deadline is everybody's** (`pool_deadline`, `binding/worker.go`
  226).  PROTOCOL.md and DESIGN.md give the handshake a timeout of its own, apart from
  the caller's context; Spawn derives it from that context, and `ensureWorker`
  remembers the failure.  A `sql.DB` whose first access had a short deadline answers
  every later one with it.

Seen while modelling, and not made runs:

- QUERY and PREPARE compile with `runningRequestId` 0 over a word that holds 0 until
  the first cancellation (`session.ts` 199), and SQLite polls the handler in
  `sqlite3_prepare` too when that takes 10 000 steps: with `"compiling"` in `Polls`
  `OnlyTheCancelled` of `Cancel` fails.
- `file:x?mode=memory&vfs=memdb`, `:memory:?vfs=memdb` and `file:app?vfs=memdb` are not
  rewritten (`dsn.go` 157-166) and are a database per connection, against PROTOCOL.md
  483-485 as one may read it; the error for `cache=` (149-154) advises `vfs=memdb`.
  `OneDatabase` states the exception.
- BEGIN and scripts are not retried on SQLITE_BUSY, though the README (111) and
  DESIGN.md (390) promise the retry without exception; `AppliedOnce` shows why scripts
  must not be.
- An OPEN whose caller has left keeps its database and its slot for the life of the
  worker (`db.go` 51); `DatabasesOwned` states the exception.
- PREPARE answers from the cache with the columns of the first compile, also after the
  schema has changed (`index.ts` 347).
- `?vfs=opfs` with an empty name opens a temporary database on the plain VFS.

`docs/PROTOCOL.md` 277-278 has the worker store 0 into the word when it dequeues a
request; the code does so at OPEN only.  `CancelledStops` shows why it must not: the
mutant that does loses a cancellation stored while its request was still queued.

## 7. Plan

Done: the protocol (`Stream`, `Calls`, `StreamInv`, `StreamProofs`), the
worker's resources (`Session`, `SessionProofs`), the Go side (`Conn`, `ConnProofs`,
`Transport`, `TransportProofs`, `Cancel`, `CancelProofs`), the data (`Wire`,
`WireProofs`, `Values`, `Script`, `CodecProofs`), the pool (`Dsn`, `Connector`, `Busy`,
`PoolProofs`).  Every invariant that a passing run checks is proved.

What could follow: an abstract specification of a connector (a worker that is there or
not, and callers that get it or an error) for `Connector` to implement, as `Stream` does
`Calls`; the metadata of columns, which is cached on both sides; and the wrap of request
ids onto one that is still in use.
