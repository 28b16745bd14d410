# Eventful in TLA+

A verification project for Eventful, an in-process event bus for Python with
debouncing and rate limiting, file and PostgreSQL event stores, a Redis
transport and web adapters. Modules are checked by TLC on small instances, and
the theorems are checked by TLAPS for every value of the constants. Paths are
those of the repository (`src/eventful/bus.py` is the bus); `PROJECT.json` names,
for every definition, the lines it stands for.

## The system

The core is one object, `EventBus`: applications register callables for topic
patterns and emit events; an emission takes a snapshot of the matching
registrations and runs them one after the other. Everything else is built around
it or beside it, and the parts do not know one another: a transport, a store or an
adapter is connected to a bus by the application.

| Component | State it keeps | Operations | Calls |
|---|---|---|---|
| Event bus (`bus.py`, `dispatch.py`, `listener.py`, `event.py`) | registrations by topic, error handler, schema registry, the propagation flag in each event | register, unregister, emit, emit_sync, emit_async, set_error_handler | router and middleware chain; application callbacks without the lock |
| Router (`router.py`) | exact index, wildcard index | add_listener, remove_listener, get_listeners | listener filters (under the bus's lock) |
| Middleware chain (`middleware/`) | ordered list under its own lock | add, remove, invoke_sync, invoke_async | middleware, listener |
| Debounce (`utilities/debounce.py`) | pending call, background task or thread timer, last failure | call, cancel, flush | the debounced callback |
| Rate limit (`utilities/rate_limit.py`) | call times under a lock | call, acquire, remaining_calls, reset_time | the limited callback |
| File persistence (`persistence/file_persistence.py`) | open file, its size, closed flag, re-entrant lock; the active file and its backups | append, replay, close | the file system |
| PostgreSQL store (`persistence/postgres_persistence.py`) | pool, closed flag, open lock; the table | open, migrate, append, read, close | the server, in transactions |
| In-memory store (`stores/memory.py`) | list of events, closed flag, lock | append, read, close | none |
| Redis transport (`transports/redis.py`) | client, set of consumers, closed flags, lifecycle locks | publish, subscribe, consume, close | the Redis client |
| Starlette and FastAPI adapters (`adapters/`) | bus, closed flag, close lock | ASGI calls, close | the application, the bus's close |
| Plugins, schema registry (`plugins/`, `schemas/`) | name-indexed maps under a lock | register, configure, discover, validate | plugin and validator code |
| Observability, configuration, codecs, contracts, logging handler | none that matters to the others | pure or best effort | |

### What is hard, and what makes each part correct

* **Event bus.** Threads register, unregister, claim once-registrations and
  dispatch at the same time; callbacks re-enter the bus; an async emission takes its
  snapshot at the call and runs when awaited; failures are handled, or leave the
  dispatch and reach the one around it. Correct means: the indexes never part; a
  once-registration runs at most once; a dispatch serves exactly the registrations
  that were due at the emission, higher priorities first, and leaves none out; a stopped
  event stays stopped; only the error policy makes a dispatch fail; dispatches end.
* **Router.** The loop over segments decides what the pattern means, for every
  length, and ends.
* **Debounce.** Timers and tasks race with new calls, `cancel` and `flush`. Correct
  means: the latest call is delivered once or explicitly dropped, no call is
  delivered twice, failures are reported once, nobody waits for itself.
* **Rate limit.** Clock readings are taken before the lock, so "at most `calls` calls in
  any window of `period`" is not what concurrent callers get. Correct means: the bound
  they do get (`WindowBound`) holds whatever the delays.
* **File persistence.** Crashes and I/O errors between write, flush and each rename
  of the rotation; a replay whose consumer appends. Correct means: what an append
  acknowledged is retained until rotation drops the oldest file, in order, and a
  replay returns it.
* **PostgreSQL and in-memory stores.** Concurrent transactions, retries, a commit
  order different from the order of positions. Correct means: one position per
  event, one event per idempotency key, no append with a stale expected position, and a
  position above every row there was when the append began.
* **Redis transport.** Lifecycle calls interleave at every await and can be
  cancelled there. Correct means: one active iterator per consumer, no subscription
  outlives its owner, an iterator ends once its consumer or its transport is closed.
* **Adapters, plugins.** The bus is closed once and before the server is told; a
  failure half-way leaves a state one can describe.

## The modules

| Module | What it is |
|---|---|
| `Topics` | The meaning of a topic pattern: `Matches(type, pattern)` over sequences of segments. |
| `PatternMatch` | `Router._matches_pattern` as a state machine, one action per branch of the loop. |
| `MCPatternMatch` | Its instance for TLC. |
| `PatternMatchProofs` | The loop decides `Matches`, proved. |
| `EventBus` | The bus, with the router's indexes and the dispatch loops. |
| `MCEventBus` | Its instances for TLC. |
| `EventBusProofs` | Type correctness, agreement of the indexes, at-most-once claims, and what a dispatch serves, in which order and until when, proved. |
| `BoundedLog` | What a file store promises: a log that grows at its end and is dropped from its beginning. |
| `FilePersistence` | The JSON Lines store: append, rotation, replay, close, faults, crashes and restarts. Implements `BoundedLog`. |
| `MCFilePersistence` | Its instances for TLC. |
| `FilePersistenceProofs` | Mutual exclusion, the order of the files, what is retained, damaged and replayed, and the refinement of `BoundedLog`, proved. |
| `EventTable` | What a store with positions promises about appends: a table in which each takes effect at one point between its call and its answer, or never. |
| `PostgresPersistence`, `MCPostgresPersistence` | The PostgreSQL store: pool, migration, append and read as transactions; its instance. Implements `EventTable`. |
| `PostgresPersistenceProofs` | One position per key, expected positions, real-time order, no pool after close, and the refinement of `EventTable`, proved. |
| `RedisTransport`, `MCRedisTransport` | Consumers, iterators and subscriptions of the Redis transport; its instance. |
| `RedisTransportProofs` | One iterator per consumer, nothing left of what is closed, proved. |
| `AsyncDebounce`, `MCAsyncDebounce` | `async_debounce`: tasks, lock, done callbacks and cancellations of one event loop; its instance. |
| `AsyncDebounceProofs` | One delivery per call, one callback at a time, no call stranded, no failure unheard, proved. |
| `Debouncer` | The thread debouncers: the `debounce` decorator and the class, with their `Timer` threads. |
| `RateLimit` | The rate limiter: the decorator and the class. |
| `TimedListener`, `MCTimedListener` | A debounced listener that is rate limited: `Debouncer` and `RateLimit` on one clock; its instance. |
| `TimedListenerProofs` | The bound of the limiter and what the debouncers deliver, proved. |
| `Extremes` | Sets of numbers have a least element, and a greatest one when bounded: lemmas the proofs share. |

### Topics and PatternMatch

A path is a nonempty sequence of segments, as `str.split(".")` returns it. Splitting
is the only part of the function that is not modelled: characters inside a segment
matter only through equality and through the two wildcards. `StarSegments` holds the
segments that contain a star, because the router takes a pattern to be a wildcard
when a star occurs anywhere in it (`router.py:33`), whereas the loop compares whole
segments. `i` and `j` are the loop's two indices (from 1), `verdict` is what the
function returned. `Matches` is the declarative reference; the bus uses it, so the
proof about the loop is what allows the bus to be modelled without it.

### EventBus

| Variable | Code |
|---|---|
| `listeners` | `EventBus._listeners` (a topic without registrations is the empty sequence; the code deletes the key) |
| `exact`, `wild` | `Router._listeners`, `Router._wildcard_listeners` |
| `handler` | `EventBus._error_handler`, as what calling it does |
| `stopped` | `Event._propagation_stopped`; it remembers which thread set it, which only `StopRespected` reads |
| `stack` | for each thread the running `_emit_sync` / `_emit_async` loops, innermost last |
| `pending` | coroutines returned by `emit` and not yet awaited |
| `registered`, `claims`, and `due`, `ran` of a dispatch | history, read only by properties (`registered` also keeps a `Listener` object from being registered twice, for `register` builds a new one) |

The lock is never held across a callback, so everything the code does in one hold of
it is one action: `Register`, `Unregister`, `Claim`, and the validation and snapshot
with which every emission begins. Between actions any thread may step. A dispatch is
a record with the loop's position and a `pc`: `loop` (test of the stop flag, refusal
of an async callable in sync mode), `claim`, `running` (the callback), `handling` and
`calling` (the two reads of `_error_handler` in `_handle_error`), `done`, `raising`.
While the innermost dispatch is `running`, its thread is in application code and may
make any call of the API, nested emissions included. `Thrown` is the order of the
`except` clauses. An exception that leaves a nested dispatch is caught by the
callback (`Leave`) or goes on to the outer loop (`LeaveThrough`). `Emit` chooses the
mode the way `emit` does; an async dispatch becomes a coroutine with its snapshot,
and `Await` runs it.

Abstractions:

* Threads stand for threads and for asyncio tasks alike. Tasks switch only at an
  await, so the model has more interleavings than one event loop has.
* An async callback, or one that returns an awaitable, can be cancelled while it is
  awaited (`Cancel`); the exception passes both `except Exception` clauses.
* An error handler is called in one step: what it does, by its value, is to return or
  raise. It makes no calls of the bus.
* Filters and tag sets are constants (`Accepts`, `FilterRaises`): pure functions of
  the event. A filter that waits for another
  user of the bus while its lock is held is not modelled.
* The schema registry is the constant `Valid`; the middleware chain is the constant
  `AsyncMiddleware`; observers, payloads, results and logging are left out.

### FilePersistence and BoundedLog

| Variable | Code |
|---|---|
| `content` | every file there ever was, numbered in the order of creation, as a sequence of fragments |
| `dir` | the directory: which file has the name of the active file (0) and of each backup |
| `handle`, `buffer` | `_file`, and what was written to the file object and has not reached the disk |
| `size`, `closed` | `_current_size`, `_closed` |
| `op` | for each thread, how far its append, with its rotation, or its close is |
| `iter` | for each thread its `replay` generator, with the locals of `_replay` |
| `count`, `acked`, `faults` | the number of appends and of faults (bounded), and the records whose append returned |

The re-entrant lock is not a variable: whoever is inside a call or owns a started
iterator has it (`Available`). What the code does in one hold of it is not one action
here, because crashes and errors come in between: every fragment that is written, the
close, the unlink and each rename is a step (`WriteFragment`, `CloseActive`,
`UnlinkOldest`, `Rename`), each may fail, and `Crash` may follow any. An iterator waits
after each event (`yielded`), and its consumer may append, close or start over in the
meantime, since the lock lets the same thread in.

Abstractions:

* A record is two fragments, a head and a tail with the newline: enough for a write that
  is cut short. The record's text is left out; a line is a whole record or it is not
  (`IsEvent`), which stands for the parser and its checks. A line that cannot be decoded
  at all is among the faults of `ReadFails`.
* What reached the operating system survives the death of the process; the store calls no
  `fsync`, and a crash of the machine is not modelled.
* After a flush that fails the file object keeps the rest of its buffer, as CPython's
  buffered writer does, and writes it with the next flush.
* Calls that raise before they changed anything (an event that cannot be encoded, a store
  that is closed, a file object that is already closed) are no steps.
* A `stat` that fails right after the file was opened (`file_persistence.py:184`) is no step.
  It would leave the file open with the size that was known before, and rotation as late as
  the case described next.
* A thread has at most one iterator.

What a failed append left in the buffer is written by the next one, which counts only its
own size: `size` may be less than the length of the active file, which then rotates later
than `docs/file-persistence.md:31` says. The model keeps this (`Flushed`), and no property
depends on it.

`BoundedLog` has three actions: a record becomes whole after every older one (`Write`),
an append returns (`Acknowledge`), the oldest records go, but never all (`Drop`). The log is
the set of its records, whose numbers are the order of their appends: a write is of a number
above all others, a drop takes all numbers below one that stays. The mapping `WholeRecords`
is the set of records that are whole in a retained file; that files hold them in the order
of their numbers is `OrderKept`. Crashes, failed flushes and the renames of a rotation are
stutters of it.

`RetentionBound` allows for a gap: a rotation that is interrupted leaves a name without a
file, and the next rotation still removes the oldest backup. `DamageBounded` is what holds
instead of the promise that every written record can be replayed (see *Findings*).

### PostgresPersistence and EventTable

| Variable | Code |
|---|---|
| `rows`, `drawn`, `version` | the table: committed rows, the identity sequence, the schema version (0: no table yet) |
| `pool`, `closed` | `_pool` and the state of the pool itself, `_closed` |
| `op` | the call each task runs: its step, arguments, and the position it has drawn |
| `reader` | the `read` iterator of each task: none, or the positions of its snapshot still to come |
| `acks`, `calls`, `faults` | history of the appends that returned, and bounds |

The store's own code is small; what is hard is what it asks of the server. A step is a
statement or a wait: `Open`/`CreatePool` and `Close`/`PoolCloses` under `_open_lock`,
`Acquire` a connection, `LockTable`, `CheckPosition`, `Insert` (which draws a position),
`ClaimKey` (`ON CONFLICT DO NOTHING`, which waits for the transaction that has the key in
flight), `SelectExisting`, `CommitAppend`; `AdvisoryLock` to `CommitMigration`; `Snapshot`,
`NextRow`, `CloseReader`. Locks are not variables: `HasLocked` and `HasInserted` say from
its step what a transaction holds. The server is external and modelled by the promises the
statements rely on: `READ COMMITTED`, table locks until the end of the transaction, a
unique key, a sequence that is never rolled back. `Fail` is an error, a cancellation or a
lost connection at any await, and rolls back; `CommitUnanswered` is the commit whose answer
is lost. Tasks may belong to several processes with a table in common, except that
they share one pool here, as the tasks of one process do.

Left out: a pool supplied by the caller (never closed by the store), a schema newer than
the library (an error before any change), and a `close` that is cancelled or whose
`pool.close()` raises: the store is then closed and its pool forgotten, whatever became of the
connections. Bytes, media type and
event type are one value; two appends agree on it or not.

`EventTable` has a table, the answers, and for each task at most one request. A request
(`Ask`) remembers the highest position in the table when it is made. It is served by one new
row (`Insert`), of a position and a key nobody has, above every row there was at the request
and, with an expected position, right behind that one for good (`Admits`); or it is answered
with the row of its key (`Find`); or it is refused or fails (`GiveUp`). The answer of an
`Insert` may be lost. The mapping `Asking` reads the request from the call a task runs: its
arguments stay the same from call to answer. `CommitAppend` and the commit whose
answer is lost are the `Insert`; locks, drawn positions, waits for a key in flight, reads,
migration and the pool are stutters.

### RedisTransport

| Variable | Code |
|---|---|
| `state`, `consuming`, `pubsub` | `_closed`, `_consuming`, `_pubsub` of each consumer |
| `live`, `closed` | `_consumers` and `_closed` of the transport |
| `subs` | what the server believes: consumers with a subscription |
| `proc` | what each task does; the tasks that `gather` makes of the transport's `close` are named after their consumers |
| `cut`, `ended`, `calls`, `faults` | history (cleanups cut short; the transport's close got past its consumers) and bounds |

A step runs from one await to the next. The lifecycle lock is only held across the
subscribe request, which `LockFree` says; `MarkClosed` is the part of `close` under the
lock, `Unsubscribe` and `AClose` the part without. `Cancel` and `CancelGather` put a
cancellation where cleanup is left undone, `SubscribeFails` and `ReadFails` cover errors and
cancellations elsewhere. The cleanup of a failed subscribe may fail as well, and leaves a
subscription that no Pub/Sub object of the consumer owns (it is then in `cut`); a later cleanup
of that consumer may end it or not (`Released`). Publishing is one request and changes nothing here.

### AsyncDebounce

| Variable | Code |
|---|---|
| `task`, `pending`, `failure`, `foreground` | the variables of the same name (`foreground_tasks`), with numbers for tasks and calls |
| `queue` | `lock`: `asyncio.Lock` is first come, first served; the head holds it or is next |
| `cancel` | tasks whose `cancel()` was called and which have not run since |
| `proc` | for each application task and each task the debouncer created: where it waits, in which call, and how it ended |
| `started`, `nested`, `orphans`, `reported`, `hushed` | history, see the properties |

`Locked` is what a call does when it gets the lock, up to its next suspension: raise a
failure, `Join` the task there is (flush without a pending call), `Stop` it, or `Act` at
once. `GatherEnds` and `SleepEnds` end the two awaits of `stop_task`. asyncio's rules matter
and are external definitions: a cancellation is met where the task waits (`Cancelled`), it
is passed on by `await task` and remembered by `gather` (`Requested`, the least set of tasks
that a chain of awaits leads to), the coroutine may
catch it (`Thrown`: pass it on, raise, return, or go on with a cleanup), and done callbacks
run before whoever awaits the task but after other steps that were already due
(`TaskFinished`). Callbacks may call the wrapper, `cancel` and `flush`. The delay is
abstracted: it may end at any moment.

### Debouncer, RateLimit, TimedListener

`Debouncer` has the last call time, the pending event, the current timer, and all timer
threads, which cannot be stopped once they fired and work without the lock from then on:
`Fire` (clock), `Check` (interval), `Test` and `Deliver` (two reads of the pending event),
`TimerClears`. A trigger reads the clock (`Trigger`), publishes its event, or in the decorator
that reading (`Publish`), and then takes the lock (`Schedule`), so that the decorator's last
call time can go back; `flush` reads and clears in two steps. The decorator is the same machine
without the pending event. One clock that never goes back stands for two: `time.time()`, which
calls and checks read, and the monotonic clock on which `Timer` waits. A wall clock that is set
or slewed back between the two makes the check fail and strands the last event, against
`NothingStranded`; no state of the model shows it. What an explicit `cancel()` drops does not
count as lost. `RateLimit` separates `Begin`, which reads the clock, from the decision under the lock
(`Admit`, `Refuse`, `Query`); the list of call times is the set of the calls in it, since
only its length and its oldest entry are read. `TimedListener` composes the two by `INSTANCE` as stacked
decorators: the callback of a timer is the limited function, applications trigger, cancel,
flush and use the limiter directly, and `Tick` advances the clock that all of them read.

## The runs

| Run | Instance | What it shows |
|---|---|---|
| `pattern_match` | paths of up to 3 of 5 segments (`a`, `b`, `c`, `*`, `**`) | `MatchCorrect`, `MatchTerminates` on all 24025 pairs |
| `bus_threads` | 2 threads (symmetric), depth 2, an exact, an exact once- and a wildcard once-registration, 2 emissions, failing callbacks, handlers that raise or stop, set and removed at any time | `OnceAtMostOnce`, `IndexesAgree`, `SnapshotHonoured`, `FailsOnlyByPolicy` |
| `bus_nested` | 1 thread, depth 2, 3 emissions through `emit`, `emit_sync` and `emit_async`, sync, async and awaitable-returning callables, an event the schema refuses and one a filter raises on | `SnapshotIsDue`, `DispatchOrder`, `StopRespected` |
| `bus_plain` | 2 fair threads, depth 1, priorities and propagation control off, an async middleware, a handler that returns | `DispatchTerminates` |
| `file_store` | 2 fair threads, 2 backups, rotation at the second record, 6 appends, iterators from offset 0 or 1 in batches of 1 and 5 whose consumers append and close, restarts, 2 faults | `TypeOK`, `OrderKept`, `AckedRetained`, `RetentionBound`, `DamageBounded`, `LogSpec` (the refinement), `ReplayOrdered`, `ReplayComplete`, `LockReleased` |
| `postgres` | 2 tasks, 4 calls (appends among the first 3), 1 key, 2 events, 2 connections, 1 fault, migrated or not | `OnePositionPerKey`, `ExpectedHonoured`, `RealTimeOrder`, `NoPoolAfterClose`, `CallsEnd`, `TableSpec` (the refinement) |
| `redis` | 2 tasks, 2 consumers, 4 calls, 2 failures or cancellations | `OneIterator`, `ClosedLeavesNothing`, `ClosedTogether`, `IteratorsEnd` |
| `async_debounce` | 2 tasks and the callbacks, 4 calls, 1 cancelled task | `DeliveredOnce`, `OneAtATime`, `NothingStranded`, `FailuresHeard`, `CancelQuiets`, `CallsEnd` |
| `timed_listener` | 2 threads, 2 triggers, 1 other call, both styles of debouncer, interval 1, 1 call in a period of 2 | `WindowBound`, `NothingStranded`, `LostOnlyInOverlap`, `TwiceOnlyInOverlap`, `Settles` |
| `doc_handler`, `doc_order`, `doc_replayable` | | see *Findings* |

Bounds. `MaxEmits` bounds the emissions of a behaviour and `MaxDepth` the nesting;
they are guards of the emissions. Two dispatches that overlap, in two threads or
nested, are the smallest number that races or nests, and the runs have them for
every kind of registration. A snapshot of three registrations has a first, a middle
and a last one, an exact and two wildcard ones, and two priorities. The three-segment
paths have a wildcard at the beginning, in the middle and at the end, and each of the
two sequences longer than the other. In every run the system may stop (the bounds
are used up), so deadlock is not checked. The threads of `bus_threads` are a symmetry set:
they differ by name only, and the run checks safety alone. Its handlers raise or stop the
propagation, which ends the dispatch; one that returns continues it as having none does, and is
set in `bus_plain`, where it matters that the loop goes on.

For the file store, `MaxSize` is in fragments: 3 puts two records in a file, so that a
file has an inside, and a torn record makes a rotation come early. Six appends rotate
three times, and the third rotation drops the oldest file; two faults can interrupt a
rotation and then the next one, or tear a line and lose its repair. Three files with a
rotation under the iterator are enough to skip one. The second thread matters for the lock: one iterates while the other waits to append
or close.

For the PostgreSQL store, four calls are an append, its retry, a racing append and a close,
or two readers that hold both connections and two calls that wait for one; `MaxAppends` keeps
the fourth from being an append, for a third one that comes after two that raced has met
all there is to meet. All exclusion
is between pairs of transactions, and two events with one key are equal or not. For the
Redis transport, four calls are enough for an iterator, a second one, a close and the
transport's close, on two consumers, one of which the transport may not know any more; the
second fault breaks the cleanup after the first. In `async_debounce` four calls are a
call, the one that replaces its task, a flush of that one, and a cancellation or a call
made by a callback. In `timed_listener` the clock runs to 3, which is longer than one
interval and one period; two timers with one interval overlap, and a third caller uses the
limiter between them.

Fairness. In `bus_plain`: `WF(BusStep(t))`: a thread that runs the bus's own code
is scheduled again, which the interpreter and the event loop provide; the lock is
never held between steps, so weak fairness is enough. `WF(CallbackEnds(t))`:
callbacks return or raise; the bus has no timeout, so a callback that never returns
blocks its thread in the code as well. Other calls need no fairness.
`file_store` assumes `WF(StoreStep(t))`, a thread inside the store is scheduled again, and
`WF(Consume(t))`, a consumer takes the next event or closes the iterator. The second is an
assumption on the application: a suspended iterator holds the lock for as long as it is
neither resumed nor closed, as `docs/file-persistence.md` says. Steps of `Call` need
none: a consumer that keeps appending is bounded by `MaxRecords`.
`postgres` assumes `WF(CallStep(t))` (the event loop runs, the server answers) and
`WF(NextRow(t))`, again an assumption on consumers: an iterator keeps its connection. Who
waits for the pool is not served in any order, and a consumer that calls the store while it
iterates may wait for itself: `CallsEnd` names this exception (`HeldByWaiters`).
`redis` assumes `WF(Step(p))` for each task and each closing task: requests are answered,
polls time out (they have a timeout in the code), consumers come back for the next event.
`async_debounce` assumes `WF(Step(p))`, where the asyncio lock is first come, first served
and needs no more, and `WF(CallbackEnds(k))`; `timed_listener` assumes that the clock goes
on and that threads inside the code run (`WF(Tick)`, `WF(AppSteps(a))`,
`WF(TimerSteps(k))`). Faults, cancellations and calls of the applications are never fair.
`MatchTerminates` assumes only that the loop is run.

## The proofs

`PatternMatchProofs` assumes `SegmentsAssumption` (the two wildcards are segments
with a star) and `MaxLenAssumption`. `PrefixMatched` is the strengthening: while the
loop runs, both indices are equal, pattern and type differ, and the segments before
the indices matched without a `**`. From it `MatchingIsCorrect` follows at each of
the three ways to return: `MatchCorrect` holds for paths of any length.

Every other proof has the same plan. An inductive invariant `Inv` is the type invariant and
named parts, each of which says what one of the properties needs to be kept by the next step.
`Init => Inv` and `Inv /\ [Next]_vars => Inv'` are proved with one lemma for each action, or
for the actions that change the same variables, and the theorem of a property is
`Inv => property` and the temporal rule for invariants. For an action property, `Inv` and one
step imply the action.

### The event bus

`EventBusProofs` assumes `BusAssumption`: the constants are typed (priorities are
integers of either sign), and a handler returns or raises something the model knows.

* `TypeOK` includes `StackOK`: a dispatch stays within its snapshot and every
  dispatch but the innermost is in a callback. The claim and the two reads of the
  handler need it, for they use the current listener.
* `RegistryInv` says that `registered` has no repetition, that each `listeners[p]`
  holds registrations of topic `p` that were registered, that `IndexesAgree`, and that a
  once-registration still in its list, or never registered, is unclaimed. Without the
  last part `claims[r] <= 1` is not inductive; without `IndexesAgree` a claim might
  remove the registration from one index and leave it in another.
* `DispatchInv` is about every dispatch of every stack and every coroutine that was not
  awaited. `SnapshotSound`: the snapshot is what was due, in order, and all of it was
  registered once. `Honoured`: whoever was passed over is a once-registration that is no
  longer registered, which needs the history of registrations (`HistoryGrows`: what was
  unregistered does not come back). `ClaimsClear`: a thread about to claim has not stopped
  its event, which makes `StopRespected` true of the next step.

### The file store

`FilePersistenceProofs` assumes `FileAssumption` (at least one backup, positive sizes) and
has three inductive invariants, each on top of the one before.

`Inv` has four parts. `TypeOK` with what is open and buffered.
`Exclusive`: whoever is inside the store is alone; all the rest is about that thread.
`OpOK` and `IterOK`: what each step of a call may assume (the buffer is empty when a
rotation closes the file, no file is open while names change, an iterator is within its
file). `OrderInv`: fragments are ordered within and across files, the buffer comes after
every file, no number exceeds `count`, and higher names have older files. `OrderKept`
alone is not inductive: without the buffer's place an interrupted flush could repeat or
overtake, and without the order of the numbers of the files a rename could pass a file
by another. `RenamedOrdered` is the lemma about one rename, `RecordIsLast` about one
append; `Minimum` and `LineEndProperties` show that the end of a line exists.

`DataInv` says what the files hold:

* `Paired`: a tail is behind its head, on the disk and on its way there. `TornBounded`: the
  heads without a tail, now or in the buffer, are no more than the faults.
* `AckedWritten`: every acknowledged record reached a file. `OldestDropped`: a file without a
  name is older than all that have one, and one of these has a whole record. That needs
  `RecOK`: the record of the append that rotates is whole in the active file, so that the
  unlink never takes the last one.
* `GapsBounded`: the names without a file are counted. A rotation moves one free name from
  the oldest backup to the active file; only a fault on the way leaves one behind (`Slack` is
  the one on its way). `RetentionBound` does not mention the rotation and is not
  inductive; it follows by counting, with an injection from the names into the files.
* `ReplayOK`: what an iterator yielded is behind its position, and the names it has still to
  open have newer files, also when its consumer rotates in between. `ClosedOK`: only a close
  under way leaves a closed store with an open file.

The proof does not go through the actions but through what each does to these parts: an
*effect* (`AppendEffect`, `WriteEffect`, `UnlinkEffect`, `RenameEffect` and so on), in which
sequences appear only by their length and elements. `StepEffects` shows that every step has
one of them, and each part of `DataInv` has a lemma that takes it through the effects.
`DamageBounded` follows with an injection from the damaged records into `Torn`.

For `LogSpec`, `RecordsKept` says that `WholeRecords` is the set of records whose tail is in a
file with a name. A write is the `WriteFragment` of a tail, an acknowledgement is `Flushed` or
the last `Rename`, a drop is `UnlinkOldest` (`UnlinkIsLog`: what it takes is older than what
stays, and `Minimum` gives the oldest that stays); all other steps are stutters.

`ReplayInv` is for `ReplayComplete`. `MixedOK`: a thread that is in another call while it
iterates is a consumer that writes, and its iterator is marked. `CompleteOK`: an iterator
without the mark stands between two lines of the file it works on, has counted as many lines as
there are before its position, and has yielded exactly the events among them from its offset
on (`Caught`). `Before(k, p)` is the set of the lines up to position `p` of the file with name
`k` and of all older files, so that no induction over lines is needed: `NextLine` shows that a
read adds one line to it, whose offset is the number of those before, `LineIsEvent` that what
the read takes for an event is what the line holds, and `BeforeEdges` that the end of one file
is the beginning of the next, that nothing is before the oldest, and that all lines are before
the end. The directory and the files do not change under such an iterator, because its thread
has the lock (`Exclusive`).

### The PostgreSQL store

`PostgresPersistenceProofs` assumes `PostgresAssumption` (`NoKey` is not a key, there is an
event, the pool has a connection). `PositionOK` orders what a call knows, what it draws and
what others were told. `LockOK`: while a call with an expected position is between its lock
and its commit, nobody else has inserted, so that its check still holds; the property
`ExpectedHonoured` is about commits only and says nothing of the time in between. `KeyOK`:
of all calls about to commit, one has the key. `PoolOK`: a pool that is being closed belongs
to a closed store.

For `TableSpec`, `AtomicOK` says what a commit may rely on although it is the last of several
statements. `DrawnOnce`: the position of an insert is in no row and belongs to no other insert
in flight. `NextInLine`: from its check to its commit, the expected position of a call is the
last of the table. `Asked`: only a task without a call is idle, and a call that looks for an
existing row has a key. As in the file store, each step is first shown to have an *effect* (a
call goes on, begins, draws a position, finds its row, or commits), and then each effect keeps
`AtomicOK` and is a step of the table or a stutter (`QuietIsTable`, `BeginIsTable`,
`FindIsTable`, `CommitIsTable`).

### The Redis transport

`RedisTransportProofs` assumes `RedisAssumption` (tasks and consumers are named
apart). `ProcOK` ties a task's step to its consumer. `Exclusive` and `Consumed` say that
`_consuming` is set exactly for the consumer of a running iterator or, after a cancellation,
for nobody. `OpenOK`: a subscription belongs to the Pub/Sub object of an open consumer the
transport knows, or is about to be ended, or its cleanup was cut short. `TransportOK`: one
close gathers, and every consumer that is open then has a task that is about to close it. No
new consumer can open meanwhile, because the transport is marked closed first.

### The asyncio debouncer

`AsyncDebounceProofs` assumes `AsyncAssumption` (bounds are numbers, applications and calls are
named apart). The invariant follows a call from hand to hand: `Numbered` and `InHand` say
that it has one place (a wrapper call, the pending slot, a flush, a task) until it is
delivered, which makes `DeliveredOnce` inductive. `LockHeld` and `Accounted` say who may have
a live task: the debouncer, a call that is stopping it, or a callback that called its own
debouncer. `Sleepers`: a task that has not taken its call will find it pending and is
cancelled only by a call that replaces it, hence `NothingStranded`. `Foreground`, `Failures`
and `Behind` order the ends of tasks: a task is created when its predecessor has
ended, and it does not go on before the predecessor's done callback ran. So
while a failure is kept that nobody heard of, no other can take its place.
`Requested`, the set that a chain of awaits reaches, is defined as the least closed set and
not by recursion, so that the proof can use it.

### The listener: debouncer and limiter

`TimedListenerProofs` assumes `TimedAssumption`: bounds are numbers, and applications are not
numbered as timers are. `LimiterInv`: an admitted call is in the list or a
period old by now (`Listed`), and any `Calls + 1` of the admitted have two that are a period
apart (`Window`). The readings of the clock may be admitted in another order than they were
made; that is why `Window` compares the time of admission of one with the reading of the other.
`DebouncerInv`: a trigger has a number nobody else has (`Waiting`) and that nobody received
or holds before it is published (`Unpublished`), the last timer passes its check of the interval (`Passes`, by `Ordered`), and it or a thread in a call takes care of
the pending event (`CaredFor`) or, for the decorator, of its own (`Delivering`). `InHand` and
`Again` say which overlaps may lose an event or deliver it twice.

### The theorems

| Theorem | States |
|---|---|
| `MatchingIsCorrect` | the matching loop answers true exactly when the pattern matches |
| `EventBusProofs!TypeCorrect` | `Spec => []TypeOK` |
| `IndexesAlwaysAgree` | `Spec => []IndexesAgree` |
| `OnceIsClaimedAtMostOnce` | `Spec => []OnceAtMostOnce` |
| `SnapshotIsAlwaysDue`, `DispatchIsInOrder`, `SnapshotIsHonoured` | `Spec => []SnapshotIsDue`, `[]DispatchOrder`, `[]SnapshotHonoured` |
| `StopIsRespected`, `FailureIsByPolicy` | the action properties `StopRespected` and `FailsOnlyByPolicy` |
| `FilePersistenceProofs!TypeCorrect` | `Spec => []TypeOK` |
| `LockIsExclusive` | `Spec => []Exclusive` |
| `OrderIsKept` | `Spec => []OrderKept` |
| `AckedRetainedHolds`, `RetentionBoundHolds`, `DamageBoundedHolds`, `ReplayOrderedHolds`, `ReplayCompleteHolds` | `Spec => []P` for the property each is named after; the last is an action property |
| `LogSpecHolds` | `Spec => LogSpec`: the store implements `BoundedLog` |
| `OnePositionPerKeyHolds`, `ExpectedHonouredHolds`, `RealTimeOrderHolds`, `NoPoolAfterCloseHolds` | the same, for `PostgresPersistence` |
| `TableSpecHolds` | `Spec => TableSpec`: the store implements `EventTable` |
| `OneIteratorHolds`, `ClosedLeavesNothingHolds`, `ClosedTogetherHolds` | the same, for `RedisTransport` |
| `DeliveredOnceHolds`, `OneAtATimeHolds`, `NothingStrandedHolds`, `FailuresHeardHolds`, `CancelQuietsHolds` | the same, for `AsyncDebounce`; the last is an action property |
| `WindowBoundHolds`, `NothingStrandedHolds`, `LostOnlyInOverlapHolds`, `TwiceOnlyInOverlapHolds` | the same, for `TimedListener`; the last is an action property |

`InvHolds`, `DataInvHolds`, `ReplayInvHolds` and `DispatchInvHolds` state the inductive
invariants themselves. Type invariants are conjuncts of these; a run checks that of the file
store, which says what is open and buffered at each step.

Model-checked only: liveness (`MatchTerminates`, `DispatchTerminates`, `LockReleased`,
`CallsEnd` of both models, `IteratorsEnd`, `Settles`), which is out of the prover's reach
under fairness. Every invariant and every action property that a passing run checks, and both
refinements, are proved for all values of the constants.

## Findings

Disagreements between the code and what the repository says of it, each with a run that
must fail:

* **Error handler removed at the wrong moment** (`doc_handler`). `_handle_error` reads
  `_error_handler` twice; `set_error_handler(None)` in between makes it call `None`, and
  a `TypeError` ends the dispatch, against `docs/core-semantics.md:12`.
* **Written and not replayable** (`doc_replayable`). `docs/file-persistence.md:49` says that
  every successfully written record remains replayable. The first record after a write
  that was cut short is appended to the unfinished line, acknowledged, and skipped by
  replay as malformed. `DamageBounded` says that one fault costs one record.
* **Equal priorities** (`doc_order`). `docs/core-semantics.md:9`, `docs/api.md:77` and the
  comment at `dispatch.py:44` promise the order of registration for equal priorities. The router
  returns exact registrations before wildcard ones (`router.py:77`) and the sort is stable, so
  a wildcard registration that came first runs second (`RegistrationOrder`). `DispatchOrder`
  states the order that holds: registration order among those of one kind.

Others follow from the models without a run of their own:

* `docs/core-semantics.md:17` says that mutation during a dispatch does not affect the active
  snapshot; a once-registration that an earlier listener unregisters fails its claim.
  `SnapshotHonoured` names the exception.
* `docs/file-persistence.md:40` promises a consistent view; a consumer that appends can
  rotate the files under its own iterator, which then never opens one of them.
  `ReplayComplete` is about batches in which that does not happen.
* The rate limiter can admit more than its number of calls within a period when a caller is
  delayed between its reading of the clock and the lock; `WindowBound` is what is left.
* A debounced event that arrives while a fired timer or a `flush` clears the pending one
  is lost; an event is received twice while its first timer has not cleared it
  (`LostOnlyInOverlap`, `TwiceOnlyInOverlap`). `Debouncer.flush` returns the event and does
  not execute the callback, although its docstring (`debounce.py:141`) says so.
* A cancelled `close` of a Redis consumer leaves its subscription, and an iterator that is
  cancelled while its `finally` waits for the lock leaves the consumer unusable
  (`cut` in `ClosedLeavesNothing` and `OneIterator`).
* In `async_debounce`: a wrapper call that is cancelled while it stops the old task strands
  the call that was pending (`orphans`); a callback that calls its own debouncer while it
  handles its cancellation waits for the call that waits for it (`Tangled`); a flush that
  finds a task which has just ended reports its failure, and the done callback keeps the
  same failure for the next call.

## Plan

Modelled are the bus, the router, the file store, the PostgreSQL store, the Redis transport,
both debouncers and the rate limiter; every invariant and action property the runs check is
proved. What could come next, by importance:

1. The Redis transport as an implementation of a set of open consumers, from the invariants
   there are.
2. `BusLocking`: the bus's lock as a variable, filters run under it, and a mutex of the
   application; the middleware chain as a variable of `EventBus`.
3. `WindowBound` for the limiter alone, without the debouncer around it.
4. `Lifespan` (adapter): cleanup before the terminal message.

## Not modelled

* The in-memory store (`stores/memory.py`): each operation is one step under one lock over one
  list; a model would be the lock. The guarantees worth checking are those of the
  PostgreSQL store.
* The web adapters (`adapters/`): framework glue around one flag and one lock; the one order
  at stake, cleanup before the terminal message, is listed as a hazard.
* Plugins and the schema registry (`plugins/`, `schemas/`): sequential set-up over
  name-indexed maps; the verdict of a validator is the constant `Valid`.
* The middleware chain's own `add` and `remove`: a dispatch takes the chain as it was.
* JSON encoding (`codecs/json.py`): a pure conversion; stores and transports treat an
  encoded event as a value that is equal or not.
* Configuration (`config.py`, `configuration/`): parsing of settings without state; the
  two flags that change behaviour are constants of `EventBus`.
* Contracts, exceptions, API status: declarations without behaviour.
* Observability and the logging handler: recording and formatting, best effort, with no
  effect on the parts above.
* The default bus and the decorators: calls of the same `register` on a global bus.
