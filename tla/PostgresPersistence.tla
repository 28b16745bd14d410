------------------------- MODULE PostgresPersistence -------------------------
(***************************************************************************)
(* The PostgreSQL event store (src/src/eventful/persistence/               *)
(* postgres_persistence.py): appends as transactions with idempotency keys *)
(* and expected positions, snapshot reads that keep a connection, schema   *)
(* migration, and the life of the pool.                                    *)
(*                                                                         *)
(* The server is external and modelled by what the statements ask of it:   *)
(* READ COMMITTED transactions, an EXCLUSIVE table lock against the ROW    *)
(* EXCLUSIVE lock of every insert, a unique key on which an insert waits   *)
(* for the transaction that has it in flight, and an identity sequence     *)
(* that is drawn before the row is visible and never rolled back.  An      *)
(* event stands for its type, media type and bytes.                        *)
(***************************************************************************)
EXTENDS Integers, FiniteSets

CONSTANTS
    Tasks,      \* asyncio tasks, of all processes that share the table
    Keys,       \* idempotency keys in use
    NoKey,      \* idempotency_key=None
    Events,
    PoolSize,   \* max_pool_size
    MaxCalls,   \* bound: calls of one behaviour
    MaxAppends, \* bound: appends are among the first MaxAppends calls
    MaxFaults   \* bound: errors, cancellations and lost connections

ASSUME PostgresAssumption ==
    /\ NoKey \notin Keys
    /\ Events # {}
    /\ PoolSize \in Nat \ {0}
    /\ MaxCalls \in Nat
    /\ MaxAppends \in Nat
    /\ MaxFaults \in Nat

VARIABLES
    rows,       \* the committed rows of the table
    drawn,      \* the last position drawn from the identity sequence
    version,    \* the committed schema version; the table exists from 1 on
    pool,       \* the pool: "none", "open", "closing", "closed"
    closed,     \* _closed
    op,         \* the call that each task runs
    reader,     \* the read iterator of each task: none, or the positions left
    acks,       \* history: the appends that returned
    calls,      \* calls so far
    faults      \* faults so far

vars == <<rows, drawn, version, pool, closed, op, reader, acks, calls, faults>>
table == <<rows, drawn, version>>

Unchecked == -2     \* expected_position=None; a read has "after" in its place
Positions == Nat \ {0}
Row == [pos : Positions, key : Keys \union {NoKey}, event : Events]

Idle == [pc |-> "idle", call |-> "none", key |-> NoKey, event |-> CHOOSE e \in Events : TRUE,
         expected |-> Unchecked, pos |-> 0, before |-> 0]

Init ==
    /\ rows = {}
    /\ drawn = 0
    /\ version \in {0, 1}     \* migrated before or not
    /\ pool = "none"
    /\ closed = FALSE
    /\ op = [t \in Tasks |-> Idle]
    /\ reader = [t \in Tasks |-> [pc |-> "none", left |-> {}]]
    /\ acks = {}
    /\ calls = 0
    /\ faults = 0

-----------------------------------------------------------------------------
At(t, pc) == op[t].pc = pc
Goes(t, pc) == op' = [op EXCEPT ![t].pc = pc]
Leaves(t) == op' = [op EXCEPT ![t] = Idle]

\* The steps of a call that has a connection, in a transaction.
Connected == {"advisory", "version", "create", "lock", "check", "insert", "claim",
              "select", "commit", "snapshot"}
InUse == { t \in Tasks : op[t].pc \in Connected }
Held == { t \in Tasks : reader[t].pc = "rows" }
Connections == Cardinality(InUse) + Cardinality(Held)

\* Locks last until the transaction ends.
HasInserted(t) == op[t].pc \in {"claim", "select"} \/ (At(t, "commit") /\ op[t].call = "append")

\* Mutant: LOCK TABLE is left out.
MutHasLocked(t) == FALSE

HasLocked(t) == op[t].expected # Unchecked /\ (op[t].pc \in {"check", "insert"} \/ HasInserted(t))

MaxPosition(R) ==
    IF R = {} THEN -1 ELSE CHOOSE p \in { r.pos : r \in R } : \A r \in R : r.pos <= p
LastRow == MaxPosition(rows)

-----------------------------------------------------------------------------
\* A public call begins: _require_pool refuses it when the store is closed.
Call(t, call, key, event, expected) ==
    /\ At(t, "idle")
    /\ calls < MaxCalls
    /\ ~closed \/ call = "close"
    /\ call = "read" => reader[t].pc = "none"
    /\ calls' = calls + 1
    /\ op' = [op EXCEPT ![t] =
                [pc |-> IF call = "close" THEN "close" ELSE "open", call |-> call,
                 key |-> key, event |-> event, expected |-> expected,
                 pos |-> 0,
                 before |-> IF call = "append" THEN LastRow ELSE 0]]
    /\ UNCHANGED <<table, pool, closed, reader, acks, faults>>

OpenLocked == \E t \in Tasks : At(t, "creating")

\* Mutant: a call that waited for the lock does not look whether the store was closed.
MutOpen(t) ==
    /\ At(t, "open")
    /\ ~OpenLocked
    /\ Goes(t, IF pool \in {"none", "closed"} THEN "creating" ELSE "acquire")
    /\ UNCHANGED <<table, pool, closed, reader, acks, calls, faults>>

\* open() under _open_lock.
Open(t) ==
    /\ At(t, "open")
    /\ ~OpenLocked
    /\ IF closed THEN Leaves(t)
       ELSE Goes(t, IF pool = "none" THEN "creating" ELSE "acquire")
    /\ UNCHANGED <<table, pool, closed, reader, acks, calls, faults>>

CreatePool(t) ==
    /\ At(t, "creating")
    /\ pool' = "open"
    /\ Goes(t, "acquire")
    /\ UNCHANGED <<table, closed, reader, acks, calls, faults>>

FirstStep(t) ==
    IF op[t].call = "migrate" THEN "advisory"
    ELSE IF op[t].call = "read" THEN "snapshot"
    ELSE IF op[t].expected # Unchecked THEN "lock"
    ELSE "insert"

\* pool.acquire(): a pool that is being closed refuses.
Acquire(t) ==
    /\ At(t, "acquire")
    /\ IF pool = "open"
       THEN Connections < PoolSize /\ Goes(t, FirstStep(t))
       ELSE Leaves(t)
    /\ UNCHANGED <<table, pool, closed, reader, acks, calls, faults>>

\* close() marks the store under _open_lock and then waits for the connections.
Close(t) ==
    /\ At(t, "close")
    /\ ~OpenLocked
    /\ closed' = TRUE
    /\ IF ~closed /\ pool = "open"
       THEN pool' = "closing" /\ Goes(t, "closing")
       ELSE Leaves(t) /\ UNCHANGED pool
    /\ UNCHANGED <<table, reader, acks, calls, faults>>

PoolCloses(t) ==
    /\ At(t, "closing")
    /\ Connections = 0
    /\ pool' = "closed"
    /\ Leaves(t)
    /\ UNCHANGED <<table, closed, reader, acks, calls, faults>>

-----------------------------------------------------------------------------
(* Append.  Every step but close and migrate needs the table.              *)

LockTable(t) ==
    /\ At(t, "lock")
    /\ \A u \in Tasks \ {t} : ~HasLocked(u) /\ ~HasInserted(u)
    /\ IF version = 0 THEN Leaves(t) ELSE Goes(t, "check")
    /\ UNCHANGED <<table, pool, closed, reader, acks, calls, faults>>

\* Mutant: only an expected position that the table has not reached is refused.
MutCheckPosition(t) ==
    /\ At(t, "check")
    /\ IF MaxPosition(rows) >= op[t].expected
       THEN Goes(t, "insert") ELSE Leaves(t)
    /\ UNCHANGED <<table, pool, closed, reader, acks, calls, faults>>

CheckPosition(t) ==
    /\ At(t, "check")
    /\ IF MaxPosition(rows) = op[t].expected
       THEN Goes(t, "insert") ELSE Leaves(t)
    /\ UNCHANGED <<table, pool, closed, reader, acks, calls, faults>>

\* The insert begins: it takes its lock and draws a position.
Insert(t) ==
    /\ At(t, "insert")
    /\ \A u \in Tasks \ {t} : ~HasLocked(u)
    /\ IF version = 0
       THEN Leaves(t) /\ UNCHANGED drawn
       ELSE /\ drawn' = drawn + 1
            /\ op' = [op EXCEPT ![t].pc = "claim", ![t].pos = drawn + 1]
    /\ UNCHANGED <<rows, version, pool, closed, reader, acks, calls, faults>>

InFlight(t, key) ==
    \E u \in Tasks \ {t} : At(u, "commit") /\ op[u].call = "append" /\ op[u].key = key
Taken(key) == { r \in rows : r.key = key }

\* Mutant: ON CONFLICT DO UPDATE, which returns the old position.
MutClaimKey(t) ==
    LET key == op[t].key IN
    /\ At(t, "claim")
    /\ key # NoKey => ~InFlight(t, key)
    /\ op' = [op EXCEPT ![t].pc = "commit", ![t].pos =
                IF key = NoKey \/ Taken(key) = {} THEN @
                ELSE (CHOOSE r \in Taken(key) : TRUE).pos]
    /\ UNCHANGED <<table, pool, closed, reader, acks, calls, faults>>

\* ON CONFLICT (idempotency_key) DO NOTHING: NULL never conflicts, and a key in
\* flight is waited for.
ClaimKey(t) ==
    LET key == op[t].key IN
    /\ At(t, "claim")
    /\ key # NoKey => ~InFlight(t, key)
    /\ Goes(t, IF key = NoKey \/ Taken(key) = {} THEN "commit" ELSE "select")
    /\ UNCHANGED <<table, pool, closed, reader, acks, calls, faults>>

Acknowledge(t, pos, fresh) ==
    acks' = acks \union {[pos |-> pos, key |-> op[t].key, event |-> op[t].event,
                          expected |-> op[t].expected, before |-> op[t].before, fresh |-> fresh]}

\* Mutant: the position this call has drawn is returned.
MutSelectExisting(t) ==
    /\ At(t, "select")
    /\ Acknowledge(t, op[t].pos, FALSE)
    /\ Leaves(t)
    /\ UNCHANGED <<table, pool, closed, reader, calls, faults>>

\* The row of the key decides: the same event has its position, another is an error.
SelectExisting(t) ==
    /\ At(t, "select")
    /\ \E r \in Taken(op[t].key) :
        IF r.event = op[t].event THEN Acknowledge(t, r.pos, FALSE) ELSE UNCHANGED acks
    /\ Leaves(t)
    /\ UNCHANGED <<table, pool, closed, reader, calls, faults>>

InsertedRow(t) == [pos |-> op[t].pos, key |-> op[t].key, event |-> op[t].event]

CommitAppend(t) ==
    /\ At(t, "commit")
    /\ op[t].call = "append"
    /\ rows' = rows \union {InsertedRow(t)}
    /\ Acknowledge(t, op[t].pos, TRUE)
    /\ Leaves(t)
    /\ UNCHANGED <<drawn, version, pool, closed, reader, calls, faults>>

-----------------------------------------------------------------------------
(* Migration: each transaction takes the advisory lock first.              *)

Migrating(t) == op[t].pc \in {"version", "create"} \/ (At(t, "commit") /\ op[t].call = "migrate")

AdvisoryLock(t) ==
    /\ At(t, "advisory")
    /\ \A u \in Tasks \ {t} : ~Migrating(u)
    /\ Goes(t, "version")
    /\ UNCHANGED <<table, pool, closed, reader, acks, calls, faults>>

ReadVersion(t) ==
    /\ At(t, "version")
    /\ Goes(t, IF version < 1 THEN "create" ELSE "commit")
    /\ UNCHANGED <<table, pool, closed, reader, acks, calls, faults>>

\* CREATE TABLE without IF NOT EXISTS: the model has no step for a table that exists,
\* so that a migration that met one would be stuck.
CreateTable(t) ==
    /\ At(t, "create")
    /\ version = 0
    /\ Goes(t, "commit")
    /\ UNCHANGED <<table, pool, closed, reader, acks, calls, faults>>

CommitMigration(t) ==
    /\ At(t, "commit")
    /\ op[t].call = "migrate"
    /\ version' = 1
    /\ Leaves(t)
    /\ UNCHANGED <<rows, drawn, pool, closed, reader, acks, calls, faults>>

-----------------------------------------------------------------------------
(* Read: the iterator keeps its connection; its consumer runs in between.  *)

Snapshot(t) ==
    /\ At(t, "snapshot")
    /\ reader' = IF version = 0 THEN reader
                 ELSE [reader EXCEPT ![t] = [pc |-> "rows",
                         left |-> { r.pos : r \in { q \in rows : q.pos > op[t].expected } }]]
    /\ Leaves(t)
    /\ UNCHANGED <<table, pool, closed, acks, calls, faults>>

\* Mutant: an exhausted iterator keeps its connection.
MutNextRow(t) ==
    /\ reader[t].pc = "rows"
    /\ At(t, "idle")
    /\ reader[t].left # {}
    /\ reader' = [reader EXCEPT ![t].left = @ \ {CHOOSE p \in @ : \A q \in @ : p <= q}]
    /\ UNCHANGED <<table, pool, closed, op, acks, calls, faults>>

\* The consumer asks for the next row.
NextRow(t) ==
    /\ reader[t].pc = "rows"
    /\ At(t, "idle")
    /\ IF reader[t].left = {}
       THEN reader' = [reader EXCEPT ![t].pc = "none"]
       ELSE reader' = [reader EXCEPT ![t].left =
                        @ \ {CHOOSE p \in @ : \A q \in @ : p <= q}]
    /\ UNCHANGED <<table, pool, closed, op, acks, calls, faults>>

\* The consumer closes the iterator early.
CloseReader(t) ==
    /\ reader[t].pc = "rows"
    /\ At(t, "idle")
    /\ reader' = [reader EXCEPT ![t] = [pc |-> "none", left |-> {}]]
    /\ UNCHANGED <<table, pool, closed, op, acks, calls, faults>>

-----------------------------------------------------------------------------
\* An error, a cancellation or a lost connection at any await: the transaction is
\* rolled back and the connection returned.
Fail(t) ==
    /\ ~At(t, "idle") /\ op[t].pc \notin {"close", "closing"}
    /\ faults < MaxFaults
    /\ faults' = faults + 1
    /\ Leaves(t)
    /\ UNCHANGED <<table, pool, closed, reader, acks, calls>>

\* The commit took place and its answer did not arrive.
CommitUnanswered(t) ==
    /\ At(t, "commit")
    /\ faults < MaxFaults
    /\ faults' = faults + 1
    /\ IF op[t].call = "append"
       THEN rows' = rows \union {InsertedRow(t)} /\ UNCHANGED version
       ELSE version' = 1 /\ UNCHANGED rows
    /\ Leaves(t)
    /\ UNCHANGED <<drawn, pool, closed, reader, acks, calls>>

\* The positions an application knows: those it was given, and -1.
Known == {-1} \union { a.pos : a \in acks }

\* An event matters only with a key.
AppCall(t) ==
    \/ \E call \in {"migrate", "close"} : Call(t, call, NoKey, Idle.event, Unchecked)
    \/ \E after \in Known : Call(t, "read", NoKey, Idle.event, after)
    \/ /\ calls < MaxAppends
       /\ \E expected \in Known \union {Unchecked} :
            \/ Call(t, "append", NoKey, Idle.event, expected)
            \/ \E key \in Keys, event \in Events : Call(t, "append", key, event, expected)

CallStep(t) ==
    \/ Open(t) \/ CreatePool(t) \/ Acquire(t) \/ Close(t) \/ PoolCloses(t)
    \/ LockTable(t) \/ CheckPosition(t) \/ Insert(t) \/ ClaimKey(t)
    \/ SelectExisting(t) \/ CommitAppend(t)
    \/ AdvisoryLock(t) \/ ReadVersion(t) \/ CreateTable(t) \/ CommitMigration(t)
    \/ Snapshot(t)

Next ==
    \E t \in Tasks :
        \/ AppCall(t) \/ CallStep(t)
        \/ NextRow(t) \/ CloseReader(t)
        \/ Fail(t) \/ CommitUnanswered(t)

Spec == Init /\ [][Next]_vars

\* The event loop runs every task that can go on, the server answers, and a consumer
\* asks for the next row until there is none.
FairSpec == Spec /\ \A t \in Tasks : WF_vars(CallStep(t)) /\ WF_vars(NextRow(t))

-----------------------------------------------------------------------------
\* Where a call can be.
Steps == {"idle", "open", "creating", "acquire", "close", "closing"} \union Connected

\* The variables keep their types (PostgreSQLPersistence).
TypeOK ==
    /\ rows \subseteq Row
    /\ drawn \in Nat
    /\ version \in {0, 1}
    /\ pool \in {"none", "open", "closing", "closed"}
    /\ closed \in BOOLEAN
    /\ op \in [Tasks -> [pc : Steps, call : {"none", "migrate", "close", "read", "append"},
                         key : Keys \union {NoKey}, event : Events,
                         expected : Nat \union {-1, Unchecked}, pos : Nat,
                         before : Nat \union {-1}]]
    /\ reader \in [Tasks -> [pc : {"none", "rows"}, left : SUBSET Positions]]
    /\ acks \subseteq [pos : Positions, key : Keys \union {NoKey}, event : Events,
                       expected : Nat \union {-1, Unchecked}, before : Nat \union {-1},
                       fresh : BOOLEAN]
    /\ calls \in 0..MaxCalls
    /\ faults \in 0..MaxFaults

\* Whatever races, retries and lost answers there are, a key has one row, and every
\* append that returned with it returned that row's position and had its event.
OnePositionPerKey ==
    /\ \A r, s \in rows : r.key = s.key /\ r.key # NoKey => r = s
    /\ \A a \in acks : [pos |-> a.pos, key |-> a.key, event |-> a.event] \in rows

\* An append with an expected position that returned really came next: no row has
\* or ever gets a position between the expected one and its own.
ExpectedHonoured ==
    \A a \in acks :
        a.fresh /\ a.expected # Unchecked =>
            \A r \in rows : r.pos < a.pos => r.pos <= a.expected

\* An append gets a position above every row that was in the table when it began, with
\* its answer given, lost or under way, although positions are drawn before commit and
\* never given back: who keeps the position of a row it saw as a cursor misses no append
\* that begins afterwards (append, read).
RealTimeOrder == \A a \in acks : a.fresh => a.before < a.pos

\* No pool outlives the store: once closed is set, nobody creates a pool any more,
\* and the one there was is closed by the call that set it.
NoPoolAfterClose ==
    closed => /\ pool # "open"
              /\ ~OpenLocked
              /\ pool = "closing" => \E t \in Tasks : At(t, "closing")

\* The connections are all held by iterators whose consumers wait for the store.
HeldByWaiters ==
    /\ Held # {}
    /\ InUse = {}
    /\ \A t \in Held : ~At(t, "idle")

\* Every call and every iterator ends, unless the consumers of iterators call the
\* store and wait for connections that only they could return.
CallsEnd == <>[](Connections = 0 /\ \A t \in Tasks : At(t, "idle")) \/ <>[]HeldByWaiters

\* What a call asks for, if it appends.
Request(o) ==
    IF o.call = "append"
    THEN {[key |-> o.key, event |-> o.event, expected |-> o.expected, before |-> o.before]}
    ELSE {}
Asking == [t \in Tasks |-> Request(op[t])]

\* The store is a table with appends that take effect at once (EventTable).
Store == INSTANCE EventTable WITH asking <- Asking
TableSpec == Store!Spec
=============================================================================
