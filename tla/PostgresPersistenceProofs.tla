---------------------- MODULE PostgresPersistenceProofs ----------------------
(***************************************************************************)
(* Invariants of the PostgreSQL store, proved for every number of tasks,   *)
(* keys, events, calls and faults and every size of the pool.              *)
(***************************************************************************)
EXTENDS PostgresPersistence, Extremes, TLAPS

-----------------------------------------------------------------------------
(* The inductive invariant, in terms of what a call's record says.         *)

OpType == [pc : Steps, call : {"none", "migrate", "close", "read", "append"},
           key : Keys \union {NoKey}, event : Events,
           expected : Nat \union {-1, Unchecked}, pos : Nat, before : Nat \union {-1}]
AckType == [pos : Positions, key : Keys \union {NoKey}, event : Events,
            expected : Nat \union {-1, Unchecked}, before : Nat \union {-1}, fresh : BOOLEAN]
ReaderType == [pc : {"none", "rows"}, left : SUBSET Positions]

Inserted(o) == o.pc \in {"claim", "select"} \/ (o.pc = "commit" /\ o.call = "append")
Committing(o) == o.pc = "commit" /\ o.call = "append"
Locked(o) == o.expected # Unchecked /\ (o.pc \in {"check", "insert"} \/ Inserted(o))
Checked(a) == a.fresh = TRUE /\ a.expected # Unchecked

\* A step belongs to the call that takes it.
CallOK(o) ==
    /\ o.pc \in {"open", "creating", "acquire"} => o.call \in {"migrate", "read", "append"}
    /\ o.pc \in {"advisory", "version", "create"} => o.call = "migrate"
    /\ o.pc \in {"lock", "check", "insert", "claim", "select"} => o.call = "append"
    /\ o.pc \in {"lock", "check"} => o.expected # Unchecked

\* What a call knows is older than what it draws, and what it draws is newer than
\* everything an append with an expected position returned.
PositionOK(o, R, A, last) ==
    /\ o.before <= last
    /\ Inserted(o) => /\ o.before < o.pos /\ 0 < o.pos /\ o.pos <= last
                      /\ \A a \in A : Checked(a) => a.pos < o.pos

\* The table lock keeps every insert out, so that a check of the last position holds
\* until the commit.
LockOK(t, R) ==
    Locked(op[t]) =>
        /\ \A u \in Tasks \ {t} : ~Locked(op[u]) /\ ~Inserted(op[u])
        /\ op[t].pc # "check" => \A r \in R : r.pos <= op[t].expected

\* A key about to be committed is new, and nobody else is about to commit it.
KeyOK(t, R) ==
    Committing(op[t]) /\ op[t].key # NoKey =>
        /\ \A r \in R : r.key # op[t].key
        /\ \A u \in Tasks \ {t} : Committing(op[u]) => op[u].key # op[t].key

TableOK ==
    /\ \A t \in Tasks : CallOK(op[t]) /\ PositionOK(op[t], rows, acks, drawn)
    /\ \A t \in Tasks : LockOK(t, rows) /\ KeyOK(t, rows)
    /\ \A r \in rows : r.pos <= drawn
    /\ OnePositionPerKey
    /\ ExpectedHonoured
    /\ RealTimeOrder

\* The pool of an open store is not being closed, and only the closing call waits.
PoolOK ==
    /\ NoPoolAfterClose
    /\ ~closed => pool \in {"none", "open"}
    /\ \A t \in Tasks : At(t, "closing") => closed

Inv == TypeOK /\ TableOK /\ PoolOK

-----------------------------------------------------------------------------
(* Operators of the model.                                                 *)

\* The greatest position of a set of rows, or -1.
LEMMA MaxPositionProperties ==
    ASSUME NEW n \in Nat, NEW R, \A r \in R : r.pos \in Positions /\ r.pos <= n
    PROVE  /\ MaxPosition(R) \in Nat \union {-1}
           /\ MaxPosition(R) <= n
           /\ \A r \in R : r.pos <= MaxPosition(R)
           /\ MaxPosition(R) = -1 \/ \E r \in R : r.pos = MaxPosition(R)
<1>1. CASE R = {}
  BY <1>1 DEF MaxPosition
<1>2. CASE R # {}
  <2> DEFINE E == { r.pos : r \in R }
             M(p) == \A r \in R : r.pos <= p
  <2>1. E \in SUBSET (0..n) /\ E # {}
    <3>1. \A r \in R : r.pos \in 0..n /\ r.pos \in E
      BY DEF Positions
    <3> QED
      BY <1>2, <3>1
  <2>2. PICK e \in E : \A m \in E : m <= e
    <3> HIDE DEF E
    <3> QED
      BY <2>1, Maximum
  <2>3. M(e)
    BY <2>2
  <2>4. MaxPosition(R) = CHOOSE p \in E : M(p)
    BY <1>2 DEF MaxPosition
  <2> HIDE DEF M
  <2>5. MaxPosition(R) \in E /\ M(MaxPosition(R))
    BY <2>2, <2>3, <2>4
  <2> QED
    BY <2>1, <2>5 DEF M
<1> QED
  BY <1>1, <1>2

LEMMA OpFields ==
    ASSUME TypeOK, NEW t \in Tasks
    PROVE  /\ op[t].pc \in Steps
           /\ op[t].call \in {"none", "migrate", "close", "read", "append"}
           /\ op[t].key \in Keys \union {NoKey}
           /\ op[t].event \in Events
           /\ op[t].expected \in Nat \union {-1, Unchecked}
           /\ op[t].pos \in Nat
           /\ op[t].before \in Nat \union {-1}
  BY DEF TypeOK

\* Going on changes the step only ...
SameCall(r, o) ==
    /\ r.call = o.call /\ r.key = o.key /\ r.event = o.event
    /\ r.expected = o.expected /\ r.before = o.before

LEMMA GoesRec ==
    ASSUME TypeOK, NEW t \in Tasks, NEW pc \in Steps, Goes(t, pc)
    PROVE  \E r \in OpType : /\ op' = [op EXCEPT ![t] = r]
                             /\ r.pc = pc /\ r.pos = op[t].pos /\ SameCall(r, op[t])
<1> DEFINE o == op[t]
           r == [o EXCEPT !.pc = pc]
<1>1. o \in OpType
  BY DEF TypeOK, OpType
<1>2. op' = [op EXCEPT ![t] = r]
  BY DEF Goes
<1>3. r \in OpType /\ r.pc = pc /\ r.pos = o.pos /\ SameCall(r, o)
  <2> HIDE DEF o
  <2> QED
    BY <1>1 DEF OpType, SameCall
<1> HIDE DEF o, r
<1>4. o = op[t]
  BY DEF o
<1> QED
  BY <1>2, <1>3, <1>4

\* ... and leaving forgets the call.
LEMMA IdleFields ==
    /\ Idle \in OpType
    /\ Idle.pc = "idle" /\ Idle.before = 0
    /\ CallOK(Idle) /\ ~Inserted(Idle) /\ ~Locked(Idle)
<1>1. (CHOOSE e \in Events : TRUE) \in Events
  BY PostgresAssumption
<1>2. Idle \in OpType /\ Idle.pc = "idle" /\ Idle.before = 0
  BY <1>1 DEF Idle, OpType, Steps, Unchecked
<1> QED
  BY <1>2 DEF CallOK, Inserted, Locked

LEMMA IdleBefore ==
    ASSUME TypeOK
    PROVE  Idle.before <= drawn
<1>1. Idle.before = 0 /\ drawn \in Nat
  BY IdleFields DEF TypeOK
<1> QED
  BY <1>1

-----------------------------------------------------------------------------
(* Steps that leave the rows and the acknowledgements alone.               *)

\* The record r that task t steps to keeps the locks and the keys exclusive.
Fine(t, r) ==
    /\ CallOK(r)
    /\ Locked(r) =>
          /\ \A u \in Tasks \ {t} : ~Locked(op[u]) /\ ~Inserted(op[u])
          /\ r.pc # "check" => \A row \in rows : row.pos <= r.expected
    /\ Inserted(r) => \A u \in Tasks \ {t} : ~Locked(op[u])
    /\ Committing(r) /\ r.key # NoKey =>
          /\ \A row \in rows : row.key # r.key
          /\ \A u \in Tasks \ {t} : Committing(op[u]) => op[u].key # r.key

LEMMA TaskStep ==
    ASSUME TypeOK, TableOK, NEW t \in Tasks, NEW r \in OpType,
           op' = [op EXCEPT ![t] = r], rows' = rows, acks' = acks,
           drawn' \in Nat, drawn <= drawn',
           Fine(t, r), PositionOK(r, rows, acks, drawn')
    PROVE  TableOK'
<1>1. /\ op'[t] = r
      /\ \A u \in Tasks : u # t => op'[u] = op[u]
  BY DEF TypeOK
<1>2. ASSUME NEW u \in Tasks PROVE CallOK(op[u])' /\ PositionOK(op[u], rows, acks, drawn)'
  <2>1. CASE u = t
    BY <1>1, <2>1 DEF Fine, CallOK, PositionOK, Inserted, Checked
  <2>2. CASE u # t
    <3>1. op'[u] = op[u] /\ op[u].before \in Nat \union {-1} /\ op[u].pos \in Nat
      BY <1>1, <2>2, OpFields
    <3>2. CallOK(op[u]) /\ PositionOK(op[u], rows, acks, drawn) /\ drawn \in Nat
      BY DEF TableOK, TypeOK
    <3> QED
      BY <3>1, <3>2 DEF CallOK, PositionOK, Inserted, Checked
  <2> QED
    BY <2>1, <2>2
<1>3. ASSUME NEW u \in Tasks PROVE LockOK(u, rows)'
  <2>1. CASE u = t
    BY <1>1, <2>1 DEF Fine, LockOK
  <2>2. CASE u # t
    <3>1. LockOK(u, rows)
      BY DEF TableOK
    <3> QED
      BY <1>1, <2>2, <3>1 DEF Fine, LockOK
  <2> QED
    BY <2>1, <2>2
<1>4. ASSUME NEW u \in Tasks PROVE KeyOK(u, rows)'
  <2>1. CASE u = t
    BY <1>1, <2>1 DEF Fine, KeyOK
  <2>2. CASE u # t
    <3>1. KeyOK(u, rows)
      BY DEF TableOK
    <3> QED
      BY <1>1, <2>2, <3>1 DEF Fine, KeyOK
  <2> QED
    BY <2>1, <2>2
<1>5. \A row \in rows' : row.pos <= drawn'
  BY DEF TableOK, TypeOK, Row, Positions
<1>6. OnePositionPerKey' /\ ExpectedHonoured' /\ RealTimeOrder'
  BY DEF TableOK, OnePositionPerKey, ExpectedHonoured, RealTimeOrder
<1> QED
  BY <1>2, <1>3, <1>4, <1>5, <1>6 DEF TableOK

\* A step to a record that has no lock: nothing is left to show.
LEMMA LocklessStep ==
    ASSUME TypeOK, TableOK, NEW t \in Tasks, NEW r \in OpType,
           op' = [op EXCEPT ![t] = r], UNCHANGED <<rows, acks, drawn>>,
           CallOK(r), ~Inserted(r), ~Locked(r), r.before <= drawn
    PROVE  TableOK'
<1>1. Fine(t, r)
  BY DEF Fine, Inserted, Committing
<1>2. drawn' = drawn /\ drawn' \in Nat /\ drawn <= drawn' /\ rows' = rows /\ acks' = acks
  BY DEF TypeOK
<1>3. PositionOK(r, rows, acks, drawn')
  BY <1>2 DEF PositionOK
<1> QED
  BY <1>1, <1>2, <1>3, TaskStep

LEMMA PoolKept ==
    ASSUME TypeOK, PoolOK, NEW t \in Tasks, NEW r \in OpType,
           op' = [op EXCEPT ![t] = r], UNCHANGED <<pool, closed>>,
           op[t].pc # "closing", r.pc # "closing", r.pc = "creating" => ~closed
    PROVE  PoolOK'
<1>1. /\ op'[t] = r
      /\ \A u \in Tasks : u # t => op'[u] = op[u]
  BY DEF TypeOK
<1> QED
  BY <1>1 DEF PoolOK, NoPoolAfterClose, OpenLocked, At

\* What no step but its own action changes keeps its type.
OthersTyped ==
    /\ version' \in {0, 1}
    /\ reader' \in [Tasks -> ReaderType]
    /\ calls' \in 0..MaxCalls
    /\ faults' \in 0..MaxFaults

\* A step of a call to a place without a lock that has nothing to do with the pool.
Lockless(r) == CallOK(r) /\ ~Inserted(r) /\ ~Locked(r)

LEMMA RecordInv ==
    ASSUME Inv, NEW t \in Tasks, NEW r \in OpType, op' = [op EXCEPT ![t] = r],
           UNCHANGED <<rows, drawn, acks, pool, closed>>, OthersTyped,
           op[t].pc # "closing", r.pc # "closing", r.pc = "creating" => ~closed, Lockless(r), r.before <= drawn
    PROVE  Inv'
<1>1. TypeOK'
  BY DEF Inv, TypeOK, OpType, OthersTyped, ReaderType
<1>2. TableOK'
  BY LocklessStep DEF Inv, Lockless
<1>3. PoolOK'
  BY PoolKept DEF Inv
<1> QED
  BY <1>1, <1>2, <1>3 DEF Inv

LEMMA LeavesInv ==
    ASSUME Inv, NEW t \in Tasks, Leaves(t),
           UNCHANGED <<rows, drawn, acks, pool, closed>>, OthersTyped, op[t].pc # "closing"
    PROVE  Inv'
<1>1. op' = [op EXCEPT ![t] = Idle]
  BY DEF Leaves
<1>2. Lockless(Idle) /\ Idle \in OpType /\ Idle.pc = "idle" /\ Idle.before <= drawn
  BY IdleFields, IdleBefore DEF Lockless, Inv
<1> QED
  BY <1>1, <1>2, RecordInv

LEMMA GoesInv ==
    ASSUME Inv, NEW t \in Tasks, NEW pc \in Steps, Goes(t, pc),
           UNCHANGED <<rows, drawn, acks, pool, closed>>, OthersTyped,
           op[t].pc # "closing", pc # "closing", pc = "creating" => ~closed,
           \A r \in OpType : r.pc = pc /\ SameCall(r, op[t]) => Lockless(r)
    PROVE  Inv'
<1>1. PICK r \in OpType : /\ op' = [op EXCEPT ![t] = r]
                          /\ r.pc = pc /\ SameCall(r, op[t])
  BY GoesRec DEF Inv
<1>2. r.before <= drawn
  BY <1>1 DEF Inv, TableOK, PositionOK, SameCall
<1> QED
  BY <1>1, <1>2, RecordInv

\* Actions that leave the tables of the database and the bounds alone.
LEMMA OthersKept ==
    ASSUME TypeOK, UNCHANGED <<version, reader, calls, faults>>
    PROVE  OthersTyped
  BY DEF TypeOK, OthersTyped, ReaderType

-----------------------------------------------------------------------------
(* Calls and the pool.                                                     *)

LEMMA CallInv ==
    ASSUME Inv, NEW t \in Tasks, NEW call \in {"migrate", "close", "read", "append"},
           NEW key \in Keys \union {NoKey}, NEW event \in Events,
           NEW expected \in Nat \union {-1, Unchecked}, Call(t, call, key, event, expected)
    PROVE  Inv'
<1> DEFINE pc == IF call = "close" THEN "close" ELSE "open"
           before == IF call = "append" THEN LastRow ELSE 0
           r == [pc |-> pc, call |-> call, key |-> key, event |-> event, expected |-> expected,
                 pos |-> 0, before |-> before]
<1>1. /\ op[t].pc = "idle"
      /\ op' = [op EXCEPT ![t] = r]
      /\ UNCHANGED <<rows, drawn, acks, pool, closed>>
      /\ OthersTyped
  BY PostgresAssumption DEF Call, At, table, Inv, TypeOK, OthersTyped, ReaderType
<1>2. LastRow \in Nat \union {-1} /\ LastRow <= drawn
  <2>1. drawn \in Nat /\ \A a \in rows : a.pos \in Positions /\ a.pos <= drawn
    BY DEF Inv, TableOK, TypeOK, Row
  <2> QED
    BY <2>1, MaxPositionProperties DEF LastRow
<1>3. pc \in {"open", "close"} /\ (pc = "open" => call # "close")
  OBVIOUS
<1>4. before \in Nat \union {-1} /\ before <= drawn
  BY <1>2 DEF Inv, TypeOK
<1> HIDE DEF pc, before
<1>5. /\ r \in OpType
      /\ r.pc = pc /\ r.call = call /\ r.before = before
  BY <1>3, <1>4 DEF OpType, Steps
<1> HIDE DEF r
<1>6. Lockless(r)
  BY <1>3, <1>5 DEF Lockless, CallOK, Inserted, Locked
<1> QED
  BY <1>1, <1>3, <1>4, <1>5, <1>6, RecordInv

LEMMA AppCallInv ==
    ASSUME Inv, NEW t \in Tasks, AppCall(t)
    PROVE  Inv'
<1>1. Idle.event \in Events
  BY IdleFields DEF OpType
<1>2. \A a \in Known : a \in Nat \union {-1}
  BY DEF Known, Inv, TypeOK, Positions
<1>3. CASE \E call \in {"migrate", "close"} : Call(t, call, NoKey, Idle.event, Unchecked)
  BY <1>1, <1>3, CallInv
<1>4. CASE \E after \in Known : Call(t, "read", NoKey, Idle.event, after)
  BY <1>1, <1>2, <1>4, CallInv
<1>5. CASE \E expected \in Known \union {Unchecked} :
             \/ Call(t, "append", NoKey, Idle.event, expected)
             \/ \E key \in Keys, event \in Events : Call(t, "append", key, event, expected)
  <2>1. PICK expected \in Known \union {Unchecked} :
             \/ Call(t, "append", NoKey, Idle.event, expected)
             \/ \E key \in Keys, event \in Events : Call(t, "append", key, event, expected)
    BY <1>5
  <2>2. expected \in Nat \union {-1, Unchecked}
    BY <1>2
  <2> QED
    BY <1>1, <2>1, <2>2, CallInv
<1> QED
  BY <1>3, <1>4, <1>5 DEF AppCall

LEMMA OpenInv ==
    ASSUME Inv, NEW t \in Tasks, Open(t)
    PROVE  Inv'
<1>1. /\ op[t].pc = "open" /\ OthersTyped
      /\ UNCHANGED <<rows, drawn, acks, pool, closed>>
  BY OthersKept DEF Open, At, table, Inv
<1>2. CASE closed
  BY <1>1, <1>2, LeavesInv DEF Open
<1>3. CASE ~closed
  <2>1. PICK pc \in {"creating", "acquire"} : Goes(t, pc)
    BY <1>3 DEF Open
  <2>2. op[t].call \in {"migrate", "read", "append"} /\ pc \in Steps
    BY <1>1 DEF Inv, TableOK, CallOK, Steps
  <2>3. \A r \in OpType : r.pc = pc /\ SameCall(r, op[t]) => Lockless(r)
    BY <2>2 DEF SameCall, Lockless, CallOK, Inserted, Locked
  <2> QED
    BY <1>1, <1>3, <2>1, <2>2, <2>3, GoesInv
<1> QED
  BY <1>2, <1>3

\* A connection is given out; the call begins its transaction.
LEMMA AcquireInv ==
    ASSUME Inv, NEW t \in Tasks, Acquire(t)
    PROVE  Inv'
<1>1. /\ op[t].pc = "acquire" /\ OthersTyped
      /\ UNCHANGED <<rows, drawn, acks, pool, closed>>
  BY OthersKept DEF Acquire, At, table, Inv
<1>2. CASE pool = "open"
  <2>1. Goes(t, FirstStep(t))
    BY <1>2 DEF Acquire
  <2>2. op[t].call \in {"migrate", "read", "append"}
    BY <1>1 DEF Inv, TableOK, CallOK
  <2>3. \/ FirstStep(t) = "advisory" /\ op[t].call = "migrate"
        \/ FirstStep(t) = "snapshot" /\ op[t].call = "read"
        \/ FirstStep(t) = "lock" /\ op[t].call = "append" /\ op[t].expected # Unchecked
        \/ FirstStep(t) = "insert" /\ op[t].call = "append" /\ op[t].expected = Unchecked
    BY <2>2 DEF FirstStep
  <2>4. FirstStep(t) \in Steps \ {"creating", "closing"}
    BY <2>3 DEF Steps, Connected
  <2>5. \A r \in OpType : r.pc = FirstStep(t) /\ SameCall(r, op[t]) => Lockless(r)
    BY <2>3 DEF SameCall, Lockless, CallOK, Inserted, Locked
  <2> QED
    BY <1>1, <2>1, <2>4, <2>5, GoesInv
<1>3. CASE pool # "open"
  BY <1>1, <1>3, LeavesInv DEF Acquire
<1> QED
  BY <1>2, <1>3

\* A pool is created for an open store only.
LEMMA CreatePoolInv ==
    ASSUME Inv, NEW t \in Tasks, CreatePool(t)
    PROVE  Inv'
<1>1. /\ op[t].pc = "creating" /\ OthersTyped
      /\ UNCHANGED <<rows, drawn, acks, closed>> /\ pool' = "open"
      /\ Goes(t, "acquire") /\ "acquire" \in Steps /\ TypeOK /\ TableOK /\ PoolOK
  BY OthersKept DEF CreatePool, At, table, Inv, Steps
<1>2. ~closed
  BY <1>1 DEF PoolOK, NoPoolAfterClose, OpenLocked, At
<1>3. PICK r \in OpType : /\ op' = [op EXCEPT ![t] = r]
                          /\ r.pc = "acquire" /\ SameCall(r, op[t])
  BY <1>1, GoesRec
<1>4. Lockless(r) /\ r.before <= drawn
  BY <1>1, <1>3 DEF TableOK, CallOK, PositionOK, SameCall, Lockless, Inserted, Locked
<1>5. TableOK'
  BY <1>1, <1>3, <1>4, LocklessStep DEF Lockless
<1>6. TypeOK'
  BY <1>1, <1>3 DEF TypeOK, OpType, OthersTyped, ReaderType
<1>7. PoolOK'
  <2>1. op'[t].pc = "acquire" /\ \A u \in Tasks : u # t => op'[u] = op[u]
    BY <1>1, <1>3 DEF TypeOK
  <2> QED
    BY <1>1, <1>2, <2>1 DEF PoolOK, NoPoolAfterClose, OpenLocked, At
<1> QED
  BY <1>5, <1>6, <1>7 DEF Inv

\* The first close takes the pool away.
LEMMA CloseInv ==
    ASSUME Inv, NEW t \in Tasks, Close(t)
    PROVE  Inv'
<1>1. /\ op[t].pc = "close" /\ OthersTyped /\ closed' = TRUE
      /\ \A u \in Tasks : op[u].pc # "creating"
      /\ UNCHANGED <<rows, drawn, acks>> /\ TypeOK /\ TableOK /\ PoolOK
  BY OthersKept DEF Close, At, table, Inv, OpenLocked
<1>2. CASE ~closed /\ pool = "open"
  <2>1. pool' = "closing" /\ Goes(t, "closing") /\ "closing" \in Steps
    BY <1>2 DEF Close, Steps
  <2>2. PICK r \in OpType : /\ op' = [op EXCEPT ![t] = r]
                            /\ r.pc = "closing" /\ SameCall(r, op[t])
    BY <1>1, <2>1, GoesRec
  <2>3. Lockless(r) /\ r.before <= drawn
    BY <1>1, <2>2 DEF TableOK, CallOK, PositionOK, SameCall, Lockless, Inserted, Locked
  <2>4. TableOK'
    BY <1>1, <2>2, <2>3, LocklessStep DEF Lockless
  <2>5. TypeOK'
    BY <1>1, <2>1, <2>2 DEF TypeOK, OpType, OthersTyped, ReaderType
  <2>6. PoolOK'
    <3>1. op'[t].pc = "closing" /\ \A u \in Tasks : u # t => op'[u] = op[u]
      BY <1>1, <2>2 DEF TypeOK
    <3> QED
      BY <1>1, <2>1, <3>1 DEF PoolOK, NoPoolAfterClose, OpenLocked, At
  <2> QED
    BY <2>4, <2>5, <2>6 DEF Inv
<1>3. CASE ~(~closed /\ pool = "open")
  <2>1. pool' = pool /\ op' = [op EXCEPT ![t] = Idle]
    BY <1>3 DEF Close, Leaves
  <2>2. TableOK'
    BY <1>1, <2>1, IdleFields, IdleBefore, LocklessStep
  <2>3. TypeOK'
    BY <1>1, <2>1, IdleFields DEF TypeOK, OpType, OthersTyped, ReaderType
  <2>4. PoolOK'
    <3>1. op'[t].pc = "idle" /\ \A u \in Tasks : u # t => op'[u] = op[u]
      BY <1>1, <2>1, IdleFields DEF TypeOK
    <3> QED
      BY <1>1, <1>3, <2>1, <3>1 DEF PoolOK, NoPoolAfterClose, OpenLocked, At
  <2> QED
    BY <2>2, <2>3, <2>4 DEF Inv
<1> QED
  BY <1>2, <1>3

LEMMA PoolClosesInv ==
    ASSUME Inv, NEW t \in Tasks, PoolCloses(t)
    PROVE  Inv'
<1>1. /\ op[t].pc = "closing" /\ OthersTyped /\ pool' = "closed"
      /\ op' = [op EXCEPT ![t] = Idle]
      /\ UNCHANGED <<rows, drawn, acks, closed>> /\ TypeOK /\ TableOK /\ PoolOK
  BY OthersKept DEF PoolCloses, At, table, Inv, Leaves
<1>2. TableOK'
  BY <1>1, IdleFields, IdleBefore, LocklessStep
<1>3. TypeOK'
  BY <1>1, IdleFields DEF TypeOK, OpType, OthersTyped, ReaderType
<1>4. PoolOK'
  <2>1. op'[t].pc = "idle" /\ \A u \in Tasks : u # t => op'[u] = op[u]
    BY <1>1, IdleFields DEF TypeOK
  <2> QED
    BY <1>1, <2>1 DEF PoolOK, NoPoolAfterClose, OpenLocked, At
<1> QED
  BY <1>2, <1>3, <1>4 DEF Inv

-----------------------------------------------------------------------------
(* Migration, reads and failures.                                          *)

LEMMA MigrationInv ==
    ASSUME Inv, NEW t \in Tasks,
           AdvisoryLock(t) \/ ReadVersion(t) \/ CreateTable(t)
    PROVE  Inv'
<1>1. /\ op[t].pc \in {"advisory", "version", "create"}
      /\ OthersTyped
      /\ UNCHANGED <<rows, drawn, acks, pool, closed>>
  BY OthersKept DEF AdvisoryLock, ReadVersion, CreateTable, At, table, Inv
<1>2. PICK pc \in {"version", "create", "commit"} : Goes(t, pc)
  BY DEF AdvisoryLock, ReadVersion, CreateTable
<1>3. op[t].call = "migrate" /\ pc \in Steps
  BY <1>1 DEF Inv, TableOK, CallOK, Steps, Connected
<1>4. \A r \in OpType : r.pc = pc /\ SameCall(r, op[t]) => Lockless(r)
  BY <1>3 DEF SameCall, Lockless, CallOK, Inserted, Locked
<1> QED
  BY <1>1, <1>2, <1>3, <1>4, GoesInv

LEMMA CommitMigrationInv ==
    ASSUME Inv, NEW t \in Tasks, CommitMigration(t)
    PROVE  Inv'
<1>1. /\ op[t].pc = "commit" /\ Leaves(t)
      /\ UNCHANGED <<rows, drawn, acks, pool, closed>>
      /\ OthersTyped
  BY DEF CommitMigration, At, Inv, TypeOK, OthersTyped, ReaderType
<1> QED
  BY <1>1, LeavesInv

LEMMA SnapshotInv ==
    ASSUME Inv, NEW t \in Tasks, Snapshot(t)
    PROVE  Inv'
<1> DEFINE left == { r.pos : r \in { q \in rows : q.pos > op[t].expected } }
<1>1. /\ op[t].pc = "snapshot" /\ Leaves(t)
      /\ UNCHANGED <<rows, drawn, acks, pool, closed, version, calls, faults>>
      /\ reader' = IF version = 0 THEN reader
                   ELSE [reader EXCEPT ![t] = [pc |-> "rows", left |-> left]]
  BY DEF Snapshot, At, table
<1>2. left \in SUBSET Positions
  BY DEF Inv, TypeOK, Row
<1> HIDE DEF left
<1>3. [pc |-> "rows", left |-> left] \in ReaderType
  BY <1>2 DEF ReaderType
<1>4. reader \in [Tasks -> ReaderType]
  BY DEF Inv, TypeOK, ReaderType
<1>5. reader' \in [Tasks -> ReaderType]
  BY <1>1, <1>3, <1>4
<1>6. OthersTyped
  BY <1>1, <1>5 DEF OthersTyped, Inv, TypeOK
<1> QED
  BY <1>1, <1>6, LeavesInv

\* Between its calls, the consumer of an iterator takes a row or closes it.
LEMMA ReaderInv ==
    ASSUME Inv, NEW t \in Tasks, NextRow(t) \/ CloseReader(t)
    PROVE  Inv'
<1>1. UNCHANGED <<rows, drawn, version, pool, closed, op, acks, calls, faults>>
  BY DEF NextRow, CloseReader, table
<1>2. reader' \in [Tasks -> ReaderType]
  <2>1. reader \in [Tasks -> ReaderType]
    BY DEF Inv, TypeOK, ReaderType
  <2>2. CASE NextRow(t)
    <3> DEFINE o == reader[t]
               p == CHOOSE p \in o.left : \A q \in o.left : p <= q
    <3>1. \/ reader' = [reader EXCEPT ![t] = [o EXCEPT !.pc = "none"]]
          \/ reader' = [reader EXCEPT ![t] = [o EXCEPT !.left = o.left \ {p}]]
      BY <2>2 DEF NextRow
    <3>2. o \in ReaderType
      BY <2>1
    <3> HIDE DEF o, p
    <3>3. [o EXCEPT !.pc = "none"] \in ReaderType
      BY <3>2 DEF ReaderType
    <3>4. [o EXCEPT !.left = o.left \ {p}] \in ReaderType
      BY <3>2 DEF ReaderType
    <3> QED
      BY <2>1, <3>1, <3>3, <3>4
  <2>3. CASE CloseReader(t)
    <3>1. [pc |-> "none", left |-> {}] \in ReaderType
      BY DEF ReaderType
    <3>2. reader' = [reader EXCEPT ![t] = [pc |-> "none", left |-> {}]]
      BY <2>3 DEF CloseReader
    <3> QED
      BY <2>1, <3>1, <3>2
  <2> QED
    BY <2>2, <2>3
<1>3. TypeOK'
  BY <1>1, <1>2 DEF Inv, TypeOK, ReaderType
<1>4. TableOK'
  BY <1>1 DEF Inv, TableOK, CallOK, PositionOK, LockOK, KeyOK, Locked, Inserted, Committing,
              Checked, OnePositionPerKey, ExpectedHonoured, RealTimeOrder
<1>5. PoolOK'
  BY <1>1 DEF Inv, PoolOK, NoPoolAfterClose, OpenLocked, At
<1> QED
  BY <1>3, <1>4, <1>5 DEF Inv

LEMMA FailInv ==
    ASSUME Inv, NEW t \in Tasks, Fail(t)
    PROVE  Inv'
<1>1. /\ op[t].pc # "closing" /\ Leaves(t)
      /\ UNCHANGED <<rows, drawn, acks, pool, closed>>
      /\ OthersTyped
  BY PostgresAssumption DEF Fail, At, table, Inv, TypeOK, OthersTyped, ReaderType
<1> QED
  BY <1>1, LeavesInv

-----------------------------------------------------------------------------
(* Appends.                                                                *)

\* A step of an append that leaves the rows alone.
LEMMA AppendStepInv ==
    ASSUME Inv, NEW t \in Tasks, NEW r \in OpType, op' = [op EXCEPT ![t] = r],
           op[t].pc # "closing", r.pc \notin {"closing", "creating"},
           UNCHANGED <<rows, version, pool, closed, reader, acks, calls, faults>>,
           drawn' \in Nat, drawn <= drawn', Fine(t, r), PositionOK(r, rows, acks, drawn')
    PROVE  Inv'
<1>1. TypeOK'
  BY DEF Inv, TypeOK, OpType
<1>2. TableOK'
  BY TaskStep DEF Inv
<1>3. PoolOK'
  BY PoolKept DEF Inv
<1> QED
  BY <1>1, <1>2, <1>3 DEF Inv

\* The lock is given when nobody has inserted or has it.
LEMMA LockTableInv ==
    ASSUME Inv, NEW t \in Tasks, LockTable(t)
    PROVE  Inv'
<1>1. /\ op[t].pc = "lock" /\ op[t].call = "append"
      /\ \A u \in Tasks \ {t} : ~Locked(op[u]) /\ ~Inserted(op[u])
      /\ UNCHANGED <<rows, drawn, version, pool, closed, reader, acks, calls, faults>>
      /\ TypeOK /\ drawn' \in Nat /\ drawn <= drawn'
  BY DEF LockTable, At, table, HasLocked, HasInserted, Locked, Inserted, Inv, TypeOK, TableOK, CallOK
<1>2. CASE version = 0
  <2>1. Leaves(t) /\ OthersTyped
    BY <1>1, <1>2, OthersKept DEF LockTable
  <2> QED
    BY <1>1, <2>1, LeavesInv
<1>3. CASE version # 0
  <2>1. Goes(t, "check") /\ "check" \in Steps
    BY <1>3 DEF LockTable, Steps, Connected
  <2>2. PICK r \in OpType : /\ op' = [op EXCEPT ![t] = r]
                            /\ r.pc = "check" /\ SameCall(r, op[t])
    BY <1>1, <2>1, GoesRec
  <2>3. Fine(t, r)
    BY <1>1, <2>2 DEF Inv, TableOK, CallOK, SameCall, Fine, Inserted, Committing
  <2>4. PositionOK(r, rows, acks, drawn')
    BY <1>1, <2>2 DEF Inv, TableOK, PositionOK, SameCall, Inserted
  <2> QED
    BY <1>1, <2>2, <2>3, <2>4, AppendStepInv
<1> QED
  BY <1>2, <1>3

\* The check compares with the last position of the table.
LEMMA CheckPositionInv ==
    ASSUME Inv, NEW t \in Tasks, CheckPosition(t)
    PROVE  Inv'
<1>1. /\ op[t].pc = "check" /\ op[t].call = "append"
      /\ UNCHANGED <<rows, drawn, version, pool, closed, reader, acks, calls, faults>>
      /\ TypeOK /\ drawn' \in Nat /\ drawn <= drawn'
  BY DEF CheckPosition, At, table, Inv, TypeOK, TableOK, CallOK
<1>2. CASE MaxPosition(rows) # op[t].expected
  <2>1. Leaves(t) /\ OthersTyped
    BY <1>1, <1>2, OthersKept DEF CheckPosition
  <2> QED
    BY <1>1, <2>1, LeavesInv
<1>3. CASE MaxPosition(rows) = op[t].expected
  <2>1. Goes(t, "insert") /\ "insert" \in Steps
    BY <1>3 DEF CheckPosition, Steps, Connected
  <2>2. PICK r \in OpType : /\ op' = [op EXCEPT ![t] = r]
                            /\ r.pc = "insert" /\ SameCall(r, op[t])
    BY <1>1, <2>1, GoesRec
  <2>3. \A row \in rows : row.pos <= op[t].expected
    <3>1. drawn \in Nat /\ \A row \in rows : row.pos \in Positions /\ row.pos <= drawn
      BY DEF Inv, TableOK, TypeOK, Row
    <3> QED
      BY <1>3, <3>1, MaxPositionProperties
  <2>4. Fine(t, r)
    <3>1. op[t].expected # Unchecked
      BY <1>1 DEF Inv, TableOK, CallOK
    <3>2. Locked(op[t]) /\ LockOK(t, rows)
      BY <1>1, <3>1 DEF Locked, Inv, TableOK
    <3> QED
      BY <1>1, <2>2, <2>3, <3>2 DEF LockOK, SameCall, Fine, CallOK, Inserted, Committing
  <2>5. PositionOK(r, rows, acks, drawn')
    BY <1>1, <2>2 DEF Inv, TableOK, PositionOK, SameCall, Inserted
  <2> QED
    BY <1>1, <2>2, <2>4, <2>5, AppendStepInv
<1> QED
  BY <1>2, <1>3

\* A position is drawn above all that were: those of the rows, of the calls in flight,
\* and of what the call knew when it began.
LEMMA InsertInv ==
    ASSUME Inv, NEW t \in Tasks, Insert(t)
    PROVE  Inv'
<1>1. /\ op[t].pc = "insert" /\ op[t].call = "append"
      /\ \A u \in Tasks \ {t} : ~Locked(op[u])
      /\ UNCHANGED <<rows, version, pool, closed, reader, acks, calls, faults>>
      /\ TypeOK /\ drawn \in Nat
  BY DEF Insert, At, HasLocked, HasInserted, Locked, Inserted, Inv, TypeOK, TableOK, CallOK
<1>2. CASE version = 0
  <2>1. Leaves(t) /\ OthersTyped /\ drawn' = drawn
    BY <1>1, <1>2, OthersKept DEF Insert
  <2> QED
    BY <1>1, <2>1, LeavesInv
<1>3. CASE version # 0
  <2> DEFINE o == op[t]
             n == drawn + 1
             r == [o EXCEPT !.pc = "claim", !.pos = n]
  <2>1. drawn' = n /\ op' = [op EXCEPT ![t] = r]
    BY <1>3 DEF Insert
  <2>2. n \in Nat /\ drawn <= n /\ drawn < n
    BY <1>1
  <2>3. o \in OpType
    BY <1>1 DEF TypeOK, OpType
  <2> HIDE DEF n
  <2>4. r \in OpType /\ r.pc = "claim" /\ r.pos = n /\ SameCall(r, o)
    <3> HIDE DEF o
    <3> QED
      BY <2>2, <2>3 DEF OpType, SameCall, Steps, Connected
  <2>5. o = op[t]
    OBVIOUS
  <2> HIDE DEF o, r
  <2>6. Fine(t, r)
    <3>1. Locked(r) => Locked(op[t])
      BY <1>1, <2>4, <2>5 DEF Locked, SameCall
    <3>2. LockOK(t, rows)
      BY DEF Inv, TableOK
    <3> QED
      BY <1>1, <2>4, <2>5, <3>1, <3>2 DEF LockOK, SameCall, Fine, CallOK, Committing
  <2>7. PositionOK(r, rows, acks, drawn')
    <3>1. op[t].before <= drawn /\ op[t].before \in Nat \union {-1}
      BY <1>1, OpFields DEF Inv, TableOK, PositionOK
    <3>2. \A a \in acks : a.pos \in Nat /\ a.pos <= drawn
      <4>1. SUFFICES ASSUME NEW a \in acks PROVE a.pos \in Nat /\ a.pos <= drawn
        OBVIOUS
      <4>2. [pos |-> a.pos, key |-> a.key, event |-> a.event] \in rows
        BY DEF Inv, TableOK, OnePositionPerKey
      <4>3. a.pos \in Nat
        BY <1>1 DEF TypeOK, Positions
      <4> QED
        BY <4>2, <4>3 DEF Inv, TableOK
    <3>3. r.before <= drawn' /\ r.before < r.pos /\ 0 < r.pos /\ r.pos <= drawn'
      BY <1>1, <2>1, <2>2, <2>4, <2>5, <3>1 DEF SameCall
    <3>4. \A a \in acks : a.pos < r.pos
      BY <1>1, <2>2, <2>4, <3>2
    <3> QED
      BY <3>3, <3>4 DEF PositionOK
  <2> QED
    BY <1>1, <2>1, <2>2, <2>4, <2>6, <2>7, AppendStepInv
<1> QED
  BY <1>2, <1>3

\* A key that is neither taken nor in flight can be committed.
LEMMA ClaimKeyInv ==
    ASSUME Inv, NEW t \in Tasks, ClaimKey(t)
    PROVE  Inv'
<1> DEFINE key == op[t].key
           pc == IF key = NoKey \/ Taken(key) = {} THEN "commit" ELSE "select"
<1>1. /\ op[t].pc = "claim" /\ op[t].call = "append"
      /\ UNCHANGED <<rows, drawn, version, pool, closed, reader, acks, calls, faults>>
      /\ TypeOK /\ drawn' \in Nat /\ drawn <= drawn'
  BY DEF ClaimKey, At, table, Inv, TypeOK, TableOK, CallOK
<1>2. Goes(t, pc) /\ (key # NoKey => ~InFlight(t, key))
  BY DEF ClaimKey
<1>3. pc \in {"commit", "select"} /\ pc \in Steps
  BY DEF Steps, Connected
<1>4. pc = "commit" /\ key # NoKey =>
        /\ \A row \in rows : row.key # key
        /\ \A u \in Tasks \ {t} : Committing(op[u]) => op[u].key # key
  BY <1>2 DEF Taken, InFlight, Committing, At
<1> HIDE DEF pc
<1>5. PICK r \in OpType : /\ op' = [op EXCEPT ![t] = r]
                          /\ r.pc = pc /\ r.pos = op[t].pos /\ SameCall(r, op[t])
  BY <1>1, <1>2, <1>3, GoesRec
<1>6. Inserted(op[t]) /\ Inserted(r) /\ (Locked(r) => Locked(op[t]))
  BY <1>1, <1>3, <1>5 DEF Inserted, Locked, SameCall
<1>7. Fine(t, r)
  <2>1. LockOK(t, rows) /\ \A u \in Tasks : LockOK(u, rows)
    BY DEF Inv, TableOK
  <2>2. \A u \in Tasks \ {t} : ~Locked(op[u])
    BY <1>6, <2>1 DEF LockOK
  <2> QED
    BY <1>1, <1>3, <1>4, <1>5, <1>6, <2>1, <2>2 DEF LockOK, SameCall, Fine, CallOK, Committing
<1>8. PositionOK(r, rows, acks, drawn')
  BY <1>1, <1>5, <1>6 DEF Inv, TableOK, PositionOK, SameCall
<1> QED
  BY <1>1, <1>3, <1>5, <1>7, <1>8, AppendStepInv

\* What an append returned, as a record with a name.
Ack(t, pos, fresh) ==
    [pos |-> pos, key |-> op[t].key, event |-> op[t].event,
     expected |-> op[t].expected, before |-> op[t].before, fresh |-> fresh]

LEMMA AckFields ==
    ASSUME TypeOK, NEW t \in Tasks, NEW pos \in Positions, NEW fresh \in BOOLEAN
    PROVE  /\ Ack(t, pos, fresh) \in AckType
           /\ Ack(t, pos, fresh).pos = pos
           /\ Ack(t, pos, fresh).key = op[t].key
           /\ Ack(t, pos, fresh).event = op[t].event
           /\ Ack(t, pos, fresh).expected = op[t].expected
           /\ Ack(t, pos, fresh).before = op[t].before
           /\ Ack(t, pos, fresh).fresh = fresh
  BY OpFields DEF Ack, AckType

\* The row of the key is returned to an append with its event; this is no new position.
LEMMA SelectExistingInv ==
    ASSUME Inv, NEW t \in Tasks, SelectExisting(t)
    PROVE  Inv'
<1>1. /\ op[t].pc = "select" /\ Leaves(t)
      /\ UNCHANGED <<rows, drawn, version, pool, closed, reader, calls, faults>>
      /\ TypeOK /\ TableOK /\ PoolOK
  BY DEF SelectExisting, At, table, Inv
<1>2. PICK r \in rows : /\ r.key = op[t].key
                        /\ \/ r.event = op[t].event /\ acks' = acks \union {Ack(t, r.pos, FALSE)}
                          \/ acks' = acks
  BY DEF SelectExisting, Taken, Acknowledge, Ack
<1>3. CASE acks' = acks
  BY <1>1, <1>3, OthersKept, LeavesInv
<1>4. CASE r.event = op[t].event /\ acks' = acks \union {Ack(t, r.pos, FALSE)}
  <2> DEFINE n == Ack(t, r.pos, FALSE)
  <2>1. r.pos \in Positions /\ r = [pos |-> r.pos, key |-> r.key, event |-> r.event]
    BY <1>1 DEF TypeOK, Row
  <2>2. /\ n \in AckType /\ n.pos = r.pos /\ n.key = r.key /\ n.event = r.event
        /\ n.fresh = FALSE
    <3>1. FALSE \in BOOLEAN
      OBVIOUS
    <3> QED
      BY <1>1, <1>2, <1>4, <2>1, <3>1, AckFields
  <2>3. [pos |-> n.pos, key |-> n.key, event |-> n.event] \in rows
    BY <2>1, <2>2
  <2>4. acks' = acks \union {n}
    BY <1>4
  <2> HIDE DEF n
  <2>5. ~n.fresh /\ ~Checked(n)
    BY <2>2 DEF Checked
  <2>6. /\ op' = [op EXCEPT ![t] = Idle]
        /\ op'[t] = Idle
        /\ \A u \in Tasks : u # t => op'[u] = op[u]
        /\ Idle.before <= drawn
    BY <1>1, IdleBefore DEF Leaves, TypeOK
  <2>7. TypeOK'
    <3>1. Idle \in OpType
      BY IdleFields
    <3> QED
      BY <1>1, <2>2, <2>4, <2>6, <3>1 DEF TypeOK, OpType, AckType
  <2>8. TableOK'
    <3>1. ASSUME NEW u \in Tasks
          PROVE  /\ CallOK(op[u])' /\ PositionOK(op[u], rows, acks, drawn)'
                 /\ LockOK(u, rows)' /\ KeyOK(u, rows)'
      <4>1. CASE u = t
        BY <1>1, <2>6, <4>1, IdleFields DEF CallOK, PositionOK, LockOK, KeyOK, Inserted, Locked, Committing
      <4>2. CASE u # t
        <5>1. op'[u] = op[u] /\ ~Inserted(Idle) /\ ~Locked(Idle) /\ ~Committing(Idle)
          BY <2>6, <4>2, IdleFields DEF Inserted, Committing
        <5>2. CallOK(op[u]) /\ PositionOK(op[u], rows, acks, drawn) /\ LockOK(u, rows) /\ KeyOK(u, rows)
          BY <1>1 DEF TableOK
        <5>3. CallOK(op[u])'
          BY <5>1, <5>2 DEF CallOK
        <5>4. PositionOK(op[u], rows, acks, drawn)'
          BY <1>1, <2>4, <2>5, <5>1, <5>2 DEF PositionOK, Inserted, Checked
        <5>5. LockOK(u, rows)'
          BY <1>1, <2>6, <5>1, <5>2 DEF LockOK
        <5>6. KeyOK(u, rows)'
          BY <1>1, <2>6, <5>1, <5>2 DEF KeyOK
        <5> QED
          BY <5>3, <5>4, <5>5, <5>6
      <4> QED
        BY <4>1, <4>2
    <3>2. \A row \in rows' : row.pos <= drawn'
      BY <1>1 DEF TableOK
    <3>3. OnePositionPerKey'
      BY <1>1, <2>3, <2>4 DEF TableOK, OnePositionPerKey
    <3>4. ExpectedHonoured' /\ RealTimeOrder'
      BY <1>1, <2>4, <2>5 DEF TableOK, ExpectedHonoured, RealTimeOrder
    <3> QED
      BY <3>1, <3>2, <3>3, <3>4 DEF TableOK
  <2>9. PoolOK'
    <3>1. Idle \in OpType /\ Idle.pc = "idle"
      BY IdleFields
    <3> QED
      BY <1>1, <2>6, <3>1, PoolKept
  <2> QED
    BY <2>7, <2>8, <2>9 DEF Inv
<1> QED
  BY <1>2, <1>3, <1>4

\* A commit adds the row of the call.  If it was to come next, nobody else is in an
\* insert; its key is nobody else's; and its position is above all that it knew.
LEMMA CommitRowInv ==
    ASSUME Inv, NEW t \in Tasks, op[t].pc = "commit", op[t].call = "append", Leaves(t),
           rows' = rows \union {InsertedRow(t)},
           acks' = acks \/ acks' = acks \union {Ack(t, op[t].pos, TRUE)},
           UNCHANGED <<drawn, version, pool, closed, reader, calls>>, faults' \in 0..MaxFaults
    PROVE  Inv'
<1> DEFINE o == op[t]
           n == Ack(t, o.pos, TRUE)
           row == InsertedRow(t)
<1>1. TypeOK /\ TableOK /\ PoolOK /\ drawn \in Nat
  BY DEF Inv, TypeOK
<1>2. Committing(o) /\ Inserted(o)
  BY DEF Committing, Inserted
<1>3. /\ o.pos \in Positions /\ o.pos <= drawn /\ o.before < o.pos
      /\ o.before \in Nat \union {-1}
      /\ o.expected \in Nat \union {-1, Unchecked}
      /\ \A a \in acks : Checked(a) => a.pos < o.pos
  <2>1. o.before < o.pos /\ 0 < o.pos /\ o.pos <= drawn /\ \A a \in acks : Checked(a) => a.pos < o.pos
    BY <1>1, <1>2 DEF TableOK, PositionOK
  <2>2. o.pos \in Nat /\ o.before \in Nat \union {-1} /\ o.expected \in Nat \union {-1, Unchecked}
    BY <1>1, OpFields
  <2> QED
    BY <2>1, <2>2 DEF Positions
<1>4. /\ row \in Row /\ row.pos = o.pos /\ row.key = o.key /\ row.event = o.event
      /\ row = [pos |-> o.pos, key |-> o.key, event |-> o.event]
  BY <1>1, <1>3, OpFields DEF InsertedRow, Row
<1>5. /\ n \in AckType /\ n.pos = o.pos /\ n.key = o.key /\ n.event = o.event
      /\ n.expected = o.expected /\ n.before = o.before
  <2>1. TRUE \in BOOLEAN
    OBVIOUS
  <2> QED
    BY <1>1, <1>3, <2>1, AckFields
<1>6. rows' = rows \union {row} /\ acks' \subseteq acks \union {n}
  OBVIOUS
<1>7. Checked(n) => Locked(o)
  BY <1>2, <1>5 DEF Checked, Locked
<1> HIDE DEF n, row
<1>8. /\ op' = [op EXCEPT ![t] = Idle]
      /\ op'[t] = Idle
      /\ \A u \in Tasks : u # t => op'[u] = op[u]
      /\ Idle.before <= drawn
  BY <1>1, IdleBefore DEF Leaves, TypeOK
<1>9. LockOK(t, rows) /\ KeyOK(t, rows)
  BY <1>1 DEF TableOK
<1>10. TypeOK'
  <2>1. Idle \in OpType
    BY IdleFields
  <2> QED
    BY <1>1, <1>4, <1>5, <1>6, <1>8, <2>1 DEF TypeOK, OpType, AckType
<1>11. ASSUME NEW u \in Tasks
       PROVE  /\ CallOK(op[u])' /\ PositionOK(op[u], rows, acks, drawn)'
              /\ LockOK(u, rows)' /\ KeyOK(u, rows)'
  <2>1. CASE u = t
    BY <1>1, <1>8, <2>1, IdleFields DEF CallOK, PositionOK, LockOK, KeyOK, Inserted, Locked, Committing
  <2>2. CASE u # t
    <3>1. op'[u] = op[u] /\ ~Inserted(Idle) /\ ~Locked(Idle) /\ ~Committing(Idle)
      BY <1>8, <2>2, IdleFields DEF Inserted, Committing
    <3>2. CallOK(op[u]) /\ PositionOK(op[u], rows, acks, drawn) /\ LockOK(u, rows) /\ KeyOK(u, rows)
      BY <1>1 DEF TableOK
    <3>3. CallOK(op[u])'
      BY <3>1, <3>2 DEF CallOK
    <3>4. PositionOK(op[u], rows, acks, drawn)'
      <4>1. Inserted(op[u]) => ~Checked(n)
        BY <1>7, <1>9, <2>2 DEF LockOK
      <4> QED
        BY <1>6, <3>1, <3>2, <4>1 DEF PositionOK, Inserted, Checked
    <3>5. LockOK(u, rows)'
      <4>1. ~Locked(op[u])
        BY <1>2, <2>2, <3>2 DEF LockOK
      <4> QED
        BY <3>1, <4>1 DEF LockOK, Locked, Inserted
    <3>6. KeyOK(u, rows)'
      <4>1. Committing(op[u]) /\ op[u].key # NoKey => row.key # op[u].key
        BY <1>2, <1>4, <2>2, <3>2 DEF KeyOK
      <4> QED
        BY <1>6, <1>8, <3>1, <3>2, <4>1 DEF KeyOK
    <3> QED
      BY <3>3, <3>4, <3>5, <3>6
  <2> QED
    BY <2>1, <2>2
<1>12. \A r \in rows' : r.pos <= drawn'
  BY <1>1, <1>3, <1>4, <1>6 DEF TableOK
<1>13. OnePositionPerKey'
  <2>1. \A r \in rows : r.key = row.key => r.key = NoKey
    BY <1>2, <1>4, <1>9 DEF KeyOK
  <2>2. [pos |-> n.pos, key |-> n.key, event |-> n.event] = row
    BY <1>4, <1>5
  <2> QED
    BY <1>1, <1>6, <2>1, <2>2 DEF TableOK, OnePositionPerKey
<1>14. ExpectedHonoured'
  <2>1. SUFFICES ASSUME NEW a \in acks', Checked(a), NEW r \in rows', r.pos < a.pos
                 PROVE  r.pos <= a.expected
    BY <1>10 DEF ExpectedHonoured, Checked
  <2>2. CASE a \in acks /\ r \in rows
    BY <1>1, <2>1, <2>2 DEF TableOK, ExpectedHonoured, Checked
  <2>3. CASE a \in acks /\ r = row
    BY <1>1, <1>3, <1>4, <2>1, <2>3 DEF TypeOK, Positions
  <2>4. CASE a = n /\ r \in rows
    BY <1>5, <1>7, <1>9, <2>1, <2>4 DEF LockOK
  <2>5. CASE a = n /\ r = row
    BY <1>3, <1>4, <1>5, <2>1, <2>5 DEF Positions
  <2> QED
    BY <1>6, <2>2, <2>3, <2>4, <2>5
<1>15. RealTimeOrder'
  BY <1>1, <1>3, <1>5, <1>6 DEF TableOK, RealTimeOrder
<1>16. PoolOK'
  <2>1. Idle \in OpType /\ Idle.pc = "idle"
    BY IdleFields
  <2> QED
    BY <1>1, <1>8, <2>1, PoolKept
<1> QED
  BY <1>10, <1>11, <1>12, <1>13, <1>14, <1>15, <1>16 DEF Inv, TableOK

LEMMA CommitInv ==
    ASSUME Inv, NEW t \in Tasks, CommitAppend(t) \/ CommitUnanswered(t)
    PROVE  Inv'
<1>1. CASE CommitAppend(t)
  <2>1. faults' \in 0..MaxFaults
    BY <1>1 DEF CommitAppend, Inv, TypeOK
  <2>2. acks' = acks \union {Ack(t, op[t].pos, TRUE)}
    BY <1>1 DEF CommitAppend, Acknowledge, Ack
  <2> QED
    BY <1>1, <2>1, <2>2, CommitRowInv DEF CommitAppend, At
<1>2. CASE CommitUnanswered(t) /\ op[t].call = "append"
  <2>1. faults' \in 0..MaxFaults
    BY <1>2, PostgresAssumption DEF CommitUnanswered, Inv, TypeOK
  <2> QED
    BY <1>2, <2>1, CommitRowInv DEF CommitUnanswered, At
<1>3. CASE CommitUnanswered(t) /\ op[t].call # "append"
  <2>1. /\ op[t].pc # "closing" /\ Leaves(t) /\ version' = 1
        /\ UNCHANGED <<rows, drawn, acks, pool, closed, reader, calls>>
        /\ faults' \in 0..MaxFaults
    BY <1>3, PostgresAssumption DEF CommitUnanswered, At, Inv, TypeOK
  <2>2. OthersTyped
    BY <2>1 DEF OthersTyped, Inv, TypeOK, ReaderType
  <2> QED
    BY <2>1, <2>2, LeavesInv
<1> QED
  BY <1>1, <1>2, <1>3

-----------------------------------------------------------------------------
(* The theorems.                                                           *)

LEMMA InitInv == Init => Inv
<1>1. SUFFICES ASSUME Init PROVE Inv
  OBVIOUS
<1>2. /\ rows = {} /\ acks = {} /\ drawn = 0 /\ pool = "none" /\ ~closed
      /\ op = [t \in Tasks |-> Idle]
      /\ \A t \in Tasks : op[t] = Idle
  BY <1>1 DEF Init
<1>3. TypeOK
  <2>1. op \in [Tasks -> OpType]
    BY <1>2, IdleFields
  <2>2. [pc |-> "none", left |-> {}] \in ReaderType
    BY DEF ReaderType
  <2>3. reader \in [Tasks -> ReaderType]
    BY <1>1, <2>2 DEF Init
  <2>4. closed \in BOOLEAN /\ version \in {0, 1}
    BY <1>1 DEF Init
  <2>5. calls \in 0..MaxCalls /\ faults \in 0..MaxFaults
    BY <1>1, PostgresAssumption DEF Init
  <2> QED
    BY <1>2, <2>1, <2>3, <2>4, <2>5 DEF TypeOK, OpType, ReaderType
<1>4. TableOK
  <2>1. Idle.before <= drawn
    BY <1>3, IdleBefore
  <2>2. \A t \in Tasks : CallOK(op[t]) /\ PositionOK(op[t], rows, acks, drawn)
    BY <1>2, <2>1, IdleFields DEF PositionOK
  <2>3. \A t \in Tasks : LockOK(t, rows) /\ KeyOK(t, rows)
    BY <1>2, IdleFields DEF LockOK, KeyOK, Committing
  <2> QED
    BY <1>2, <2>2, <2>3 DEF TableOK, OnePositionPerKey, ExpectedHonoured, RealTimeOrder
<1>5. PoolOK
  BY <1>2, IdleFields DEF PoolOK, NoPoolAfterClose, At
<1> QED
  BY <1>3, <1>4, <1>5 DEF Inv

LEMMA NextInv == Inv /\ [Next]_vars => Inv'
<1>1. SUFFICES ASSUME Inv, [Next]_vars PROVE Inv'
  OBVIOUS
<1>2. ASSUME NEW t \in Tasks, CallStep(t) PROVE Inv'
  BY <1>1, <1>2, OpenInv, CreatePoolInv, AcquireInv, CloseInv, PoolClosesInv, LockTableInv,
     CheckPositionInv, InsertInv, ClaimKeyInv, SelectExistingInv, CommitInv, MigrationInv,
     CommitMigrationInv, SnapshotInv DEF CallStep
<1>3. CASE UNCHANGED vars
  BY <1>1, <1>3 DEF vars, table, Inv, TypeOK, TableOK, CallOK, PositionOK, LockOK, KeyOK, Locked,
              Inserted, Committing, Checked, OnePositionPerKey, ExpectedHonoured, RealTimeOrder,
              PoolOK, NoPoolAfterClose, OpenLocked, At
<1> QED
  BY <1>1, <1>2, <1>3, AppCallInv, ReaderInv, FailInv, CommitInv DEF Next

LEMMA Invariance == Spec => []Inv
  BY InitInv, NextInv, PTL DEF Spec

\* The variables of the store keep their types.
THEOREM TypeCorrect == Spec => []TypeOK
<1>1. Inv => TypeOK
  BY DEF Inv
<1> QED
  BY <1>1, Invariance, PTL

\* A key has one row, and every append that returned with it returned this row's
\* position and had its event, whatever is retried, raced or rolled back (append).
THEOREM OnePositionPerKeyHolds == Spec => []OnePositionPerKey
<1>1. Inv => OnePositionPerKey
  BY DEF Inv, TableOK
<1> QED
  BY <1>1, Invariance, PTL

\* An append with an expected position came next in the table, for good: the table lock
\* keeps out whoever could draw or commit a position in between (append).
THEOREM ExpectedHonouredHolds == Spec => []ExpectedHonoured
<1>1. Inv => ExpectedHonoured
  BY DEF Inv, TableOK
<1> QED
  BY <1>1, Invariance, PTL

\* A position is above every one that had been returned when its append began (append).
THEOREM RealTimeOrderHolds == Spec => []RealTimeOrder
<1>1. Inv => RealTimeOrder
  BY DEF Inv, TableOK
<1> QED
  BY <1>1, Invariance, PTL

\* A closed store has no open pool and nobody is creating one (open, close).
THEOREM NoPoolAfterCloseHolds == Spec => []NoPoolAfterClose
<1>1. Inv => NoPoolAfterClose
  BY DEF Inv, PoolOK
<1> QED
  BY <1>1, Invariance, PTL
-----------------------------------------------------------------------------
(* The appends are atomic.                                                 *)

\* A position is drawn once.
DrawnOnce(t) ==
    Inserted(op[t]) =>
        /\ \A r \in rows : r.pos # op[t].pos
        /\ \A u \in Tasks \ {t} : Inserted(op[u]) => op[u].pos # op[t].pos

\* Between its check and its commit, the expected position of a call is the last one.
NextInLine(t) ==
    Locked(op[t]) /\ op[t].pc # "check" =>
        /\ Store!IsLast(op[t].expected, rows)
        /\ Inserted(op[t]) => op[t].expected < op[t].pos

\* A task that runs no call has none, and a call that looks for its row has a key.
Asked(t) ==
    /\ op[t].pc = "idle" <=> op[t] = Idle
    /\ op[t].pc = "select" => op[t].key # NoKey

AtomicOK == \A t \in Tasks : DrawnOnce(t) /\ NextInLine(t) /\ Asked(t)

\* What a step does to the call it belongs to, and to the table: it goes on or ends, ...
Onward(t, o) ==
    /\ SameCall(o, op[t]) /\ o.pos = op[t].pos /\ o.pc # "idle"
    /\ Inserted(o) => Inserted(op[t])
    /\ Locked(o) /\ o.pc # "check" =>
          \/ Locked(op[t]) /\ op[t].pc # "check"
          \/ ~Inserted(o) /\ Store!IsLast(o.expected, rows)
    /\ o.pc = "select" => o.key # NoKey

QuietEffect(t) ==
    /\ UNCHANGED <<rows, acks>>
    /\ \E o \in OpType : (o = Idle \/ Onward(t, o)) /\ op' = [op EXCEPT ![t] = o]

\* ... begins, ...
BeginEffect(t) ==
    /\ UNCHANGED <<rows, acks>>
    /\ op[t] = Idle
    /\ \E o \in OpType : /\ op' = [op EXCEPT ![t] = o]
                         /\ o.pc \in {"open", "close"}
                         /\ o.call = "append" => Store!IsLast(o.before, rows)

\* ... draws a position, ...
DrawEffect(t) ==
    /\ UNCHANGED <<rows, acks>>
    /\ \E o \in OpType : /\ op' = [op EXCEPT ![t] = o]
                         /\ SameCall(o, op[t]) /\ o.pos = drawn + 1 /\ o.pc = "claim"
                         /\ Locked(o) => Locked(op[t]) /\ op[t].pc # "check"

\* ... finds its row, ...
FindEffect(t) ==
    /\ op[t].pc = "select"
    /\ rows' = rows
    /\ op' = [op EXCEPT ![t] = Idle]
    /\ \E r \in rows : /\ r.key = op[t].key /\ r.event = op[t].event
                       /\ acks' = acks \union {Ack(t, r.pos, FALSE)}

\* ... or commits it.
CommitEffect(t) ==
    /\ Committing(op[t])
    /\ rows' = rows \union {InsertedRow(t)}
    /\ acks' = acks \/ acks' = acks \union {Ack(t, op[t].pos, TRUE)}
    /\ op' = [op EXCEPT ![t] = Idle]

TableEffects ==
    \/ UNCHANGED <<rows, acks, op>>
    \/ \E t \in Tasks : \/ QuietEffect(t) \/ BeginEffect(t) \/ DrawEffect(t)
                        \/ FindEffect(t) \/ CommitEffect(t)

LEMMA LastPosition ==
    ASSUME NEW n \in Nat, NEW R, \A r \in R : r.pos \in Positions /\ r.pos <= n
    PROVE  Store!IsLast(MaxPosition(R), R)
  BY MaxPositionProperties DEF Store!IsLast

LEMMA LeavesIsQuiet ==
    ASSUME NEW t \in Tasks, Leaves(t), UNCHANGED <<rows, acks>>
    PROVE  QuietEffect(t)
  BY IdleFields DEF Leaves, QuietEffect

LEMMA GoesIsQuiet ==
    ASSUME TypeOK, NEW t \in Tasks, NEW pc \in Steps, Goes(t, pc), pc # "idle",
           UNCHANGED <<rows, acks>>,
           \A o \in OpType : o.pc = pc /\ o.pos = op[t].pos /\ SameCall(o, op[t])
                                => Onward(t, o)
    PROVE  QuietEffect(t)
<1>1. PICK o \in OpType : /\ op' = [op EXCEPT ![t] = o]
                          /\ o.pc = pc /\ o.pos = op[t].pos /\ SameCall(o, op[t])
  BY GoesRec
<1> QED
  BY <1>1 DEF QuietEffect

\* Before its lock and its insert a call has nothing to do with the table, nor has a
\* migration at any time.
LEMMA PoolStepIsQuiet ==
    ASSUME Inv, NEW t \in Tasks,
           \/ Open(t) \/ CreatePool(t) \/ Acquire(t) \/ Close(t) \/ PoolCloses(t)
           \/ AdvisoryLock(t) \/ ReadVersion(t) \/ CreateTable(t) \/ CommitMigration(t)
           \/ Snapshot(t) \/ Fail(t)
    PROVE  QuietEffect(t)
<1>1. TypeOK /\ CallOK(op[t])
  BY DEF Inv, TableOK
<1>2. UNCHANGED <<rows, acks>>
  BY DEF Open, CreatePool, Acquire, Close, PoolCloses, AdvisoryLock, ReadVersion, CreateTable,
         CommitMigration, Snapshot, Fail, table
<1>3. ASSUME NEW pc \in Steps \ {"idle", "check", "claim", "select"}, Goes(t, pc),
             pc = "insert" => op[t].expected = Unchecked,
             pc = "commit" => op[t].call = "migrate"
      PROVE  QuietEffect(t)
  <2>1. ASSUME NEW o \in OpType, o.pc = pc, o.pos = op[t].pos, SameCall(o, op[t])
        PROVE  Onward(t, o)
    BY <1>3, <2>1 DEF Onward, SameCall, Inserted, Locked
  <2> QED
    BY <1>1, <1>2, <1>3, <2>1, GoesIsQuiet
<1>4. CASE Leaves(t)
  BY <1>2, <1>4, LeavesIsQuiet
<1>5. CASE Open(t) \/ CreatePool(t) \/ Close(t) \/ PoolCloses(t) \/ Snapshot(t) \/ Fail(t)
  BY <1>3, <1>4, <1>5 DEF Open, CreatePool, Close, PoolCloses, Snapshot, Fail, Steps
<1>6. CASE Acquire(t)
  <2>1. FirstStep(t) \in {"advisory", "snapshot", "lock", "insert"}
        /\ (FirstStep(t) = "insert" => op[t].expected = Unchecked)
    BY DEF FirstStep
  <2> QED
    BY <1>3, <1>4, <1>6, <2>1 DEF Acquire, Steps, Connected
<1>7. CASE AdvisoryLock(t) \/ ReadVersion(t) \/ CreateTable(t) \/ CommitMigration(t)
  <2>1. AdvisoryLock(t) \/ ReadVersion(t) \/ CreateTable(t) => op[t].call = "migrate"
    BY <1>1 DEF AdvisoryLock, ReadVersion, CreateTable, At, CallOK
  <2> QED
    BY <1>3, <1>4, <1>7, <2>1
       DEF AdvisoryLock, ReadVersion, CreateTable, CommitMigration, Steps, Connected
<1> QED
  BY <1>5, <1>6, <1>7

LEMMA AppendStepIsEffect ==
    ASSUME Inv, NEW t \in Tasks,
           LockTable(t) \/ CheckPosition(t) \/ Insert(t) \/ ClaimKey(t)
    PROVE  QuietEffect(t) \/ DrawEffect(t)
<1>1. TypeOK /\ CallOK(op[t]) /\ drawn \in Nat
  BY DEF Inv, TableOK, TypeOK
<1>2. UNCHANGED <<rows, acks>>
  BY DEF LockTable, CheckPosition, Insert, ClaimKey, table
<1>3. CASE Leaves(t)
  BY <1>2, <1>3, LeavesIsQuiet
<1>4. CASE LockTable(t) /\ Goes(t, "check")
  <2>1. "check" \in Steps \ {"idle"}
    BY DEF Steps, Connected
  <2>2. ASSUME NEW o \in OpType, o.pc = "check", o.pos = op[t].pos, SameCall(o, op[t])
        PROVE  Onward(t, o)
    BY <2>2 DEF Onward, Inserted
  <2> QED
    BY <1>1, <1>2, <1>4, <2>1, <2>2, GoesIsQuiet
<1>5. CASE CheckPosition(t) /\ Goes(t, "insert") /\ MaxPosition(rows) = op[t].expected
  <2>1. "insert" \in Steps \ {"idle"}
    BY DEF Steps, Connected
  <2>2. Store!IsLast(op[t].expected, rows)
    <3>1. \A r \in rows : r.pos \in Positions /\ r.pos <= drawn
      BY DEF Inv, TableOK, TypeOK, Row
    <3> QED
      BY <1>1, <1>5, <3>1, LastPosition
  <2>3. ASSUME NEW o \in OpType, o.pc = "insert", o.pos = op[t].pos, SameCall(o, op[t])
        PROVE  Onward(t, o)
    BY <2>2, <2>3 DEF Onward, SameCall, Inserted
  <2> QED
    BY <1>1, <1>2, <1>5, <2>1, <2>3, GoesIsQuiet
<1>6. CASE Insert(t) /\ ~Leaves(t)
  <2> DEFINE n == drawn + 1
             x == op[t]
             o == [x EXCEPT !.pc = "claim", !.pos = n]
  <2>1. op' = [op EXCEPT ![t] = o] /\ x.pc = "insert"
    BY <1>6 DEF Insert, At
  <2>2. n \in Nat /\ x \in OpType
    BY <1>1 DEF TypeOK, OpType
  <2> HIDE DEF n
  <2>3. o \in OpType /\ SameCall(o, x) /\ o.pos = n /\ o.pc = "claim"
    <3> HIDE DEF x
    <3> QED
      BY <2>2 DEF OpType, SameCall, Steps, Connected
  <2> HIDE DEF o
  <2>4. Locked(o) => Locked(op[t]) /\ op[t].pc # "check"
    BY <2>1, <2>3 DEF Locked, SameCall
  <2> QED
    BY <1>2, <2>1, <2>3, <2>4 DEF DrawEffect, n
<1>7. CASE ClaimKey(t)
  <2> DEFINE pc == IF op[t].key = NoKey \/ Taken(op[t].key) = {} THEN "commit" ELSE "select"
  <2>1. /\ Goes(t, pc) /\ pc \in Steps \ {"idle"} /\ pc \in {"commit", "select"}
        /\ pc = "select" => op[t].key # NoKey
        /\ op[t].pc = "claim"
    BY <1>7 DEF ClaimKey, At, Steps, Connected
  <2> HIDE DEF pc
  <2>2. ASSUME NEW o \in OpType, o.pc = pc, o.pos = op[t].pos, SameCall(o, op[t])
        PROVE  Onward(t, o)
    BY <2>1, <2>2 DEF Onward, SameCall, Inserted, Locked
  <2> QED
    BY <1>1, <1>2, <2>1, <2>2, GoesIsQuiet
<1> QED
  BY <1>3, <1>4, <1>5, <1>6, <1>7 DEF LockTable, CheckPosition

LEMMA AnswerIsEffect ==
    ASSUME Inv, NEW t \in Tasks, SelectExisting(t) \/ CommitAppend(t) \/ CommitUnanswered(t)
    PROVE  QuietEffect(t) \/ FindEffect(t) \/ CommitEffect(t)
<1>1. op' = [op EXCEPT ![t] = Idle] /\ Leaves(t)
  BY DEF SelectExisting, CommitAppend, CommitUnanswered, Leaves
<1>2. CASE SelectExisting(t)
  <2>1. CASE acks' = acks
    <3>1. rows' = rows
      BY <1>2 DEF SelectExisting, table
    <3> QED
      BY <1>1, <2>1, <3>1, LeavesIsQuiet
  <2>2. CASE acks' # acks
    BY <1>1, <1>2, <2>2 DEF SelectExisting, FindEffect, At, Taken, Acknowledge, Ack, table
  <2> QED
    BY <2>1, <2>2
<1>3. CASE CommitAppend(t)
  BY <1>1, <1>3 DEF CommitAppend, CommitEffect, Committing, At, Acknowledge, Ack
<1>4. CASE CommitUnanswered(t) /\ op[t].call = "append"
  BY <1>1, <1>4 DEF CommitUnanswered, CommitEffect, Committing, At
<1>5. CASE CommitUnanswered(t) /\ op[t].call # "append"
  <2>1. UNCHANGED <<rows, acks>>
    BY <1>5 DEF CommitUnanswered
  <2> QED
    BY <1>1, <2>1, LeavesIsQuiet
<1> QED
  BY <1>2, <1>3, <1>4, <1>5

LEMMA CallIsEffect ==
    ASSUME Inv, NEW t \in Tasks, Asked(t),
           NEW call \in {"migrate", "close", "read", "append"},
           NEW key \in Keys \union {NoKey}, NEW event \in Events,
           NEW expected \in Nat \union {-1, Unchecked}, Call(t, call, key, event, expected)
    PROVE  BeginEffect(t)
<1> DEFINE pc == IF call = "close" THEN "close" ELSE "open"
           before == IF call = "append" THEN LastRow ELSE 0
           o == [pc |-> pc, call |-> call, key |-> key, event |-> event, expected |-> expected,
                 pos |-> 0, before |-> before]
<1>1. /\ op[t] = Idle
      /\ op' = [op EXCEPT ![t] = o]
      /\ UNCHANGED <<rows, acks>>
  BY DEF Call, At, table, Asked
<1>2. Store!IsLast(LastRow, rows) /\ LastRow \in Nat \union {-1}
  <2>1. drawn \in Nat /\ \A a \in rows : a.pos \in Positions /\ a.pos <= drawn
    BY DEF Inv, TableOK, TypeOK, Row
  <2> QED
    BY <2>1, LastPosition, MaxPositionProperties DEF LastRow
<1>3. pc \in {"open", "close"} /\ before \in Nat \union {-1}
      /\ (call = "append" => before = LastRow)
  BY <1>2
<1> HIDE DEF pc, before
<1>4. o \in OpType /\ o.pc = pc /\ o.call = call /\ o.before = before
  BY <1>3 DEF OpType, Steps
<1> HIDE DEF o
<1> QED
  BY <1>1, <1>2, <1>3, <1>4 DEF BeginEffect

LEMMA AppCallIsEffect ==
    ASSUME Inv, NEW t \in Tasks, Asked(t), AppCall(t)
    PROVE  BeginEffect(t)
<1>1. Idle.event \in Events
  BY IdleFields DEF OpType
<1>2. \A a \in Known : a \in Nat \union {-1}
  BY DEF Known, Inv, TypeOK, Positions
<1>3. CASE \E call \in {"migrate", "close"} : Call(t, call, NoKey, Idle.event, Unchecked)
  BY <1>1, <1>3, CallIsEffect
<1>4. CASE \E after \in Known : Call(t, "read", NoKey, Idle.event, after)
  BY <1>1, <1>2, <1>4, CallIsEffect
<1>5. ASSUME NEW expected \in Known \union {Unchecked},
             \/ Call(t, "append", NoKey, Idle.event, expected)
             \/ \E key \in Keys, event \in Events : Call(t, "append", key, event, expected)
      PROVE  BeginEffect(t)
  <2>1. expected \in Nat \union {-1, Unchecked}
    BY <1>2
  <2> QED
    BY <1>1, <1>5, <2>1, CallIsEffect
<1> QED
  BY <1>3, <1>4, <1>5 DEF AppCall

LEMMA StepIsEffect ==
    ASSUME Inv, AtomicOK, [Next]_vars
    PROVE  TableEffects
<1>1. ASSUME NEW t \in Tasks, CallStep(t) \/ Fail(t) \/ CommitUnanswered(t)
      PROVE  QuietEffect(t) \/ DrawEffect(t) \/ FindEffect(t) \/ CommitEffect(t)
  BY <1>1, PoolStepIsQuiet, AppendStepIsEffect, AnswerIsEffect DEF CallStep
<1>2. ASSUME NEW t \in Tasks, AppCall(t) PROVE BeginEffect(t)
  BY <1>2, AppCallIsEffect DEF AtomicOK
<1>3. ASSUME NEW t \in Tasks, NextRow(t) \/ CloseReader(t) PROVE UNCHANGED <<rows, acks, op>>
  BY <1>3 DEF NextRow, CloseReader, table
<1>4. CASE UNCHANGED vars
  BY <1>4 DEF vars, table, TableEffects
<1> QED
  BY <1>1, <1>2, <1>3, <1>4 DEF Next, TableEffects

\* Another task's call keeps its place when the table stays.
LEMMA OthersAtomic ==
    ASSUME TypeOK, NEW t \in Tasks, NEW o \in OpType, op' = [op EXCEPT ![t] = o], rows' = rows,
           NEW u \in Tasks \ {t}, DrawnOnce(u), NextInLine(u), Asked(u),
           Inserted(o) /\ Inserted(op[u]) => o.pos # op[u].pos
    PROVE  DrawnOnce(u)' /\ NextInLine(u)' /\ Asked(u)'
<1>1. op'[t] = o /\ \A v \in Tasks \ {t} : op'[v] = op[v]
  BY DEF TypeOK
<1>2. op'[u] = op[u]
  BY <1>1
<1>3. DrawnOnce(u)'
  <2>1. SUFFICES ASSUME Inserted(op[u])
                 PROVE  /\ \A r \in rows : r.pos # op[u].pos
                        /\ \A v \in Tasks \ {u} : Inserted(op'[v]) => op'[v].pos # op[u].pos
    BY <1>2 DEF DrawnOnce, Inserted
  <2>2. /\ \A r \in rows : r.pos # op[u].pos
        /\ \A v \in Tasks \ {u} : Inserted(op[v]) => op[v].pos # op[u].pos
    BY <2>1 DEF DrawnOnce
  <2> QED
    BY <1>1, <2>1, <2>2
<1>4. NextInLine(u)'
  BY <1>2 DEF NextInLine, Locked, Inserted, Store!IsLast
<1>5. Asked(u)'
  BY <1>2 DEF Asked, Idle
<1> QED
  BY <1>3, <1>4, <1>5

LEMMA QuietAtomic ==
    ASSUME Inv, AtomicOK, NEW t \in Tasks, QuietEffect(t)
    PROVE  AtomicOK'
<1>1. PICK o \in OpType : (o = Idle \/ Onward(t, o)) /\ op' = [op EXCEPT ![t] = o]
  BY DEF QuietEffect
<1>2. /\ TypeOK /\ rows' = rows /\ op'[t] = o
      /\ \A v \in Tasks \ {t} : op'[v] = op[v]
      /\ \A u \in Tasks : DrawnOnce(u) /\ NextInLine(u) /\ Asked(u)
  BY <1>1 DEF Inv, TypeOK, QuietEffect, AtomicOK
<1>3. Inserted(o) => Inserted(op[t]) /\ o.pos = op[t].pos
  BY <1>1, IdleFields DEF Onward
<1>4. ASSUME NEW u \in Tasks \ {t} PROVE DrawnOnce(u)' /\ NextInLine(u)' /\ Asked(u)'
  <2>1. Inserted(o) /\ Inserted(op[u]) => o.pos # op[u].pos
    BY <1>2, <1>3 DEF DrawnOnce
  <2> QED
    BY <1>1, <1>2, <2>1, OthersAtomic
<1>5. DrawnOnce(t)'
  BY <1>2, <1>3 DEF DrawnOnce, Inserted
<1>6. NextInLine(t)'
  <2>1. SUFFICES ASSUME Locked(o), o.pc # "check"
                 PROVE  /\ Store!IsLast(o.expected, rows)
                        /\ Inserted(o) => o.expected < o.pos
    BY <1>2 DEF NextInLine, Locked, Inserted, Store!IsLast
  <2>2. Onward(t, o)
    BY <1>1, <2>1, IdleFields
  <2>3. CASE Locked(op[t]) /\ op[t].pc # "check"
    BY <1>2, <1>3, <2>2, <2>3 DEF NextInLine, Onward, SameCall
  <2>4. CASE ~Inserted(o) /\ Store!IsLast(o.expected, rows)
    BY <2>4
  <2> QED
    BY <2>1, <2>2, <2>3, <2>4 DEF Onward
<1>7. Asked(t)'
  <2>1. (o.pc = "idle" <=> o = Idle) /\ (o.pc = "select" => o.key # NoKey)
    BY <1>1, IdleFields DEF Onward
  <2> QED
    BY <1>2, <2>1 DEF Asked, Idle
<1> QED
  BY <1>4, <1>5, <1>6, <1>7 DEF AtomicOK

LEMMA BeginAtomic ==
    ASSUME Inv, AtomicOK, NEW t \in Tasks, BeginEffect(t)
    PROVE  AtomicOK'
<1>1. PICK o \in OpType : op' = [op EXCEPT ![t] = o] /\ o.pc \in {"open", "close"}
  BY DEF BeginEffect
<1>2. /\ TypeOK /\ rows' = rows /\ op'[t] = o
      /\ \A u \in Tasks : DrawnOnce(u) /\ NextInLine(u) /\ Asked(u)
      /\ ~Inserted(o) /\ ~Locked(o) /\ o # Idle
  BY <1>1, IdleFields DEF Inv, TypeOK, BeginEffect, AtomicOK, Inserted, Locked
<1>3. ASSUME NEW u \in Tasks \ {t} PROVE DrawnOnce(u)' /\ NextInLine(u)' /\ Asked(u)'
  BY <1>1, <1>2, OthersAtomic
<1>4. DrawnOnce(t)' /\ NextInLine(t)'
  BY <1>2 DEF DrawnOnce, NextInLine, Locked, Inserted
<1>5. Asked(t)'
  BY <1>1, <1>2 DEF Asked, Idle
<1> QED
  BY <1>3, <1>4, <1>5 DEF AtomicOK

\* What is drawn is above all rows, above what is in flight and above the last position.
LEMMA DrawAtomic ==
    ASSUME Inv, AtomicOK, NEW t \in Tasks, DrawEffect(t)
    PROVE  AtomicOK'
<1> DEFINE n == drawn + 1
<1>1. n \in Nat /\ drawn \in Nat /\ drawn < n
  BY DEF Inv, TypeOK
<1>2. PICK o \in OpType : /\ op' = [op EXCEPT ![t] = o]
                          /\ SameCall(o, op[t]) /\ o.pos = n /\ o.pc = "claim"
                          /\ Locked(o) => Locked(op[t]) /\ op[t].pc # "check"
  BY DEF DrawEffect
<1>3. /\ TypeOK /\ rows' = rows
      /\ \A u \in Tasks : DrawnOnce(u) /\ NextInLine(u) /\ Asked(u)
  BY DEF Inv, DrawEffect, AtomicOK
<1>4. op'[t] = o /\ \A v \in Tasks \ {t} : op'[v] = op[v]
  <2>1. op' = [op EXCEPT ![t] = o]
    BY <1>2
  <2> QED
    BY <1>3, <2>1 DEF TypeOK
<1>5. o.pos = n
  BY <1>2
<1> HIDE DEF n
<1>6. \A r \in rows : r.pos \in Nat /\ r.pos <= drawn /\ r.pos < o.pos
  <2>1. \A r \in rows : r.pos \in Nat /\ r.pos <= drawn
    BY <1>3 DEF Inv, TableOK, TypeOK, Row, Positions
  <2> QED
    BY <1>1, <1>5, <2>1
<1>7. \A u \in Tasks : Inserted(op[u]) => o.pos # op[u].pos
  <2> SUFFICES ASSUME NEW u \in Tasks, Inserted(op[u]) PROVE o.pos # op[u].pos
    OBVIOUS
  <2>1. op[u].pos <= drawn /\ op[u].pos \in Nat
    BY <1>3, OpFields DEF Inv, TableOK, PositionOK
  <2> QED
    BY <1>1, <1>5, <2>1
<1>8. ASSUME NEW u \in Tasks \ {t} PROVE DrawnOnce(u)' /\ NextInLine(u)' /\ Asked(u)'
  BY <1>2, <1>3, <1>7, OthersAtomic DEF Inserted
<1>9. DrawnOnce(t)'
  <2>1. \A r \in rows : r.pos # o.pos
    BY <1>3, <1>6
  <2> QED
    BY <1>3, <1>7, <1>4, <2>1 DEF DrawnOnce, Inserted
<1>10. NextInLine(t)'
  <2>1. SUFFICES ASSUME Locked(o)
                 PROVE  Store!IsLast(o.expected, rows) /\ o.expected < o.pos
    BY <1>3, <1>4 DEF NextInLine, Locked, Inserted, Store!IsLast
  <2>2. Store!IsLast(o.expected, rows)
    <3>1. Locked(op[t]) /\ op[t].pc # "check" /\ o.expected = op[t].expected
      BY <1>2, <2>1 DEF SameCall
    <3> QED
      BY <1>3, <3>1 DEF NextInLine
  <2>3. o.expected = -1 \/ \E r \in rows : r.pos = o.expected
    BY <2>2 DEF Store!IsLast
  <2>4. o.expected < o.pos
    BY <1>1, <1>5, <1>6, <2>3
  <2> QED
    BY <2>2, <2>4
<1>11. Asked(t)'
  <2>1. o.pc = "claim" /\ o # Idle
    BY <1>2, IdleFields
  <2> QED
    BY <1>4, <2>1 DEF Asked, Idle
<1> QED
  BY <1>8, <1>9, <1>10, <1>11 DEF AtomicOK

\* A committed position is in flight nowhere else, and nobody expects to come next.
LEMMA CommitAtomic ==
    ASSUME Inv, AtomicOK, NEW t \in Tasks, FindEffect(t) \/ CommitEffect(t)
    PROVE  AtomicOK'
<1>1. /\ TypeOK /\ op' = [op EXCEPT ![t] = Idle] /\ op'[t] = Idle /\ Idle \in OpType
      /\ \A v \in Tasks \ {t} : op'[v] = op[v]
      /\ \A u \in Tasks : DrawnOnce(u) /\ NextInLine(u) /\ Asked(u)
      /\ Idle.pc = "idle" /\ ~Inserted(Idle) /\ ~Locked(Idle)
  BY IdleFields DEF Inv, TypeOK, FindEffect, CommitEffect, AtomicOK
<1>2. DrawnOnce(t)' /\ NextInLine(t)' /\ Asked(t)'
  BY <1>1 DEF DrawnOnce, NextInLine, Asked, Locked, Inserted, Idle
<1>3. ASSUME NEW u \in Tasks \ {t} PROVE DrawnOnce(u)' /\ NextInLine(u)' /\ Asked(u)'
  <2>1. CASE FindEffect(t)
    BY <1>1, <2>1, OthersAtomic DEF FindEffect
  <2>2. CASE CommitEffect(t)
    <3>1. Inserted(op[t]) /\ rows' = rows \union {InsertedRow(t)} /\ op'[u] = op[u]
          /\ InsertedRow(t).pos = op[t].pos
      BY <1>1, <2>2 DEF CommitEffect, Committing, Inserted, InsertedRow
    <3>2. ~Locked(op[u])
      BY <3>1 DEF Inv, TableOK, LockOK
    <3>3. Inserted(op[u]) => op[u].pos # op[t].pos
      BY <1>1, <3>1 DEF DrawnOnce
    <3>4. NextInLine(u)' /\ Asked(u)'
      BY <1>1, <3>1, <3>2 DEF NextInLine, Locked, Inserted, Asked, Idle
    <3>5. DrawnOnce(u)'
      <4>1. SUFFICES ASSUME Inserted(op[u])
                     PROVE  /\ \A r \in rows' : r.pos # op[u].pos
                            /\ \A v \in Tasks \ {u} : Inserted(op'[v]) => op'[v].pos # op[u].pos
        BY <3>1 DEF DrawnOnce, Inserted
      <4>2. /\ \A r \in rows : r.pos # op[u].pos
            /\ \A v \in Tasks \ {u} : Inserted(op[v]) => op[v].pos # op[u].pos
        BY <1>1, <4>1 DEF DrawnOnce
      <4> QED
        BY <1>1, <3>1, <3>3, <4>1, <4>2
    <3> QED
      BY <3>4, <3>5
  <2> QED
    BY <2>1, <2>2
<1> QED
  BY <1>2, <1>3 DEF AtomicOK

LEMMA AtomicStep == Inv /\ AtomicOK /\ [Next]_vars => AtomicOK'
<1> SUFFICES ASSUME Inv, AtomicOK, [Next]_vars PROVE AtomicOK'
  OBVIOUS
<1>1. TableEffects
  BY StepIsEffect
<1>2. CASE UNCHANGED <<rows, acks, op>>
  BY <1>2 DEF AtomicOK, DrawnOnce, NextInLine, Asked, Locked, Inserted, Idle, Store!IsLast
<1> QED
  BY <1>1, <1>2, QuietAtomic, BeginAtomic, DrawAtomic, CommitAtomic DEF TableEffects

LEMMA AskingStep ==
    ASSUME TypeOK, NEW t \in Tasks, NEW o \in OpType, op' = [op EXCEPT ![t] = o]
    PROVE  /\ Asking' = [Asking EXCEPT ![t] = Request(o)]
           /\ Asking[t] = Request(op[t])
           /\ Request(o) = Request(op[t]) => Asking' = Asking
<1>1. op'[t] = o /\ \A u \in Tasks \ {t} : op'[u] = op[u]
  BY DEF TypeOK
<1>2. Asking' = [u \in Tasks |-> Request(op'[u])]
  BY DEF Asking, Request
<1>3. Asking' = [Asking EXCEPT ![t] = Request(o)]
  <2> DEFINE x == Request(o)
  <2>1. [Asking EXCEPT ![t] = x] = [u \in Tasks |-> IF u = t THEN x ELSE Request(op[u])]
    <3> HIDE DEF x
    <3> QED
      BY DEF Asking
  <2>2. \A u \in Tasks : Request(op'[u]) = IF u = t THEN x ELSE Request(op[u])
    BY <1>1
  <2> HIDE DEF x
  <2>3. Asking' = [u \in Tasks |-> IF u = t THEN x ELSE Request(op[u])]
    BY <1>2, <2>2
  <2> QED
    BY <2>1, <2>3 DEF x
<1>4. Asking[t] = Request(op[t])
  BY DEF Asking
<1>5. Request(o) = Request(op[t]) => Asking' = Asking
  BY <1>1, <1>2 DEF Asking
<1> QED
  BY <1>3, <1>4, <1>5

LEMMA NothingAsked == Request(Idle) = {}
  BY DEF Request, Idle

\* The end of a call that left the table alone is a refusal.
LEMMA QuietIsTable ==
    ASSUME Inv, NEW t \in Tasks, QuietEffect(t) \/ DrawEffect(t)
    PROVE  Store!GiveUp(t) \/ UNCHANGED Store!vars
<1>1. rows' = rows /\ acks' = acks /\ TypeOK
  BY DEF QuietEffect, DrawEffect, Inv
<1>2. PICK o \in OpType : (o = Idle \/ SameCall(o, op[t])) /\ op' = [op EXCEPT ![t] = o]
  BY DEF QuietEffect, DrawEffect, Onward
<1>3. /\ Asking' = [Asking EXCEPT ![t] = Request(o)] /\ Asking[t] = Request(op[t])
      /\ Request(o) = Request(op[t]) => Asking' = Asking
  BY <1>1, <1>2, AskingStep
<1>4. CASE SameCall(o, op[t])
  <2>1. Request(o) = Request(op[t])
    BY <1>4 DEF SameCall, Request
  <2> QED
    BY <1>1, <1>3, <2>1 DEF Store!vars
<1>5. CASE o = Idle
  BY <1>1, <1>3, <1>5, NothingAsked DEF Store!vars, Store!GiveUp, Store!Ends
<1> QED
  BY <1>2, <1>4, <1>5

\* A call of append is a request.
LEMMA BeginIsTable ==
    ASSUME Inv, NEW t \in Tasks, BeginEffect(t)
    PROVE  Store!Ask(t) \/ UNCHANGED Store!vars
<1>1. rows' = rows /\ acks' = acks /\ TypeOK /\ op[t] = Idle
  BY DEF BeginEffect, Inv
<1>2. PICK o \in OpType : /\ op' = [op EXCEPT ![t] = o]
                          /\ o.call = "append" => Store!IsLast(o.before, rows)
  BY DEF BeginEffect
<1>3. /\ Asking' = [Asking EXCEPT ![t] = Request(o)] /\ Asking[t] = Request(op[t])
      /\ Request(o) = Request(op[t]) => Asking' = Asking
  BY <1>1, <1>2, AskingStep
<1>4. Asking[t] = {}
  BY <1>1, <1>3, NothingAsked
<1>5. CASE o.call # "append"
  <2>1. Request(o) = {}
    BY <1>5 DEF Request
  <2> QED
    BY <1>1, <1>3, <1>4, <2>1 DEF Store!vars
<1>6. CASE o.call = "append"
  <2> DEFINE q == [key |-> o.key, event |-> o.event, expected |-> o.expected,
                   before |-> o.before]
  <2>1. Request(o) = {q} /\ q.before = o.before
    BY <1>6 DEF Request
  <2> HIDE DEF q
  <2>2. Asking' = [Asking EXCEPT ![t] = {q}]
    BY <1>3, <2>1
  <2>3. Asking'[t] = {q}
    BY <2>2 DEF Asking
  <2>4. Store!IsLast(q.before, rows)
    BY <1>2, <1>6, <2>1
  <2> QED
    BY <1>1, <1>4, <2>2, <2>3, <2>4 DEF Store!Ask
<1> QED
  BY <1>5, <1>6

\* A row that is found answers the request.
LEMMA FindIsTable ==
    ASSUME Inv, AtomicOK, NEW t \in Tasks, FindEffect(t)
    PROVE  Store!Find(t)
<1> DEFINE o == op[t]
           q == [key |-> o.key, event |-> o.event, expected |-> o.expected, before |-> o.before]
<1>1. /\ TypeOK /\ op' = [op EXCEPT ![t] = Idle] /\ Idle \in OpType /\ rows' = rows
      /\ o.call = "append" /\ o.key # NoKey
  BY IdleFields DEF FindEffect, Inv, TableOK, CallOK, AtomicOK, Asked
<1>2. Asking' = [Asking EXCEPT ![t] = {}] /\ Asking[t] = {q}
  BY <1>1, AskingStep, NothingAsked DEF Request
<1>3. PICK r \in rows : /\ r.key = o.key /\ r.event = o.event
                        /\ acks' = acks \union {Ack(t, r.pos, FALSE)}
  BY DEF FindEffect
<1>4. Store!Answers(q, r.pos, FALSE)
  BY <1>3 DEF Store!Answers, Ack
<1>5. q.key = o.key /\ q.event = o.event
  OBVIOUS
<1> HIDE DEF o, q
<1> QED
  BY <1>1, <1>2, <1>3, <1>4, <1>5 DEF Store!Find, Store!Ends

\* The commit is where an append takes effect.
LEMMA CommitIsTable ==
    ASSUME Inv, AtomicOK, NEW t \in Tasks, CommitEffect(t)
    PROVE  Store!Insert(t)
<1> DEFINE o == op[t]
           q == [key |-> o.key, event |-> o.event, expected |-> o.expected, before |-> o.before]
           r == InsertedRow(t)
<1>1. /\ TypeOK /\ op' = [op EXCEPT ![t] = Idle] /\ Idle \in OpType
      /\ Committing(o) /\ Inserted(o) /\ o.call = "append" /\ o.pc = "commit"
      /\ rows' = rows \union {r}
  BY IdleFields DEF CommitEffect, Committing, Inserted, Inv
<1>2. Asking' = [Asking EXCEPT ![t] = {}] /\ Asking[t] = {q}
  BY <1>1, AskingStep, NothingAsked DEF Request
<1>3. /\ r.pos = o.pos /\ r.key = o.key /\ r.event = o.event
      /\ q.key = o.key /\ q.event = o.event /\ q.expected = o.expected /\ q.before = o.before
  BY DEF InsertedRow
<1>4. Store!Answers(q, r.pos, TRUE) \/ acks' = acks
  BY <1>3 DEF CommitEffect, Store!Answers, Ack
<1>5. Store!Admits(q, r)
  <2>1. PositionOK(o, rows, acks, drawn) /\ KeyOK(t, rows) /\ DrawnOnce(t) /\ NextInLine(t)
    BY DEF Inv, TableOK, AtomicOK
  <2>2. \A s \in rows : s.pos # r.pos
    BY <1>1, <1>3, <2>1 DEF DrawnOnce
  <2>3. \A s \in rows : s.key = r.key => r.key = NoKey
    BY <1>1, <1>3, <2>1 DEF KeyOK
  <2>4. q.before < r.pos
    BY <1>1, <1>3, <2>1 DEF PositionOK
  <2>5. q.expected # Unchecked => Store!IsLast(q.expected, rows) /\ q.expected < r.pos
    BY <1>1, <1>3, <2>1 DEF NextInLine, Locked
  <2>6. \A a \in acks : a.fresh /\ a.expected # Unchecked => a.pos < r.pos
    BY <1>1, <1>3, <2>1 DEF PositionOK, Checked, TypeOK
  <2> HIDE DEF o, q, r
  <2> QED
    BY <1>3, <2>2, <2>3, <2>4, <2>5, <2>6 DEF Store!Admits
<1> HIDE DEF o, q, r
<1> QED
  BY <1>1, <1>2, <1>4, <1>5 DEF Store!Insert, Store!Ends

LEMMA StepIsTable ==
    Inv /\ AtomicOK /\ [Next]_vars => [Store!Next]_(Store!vars)
<1> SUFFICES ASSUME Inv, AtomicOK, [Next]_vars PROVE [Store!Next]_(Store!vars)
  OBVIOUS
<1>1. TableEffects
  BY StepIsEffect
<1>2. CASE UNCHANGED <<rows, acks, op>>
  BY <1>2 DEF Store!vars, Asking, Request
<1>3. ASSUME NEW t \in Tasks,
             QuietEffect(t) \/ BeginEffect(t) \/ DrawEffect(t) \/ FindEffect(t) \/ CommitEffect(t)
      PROVE  [Store!Next]_(Store!vars)
  BY <1>3, QuietIsTable, BeginIsTable, FindIsTable, CommitIsTable DEF Store!Next
<1> QED
  BY <1>1, <1>2, <1>3 DEF TableEffects

\* Appends, which are transactions of several statements and waits, take effect at their
\* commit and at once: the store is a table with one atomic append (append, EventTable).
THEOREM TableSpecHolds == Spec => TableSpec
<1>1. Init => Store!Init /\ AtomicOK
  <2> SUFFICES ASSUME Init PROVE Store!Init /\ AtomicOK
    OBVIOUS
  <2>1. rows = {} /\ acks = {} /\ \A t \in Tasks : op[t] = Idle
    BY DEF Init
  <2>2. Asking = [t \in Tasks |-> {}]
    BY <2>1, NothingAsked DEF Asking
  <2>3. AtomicOK
    BY <2>1, IdleFields DEF AtomicOK, DrawnOnce, NextInLine, Asked
  <2> QED
    BY <2>1, <2>2, <2>3 DEF Store!Init
<1> QED
  BY <1>1, AtomicStep, StepIsTable, Invariance, PTL DEF Spec, TableSpec, Store!Spec

=============================================================================
