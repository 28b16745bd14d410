---------------------------- MODULE AsyncDebounce ----------------------------
(***************************************************************************)
(* The asyncio debouncer (src/src/eventful/utilities/debounce.py,          *)
(* async_debounce): application tasks and the tasks it creates call the    *)
(* wrapper, cancel() and flush(); callbacks may do so, too, and may catch  *)
(* their cancellation.  One event loop: a step runs from one await that    *)
(* suspends to the next.                                                   *)
(*                                                                         *)
(* Calls are numbered; the task that wrapper call or flush n creates is    *)
(* task n, and 0 is None.  asyncio.Lock is first come, first served: the   *)
(* head of queue holds it or is about to.  Task.cancel() is a request that *)
(* the task meets where it waits.  The delay may end at any moment.        *)
(***************************************************************************)
EXTENDS Integers, FiniteSets, SequencesExt

CONSTANTS
    Apps,       \* application tasks
    MaxCalls,   \* bound: calls of one behaviour
    MaxCancels  \* bound: application tasks cancelled by others

ASSUME AsyncAssumption ==
    /\ MaxCalls \in Nat /\ MaxCancels \in Nat
    /\ Apps \intersect (0..MaxCalls) = {}

VARIABLES
    proc,       \* what each task does
    task, pending, failure, foreground,     \* the debouncer's variables
    queue,      \* its lock: holder and waiters
    cancel,     \* tasks with an undelivered cancellation
    calls,      \* calls so far
    cancels,    \* cancellations so far
    started,    \* history: how often the callback was started for each call
    nested,     \* history: tasks whose callback called the debouncer
    orphans,    \* history: pending calls whose task was stopped by a call that failed
    reported,   \* history: tasks whose exception a call raised
    hushed      \* history: tasks whose flush was cancelled when they had ended

debouncer == <<task, pending, failure, foreground>>
bounds == <<calls, cancels>>
history == <<started, nested, orphans, reported, hushed>>
vars == <<proc, debouncer, queue, cancel, bounds, history>>

Calls == 1..MaxCalls
Ops == {"wrapper", "cancel", "flush"}
Procs == Apps \union Calls

\* op, id: the call under way and its number; on: the task it waits for; got: the
\* call to deliver; end: how the task, or the task that flush awaited, ended; after:
\* tasks that had ended when this one was created, whose done callbacks run first.
Proc(pc) == [pc |-> pc, op |-> "none", id |-> 0, on |-> 0, got |-> 0,
             end |-> "none", cleanup |-> FALSE, after |-> {}]

Init ==
    /\ proc = [p \in Procs |-> Proc(IF p \in Apps THEN "idle" ELSE "none")]
    /\ task = 0 /\ pending = 0 /\ failure = 0 /\ foreground = {}
    /\ queue = <<>> /\ cancel = {}
    /\ calls = 0 /\ cancels = 0
    /\ started = [c \in Calls |-> 0]
    /\ nested = {} /\ orphans = {} /\ reported = {} /\ hushed = {}

At(p, pc) == proc[p].pc = pc
Over(k) == At(k, "over")
Ended(k) == proc[k].pc \in {"done", "over"}
New(pc) == [Proc(pc) EXCEPT !.after = { k \in Calls : At(k, "done") }]
Ready(k) == k \notin cancel /\ \A j \in proc[k].after : Over(j)
HasLock(p) == queue # <<>> /\ Head(queue) = p
Home(p) == IF p \in Apps THEN "idle" ELSE "func"
Goes(p, pc) == [proc EXCEPT ![p].pc = pc]

\* The call of p returns (or raises what its caller handles).
Back(p) == [proc EXCEPT ![p] = [Proc(Home(p)) EXCEPT !.cleanup = proc[p].cleanup]]

\* Mutant: flush keeps the lock in the end.
MutLeave(p) ==
    queue' = IF At(p, "relock") THEN queue ELSE RemoveFirst(queue, p)

\* p releases the lock or stops waiting for it.
Leave(p) == queue' = RemoveFirst(queue, p)

-----------------------------------------------------------------------------
Call(p, op) ==
    /\ At(p, Home(p))
    /\ p \notin cancel
    /\ calls < MaxCalls
    /\ calls' = calls + 1
    /\ proc' = [proc EXCEPT ![p].pc = "lock", ![p].op = op, ![p].id = calls']
    /\ queue' = Append(queue, p)
    /\ nested' = nested \union ({p} \intersect Calls)
    /\ UNCHANGED <<debouncer, cancel, cancels,
                   started, orphans, reported, hushed>>

\* raise_failure
RaiseFailure(p) ==
    /\ failure' = 0
    /\ reported' = reported \union {failure}
    /\ proc' = Back(p)
    /\ Leave(p)
    /\ UNCHANGED foreground

Orphaned == orphans' = orphans \union ({pending} \ {0})

\* stop_task found a task of others: it cancels and awaits it under the lock.
Stop(p) ==
    /\ proc' = [proc EXCEPT ![p].pc = "stop", ![p].on = task,
                    ![p].got = IF proc[p].op = "flush" THEN pending ELSE proc[p].got]
    /\ pending' = IF proc[p].op = "wrapper" THEN pending ELSE 0
    /\ cancel' = IF Ended(task) THEN cancel ELSE cancel \union {task}
    /\ task' = 0
    /\ UNCHANGED <<failure, foreground, queue, orphans, reported>>

\* Mutant: the wrapper does not look for a failure of the task it stopped.
MutFails(p) == failure # 0 /\ proc[p].op = "cancel"

\* The failures seen after stop_task: flush leaves them for a later call.
Fails(p) == failure # 0 /\ proc[p].op # "flush"

\* What a call does when the previous task is out of the way.
Act(p) ==
    LET n == proc[p].id
        arg == IF At(p, "lock") THEN pending ELSE proc[p].got
    IN
    IF Fails(p)
    THEN /\ RaiseFailure(p)
         /\ task' = 0
         /\ pending' = IF proc[p].op = "cancel" THEN 0 ELSE pending
         /\ IF proc[p].op = "wrapper" THEN Orphaned ELSE UNCHANGED orphans
    ELSE /\ UNCHANGED <<failure, reported, orphans>>
         /\ Leave(p)
         /\ \/ /\ proc[p].op = "wrapper"
               /\ proc' = [Back(p) EXCEPT ![n] = New("sleep")]
               /\ task' = n /\ pending' = n
               /\ UNCHANGED foreground
            \/ /\ proc[p].op = "cancel"
               /\ proc' = Back(p)
               /\ task' = 0 /\ pending' = 0
               /\ UNCHANGED foreground
            \/ /\ proc[p].op = "flush"
               /\ proc' = [proc EXCEPT ![p].pc = "wait", ![p].on = n,
                               ![n] = [New("start") EXCEPT !.got = arg]]
               /\ task' = n /\ pending' = 0
               /\ foreground' = foreground \union {n}

\* flush without a pending call waits for the task there is, if it is not its own.
\* The await of a task that has ended returns at once.
Join(p) ==
    /\ IF task \in {0, p}
       THEN proc' = Back(p) /\ Leave(p) /\ UNCHANGED foreground
       ELSE IF Ended(task)
       THEN /\ proc' = [proc EXCEPT ![p].pc = "relock", ![p].on = task,
                                    ![p].end = proc[task].end]
            /\ queue' = Append(Tail(queue), p)
            /\ foreground' = foreground \ {task}
       ELSE /\ proc' = [proc EXCEPT ![p].pc = "wait", ![p].on = task]
            /\ Leave(p)
            /\ foreground' = foreground \union {task}
    /\ UNCHANGED <<task, pending, failure, orphans, reported>>

Locked(p) ==
    /\ At(p, "lock")
    /\ HasLock(p)
    /\ p \notin cancel
    /\ IF failure # 0 /\ proc[p].op # "cancel"
       THEN RaiseFailure(p) /\ UNCHANGED <<task, pending, orphans, cancel>>
       ELSE IF proc[p].op = "flush" /\ pending = 0 THEN Join(p) /\ UNCHANGED cancel
       ELSE IF task \notin {0, p} THEN Stop(p)
       ELSE /\ Act(p)
            /\ cancel' = IF proc[p].op = "cancel" THEN cancel \union ({task} \ {0}) ELSE cancel
    /\ UNCHANGED <<bounds, started, nested, hushed>>

\* Mutant: a cancelled task is not waited for.
MutStopped(p) == At(p, "stop")

Stopped(p) == At(p, "stop") /\ Over(proc[p].on)

\* gather is over; sleep(0) lets callbacks run.
GatherEnds(p) ==
    /\ Stopped(p)
    /\ p \notin cancel
    /\ proc' = Goes(p, "zero")
    /\ UNCHANGED <<debouncer, queue, cancel, bounds, history>>

SleepEnds(p) ==
    /\ At(p, "zero")
    /\ p \notin cancel
    /\ Act(p)
    /\ UNCHANGED <<cancel, bounds, started, nested, hushed>>

-----------------------------------------------------------------------------
\* Mutant: whatever task there is by now is forgotten.
MutForgetAny(k) == task' = 0

Forget(k) == task' = IF task = k THEN 0 ELSE task

\* CancelledError in p, inside its call or its callback: a callback may pass it on,
\* raise something else, return, or go on with its cleanup.
Thrown(p) ==
    \/ p \in Apps /\ proc' = Back(p)
    \/ p \in Calls /\ proc' = [Back(p) EXCEPT ![p].cleanup = TRUE]
    \/ \E end \in {"cancelled", "raised", "ok"} :
        p \in Calls /\ proc' = [Back(p) EXCEPT ![p].pc = "done", ![p].end = end]

\* flush's finally: it waits for the lock once more.
Woken(p) ==
    LET k == proc[p].on IN
    /\ At(p, "wait")
    /\ Over(k)
    /\ proc' = [proc EXCEPT ![p].pc = "relock",
                    ![p].end = IF p \in cancel THEN "cancelled" ELSE proc[k].end]
    /\ cancel' = cancel \ {p}
    /\ queue' = Append(queue, p)
    /\ foreground' = foreground \ {k}
    /\ hushed' = IF p \in cancel THEN hushed \union {k} ELSE hushed
    /\ UNCHANGED <<task, pending, failure, bounds, started, nested, orphans, reported>>

Relocked(p) ==
    /\ At(p, "relock")
    /\ HasLock(p)
    /\ p \notin cancel
    /\ Forget(proc[p].on)
    /\ IF proc[p].end = "cancelled" THEN Thrown(p) ELSE proc' = Back(p)
    /\ Leave(p)
    /\ reported' = IF proc[p].end = "raised" THEN reported \union {proc[p].on} ELSE reported
    /\ UNCHANGED <<pending, failure, foreground, cancel, bounds,
                   started, nested, orphans, hushed>>

\* p meets its cancellation.
Cancelled(p) ==
    /\ p \in cancel
    /\ cancel' = cancel \ {p}
    /\ \/ proc[p].pc \in {"lock", "zero", "relock", "func"} /\ Thrown(p)
       \/ Stopped(p) /\ Thrown(p)
       \/ /\ proc[p].pc \in {"sleep", "start", "take"}
          /\ proc' = [proc EXCEPT ![p].pc = "done", ![p].end = "cancelled"]
    /\ Leave(p)
    /\ IF proc[p].op = "wrapper" /\ proc[p].pc \in {"stop", "zero"}
       THEN Orphaned ELSE UNCHANGED orphans
    /\ hushed' = IF At(p, "relock") THEN hushed \union {proc[p].on} ELSE hushed
    /\ UNCHANGED <<debouncer, bounds, started, nested, reported>>

Awaited(p) == IF proc[p].pc \in {"wait", "stop"} /\ ~Ended(proc[p].on) THEN {proc[p].on} ELSE {}

\* p, the task it waits for, the task that one waits for, and so on.
Chain(p) ==
    { q \in Procs : \A S \in SUBSET Procs :
        p \in S /\ (\A r \in S : Awaited(r) \subseteq S) => q \in S }

\* Who is to be cancelled when p is: awaiting a task passes the request on to it,
\* gather does so and remembers it.
Requested(p) == { q \in Chain(p) : At(q, "wait") => Awaited(q) = {} }

\* An application task in a call is cancelled.
Interrupt(p) ==
    /\ cancels < MaxCancels
    /\ ~At(p, "idle")
    /\ cancels' = cancels + 1
    /\ cancel' = cancel \union Requested(p)
    /\ UNCHANGED <<proc, task, pending, failure, foreground, queue, calls, history>>

-----------------------------------------------------------------------------
\* The delay of task k is over, and it asks for the lock.
Wake(k) ==
    /\ At(k, "sleep")
    /\ Ready(k)
    /\ proc' = [proc EXCEPT ![k] = Proc("take")]
    /\ queue' = Append(queue, k)
    /\ UNCHANGED <<debouncer, cancel, bounds, history>>

\* Mutant: the call stays pending.
MutClear == UNCHANGED pending

Clear == pending' = 0

Started(c) == started' = [started EXCEPT ![c] = @ + 1]

\* It takes the pending call and starts the callback.
Take(k) ==
    /\ At(k, "take")
    /\ HasLock(k)
    /\ k \notin cancel
    /\ Leave(k)
    /\ Clear
    /\ IF pending = 0
       THEN /\ proc' = [proc EXCEPT ![k].pc = "done", ![k].end = "ok"]
            /\ UNCHANGED started
       ELSE /\ proc' = [proc EXCEPT ![k] = Proc("func")]
            /\ Started(pending)
    /\ UNCHANGED <<task, failure, foreground, cancel, bounds,
                   nested, orphans, reported, hushed>>

\* The task of a flush starts the callback.
Start(k) ==
    /\ At(k, "start")
    /\ Ready(k)
    /\ proc' = [proc EXCEPT ![k] = Proc("func")]
    /\ Started(proc[k].got)
    /\ UNCHANGED <<debouncer, queue, cancel, bounds,
                   nested, orphans, reported, hushed>>

CallbackEnds(k) ==
    /\ At(k, "func")
    /\ k \notin cancel
    /\ \E end \in {"ok", "raised"} : proc' = [proc EXCEPT ![k].pc = "done", ![k].end = end]
    /\ UNCHANGED <<debouncer, queue, cancel, bounds, history>>

\* The done callback, which runs before whoever awaits the task.
TaskFinished(k) ==
    /\ At(k, "done")
    /\ proc' = [proc EXCEPT ![k] = [Proc("over") EXCEPT !.end = proc[k].end]]
    /\ Forget(k)
    /\ failure' = IF proc[k].end = "raised" /\ k \notin foreground THEN k ELSE failure
    /\ UNCHANGED <<pending, foreground, queue, cancel, bounds, history>>

Step(p) ==
    \/ Locked(p) \/ GatherEnds(p) \/ SleepEnds(p) \/ Woken(p) \/ Relocked(p) \/ Cancelled(p)
    \/ p \in Calls /\ (Wake(p) \/ Take(p) \/ Start(p) \/ TaskFinished(p))

Next ==
    \/ \E p \in Procs : (\E op \in Ops : Call(p, op)) \/ Step(p)
    \/ \E p \in Apps : Interrupt(p)
    \/ \E k \in Calls : CallbackEnds(k)

Spec == Init /\ [][Next]_vars

\* The event loop runs every task that can go on, and callbacks end.
FairSpec ==
    /\ Spec
    /\ \A p \in Procs : WF_vars(Step(p))
    /\ \A k \in Calls : WF_vars(CallbackEnds(k))

-----------------------------------------------------------------------------
InCallback(k) == proc[k].pc \in {"func", "lock", "stop", "zero", "wait", "relock"}

Steps == {"idle", "none", "lock", "stop", "zero", "wait", "relock",
          "sleep", "take", "start", "func", "done", "over"}

TypeOK ==
    /\ proc \in [Procs -> [pc : Steps, op : Ops \union {"none"},
                          id : 0..MaxCalls, on : 0..MaxCalls, got : 0..MaxCalls,
                          end : {"none", "ok", "raised", "cancelled"},
                          cleanup : BOOLEAN, after : SUBSET Calls]]
    /\ task \in 0..MaxCalls /\ pending \in 0..MaxCalls /\ failure \in 0..MaxCalls
    /\ foreground \subseteq Calls
    /\ queue \in Seq(Procs)
    /\ cancel \subseteq Procs
    /\ calls \in 0..MaxCalls /\ cancels \in 0..MaxCancels
    /\ started \in [Calls -> Nat]
    /\ nested \subseteq Calls /\ orphans \subseteq Calls
    /\ reported \subseteq Calls /\ hushed \subseteq Calls

\* The callback is started at most once for a call, by its task or by flush.
DeliveredOnce == \A c \in Calls : started[c] <= 1

\* Callbacks do not overlap, unless one of them called its own debouncer.
OneAtATime ==
    \A j, k \in Calls : InCallback(j) /\ InCallback(k) /\ j # k => j \in nested \/ k \in nested

\* While nobody is replacing it, a pending call has a task that will deliver it, unless
\* the call that stopped its task was itself cancelled or refused.
NothingStranded ==
    pending \notin orphans \union {0} =>
        \/ task = pending /\ proc[task].pc \in {"sleep", "take"}
        \/ \E p \in Procs : proc[p].pc \in {"stop", "zero"}

\* A callback that raises is heard of: its exception is kept for the next call or was
\* raised by one, unless its flush was cancelled meanwhile or callbacks overlapped.
FailuresHeard ==
    \A k \in Calls : Over(k) /\ proc[k].end = "raised" =>
        \/ k \in reported \union hushed \union {failure}
        \/ \E p \in Procs : proc[p].pc \in {"wait", "relock"} /\ proc[p].on = k
        \/ nested # {}

\* When cancel() ends undisturbed, no call is pending and no callback goes on, except
\* one that called the debouncer.
CancelQuiets ==
    [][\A p \in Procs :
        /\ proc[p].op = "cancel" /\ p \notin cancel
        /\ proc'[p].op = "none"
        => /\ pending' = 0
           /\ \A k \in Calls : proc'[k].pc \in {"none", "done", "over"} \/ k \in nested]_vars

\* A callback that calls the debouncer while it handles its own cancellation waits for
\* the lock of the call that waits for it.
Tangled == \E k \in Calls : proc[k].cleanup /\ proc[k].pc \in {"lock", "relock"}

\* Every call returns, in spite of waiting for tasks with the lock held: when the calls
\* that MaxCalls allows were made, a time comes when no task is in one.
CallsEnd == <>[](Tangled \/ \A p \in Procs : proc[p].op = "none")
=============================================================================
