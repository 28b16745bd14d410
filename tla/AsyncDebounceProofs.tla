------------------------- MODULE AsyncDebounceProofs -------------------------
(***************************************************************************)
(* Invariants of the asyncio debouncer, proved for every number of tasks,  *)
(* calls and cancellations.                                                *)
(***************************************************************************)
EXTENDS AsyncDebounce, Extremes, SequenceTheorems, TLAPS

-----------------------------------------------------------------------------
(* The inductive invariant.                                                *)

InCall == {"lock", "stop", "zero", "wait", "relock"}
Entered(p) == proc[p].pc \in {"lock", "stop", "zero"}
Asleep(k) == proc[k].pc \in {"sleep", "take"}
Alive(k) == proc[k].pc \notin {"none", "done", "over"}
Present(k) == proc[k].pc \notin {"none", "over"}
Stopping(k) == \E p \in Procs : At(p, "stop") /\ proc[p].on = k

\* What the step of a task says of its call; a callback in a call is in nested.
WellFormed(p) ==
    /\ proc[p].op # "none" <=> proc[p].pc \in InCall
    /\ proc[p].pc \in {"stop", "wait", "relock"} => proc[p].on # 0
    /\ proc[p].pc \in {"wait", "relock"} => proc[p].op = "flush"
    /\ p \in Calls /\ proc[p].pc \in InCall => p \in nested
    /\ p \in nested => proc[p].pc \notin {"none", "sleep", "take", "start"}

Formed == \A p \in Procs : WellFormed(p)

\* Whoever stops a task holds the lock, and there is no other task.
LockHeld ==
    \A p \in Procs : proc[p].pc \in {"stop", "zero"} =>
        HasLock(p) /\ task = 0 /\ (proc[p].op # "wrapper" => pending = 0)

\* A call under way has a number of its own, whose task does not exist yet.
Numbered ==
    /\ \A p \in Procs : Entered(p) => proc[p].id \in 1..calls /\ At(proc[p].id, "none")
    /\ \A p, q \in Procs : Entered(p) /\ Entered(q) /\ proc[p].id = proc[q].id => p = q
    /\ \A c \in Calls : c > calls => At(c, "none") /\ started[c] = 0

\* p has call c in hand: it will make it pending or deliver it.
Holds(p, c) ==
    \/ Entered(p) /\ proc[p].op = "wrapper" /\ proc[p].id = c
    \/ proc[p].pc \in {"stop", "zero"} /\ proc[p].op = "flush" /\ proc[p].got = c
    \/ At(p, "start") /\ proc[p].got = c

Undelivered(c) == c \in 1..calls /\ started[c] = 0

\* A call is in one place until it is delivered.
InHand ==
    /\ pending # 0 => Undelivered(pending)
    /\ \A p \in Procs, c \in 0..MaxCalls : Holds(p, c) => Undelivered(c) /\ c # pending
    /\ \A p, q \in Procs, c \in Calls : Holds(p, c) /\ Holds(q, c) => p = q

\* A task that goes on is the debouncer's, is being stopped, or called the debouncer.
Accounted ==
    /\ \A k \in Calls : Alive(k) => k = task \/ k \in nested \/ Stopping(k)
    /\ task # 0 => ~At(task, "none")

\* A task that has yet to take its call will find it, and is not cancelled but by a
\* call that replaces it; nobody awaits it, and nobody waits for a task to come.
Sleepers ==
    /\ task # 0 /\ Asleep(task) => pending = task
    /\ \A k \in Calls : k \in cancel => ~At(k, "none") /\ (Asleep(k) => Stopping(k))
    /\ \A p \in Procs : At(p, "wait") => ~Asleep(proc[p].on)
    /\ \A p \in Procs : proc[p].pc \in {"wait", "stop"} => ~At(proc[p].on, "none")

Failed(k) == Ended(k) /\ proc[k].end = "raised"
Quit(k) == At(k, "done") /\ proc[k].end = "cancelled"

Heard(k) ==
    \/ k \in reported \union hushed
    \/ \E p \in Procs : proc[p].pc \in {"wait", "relock"} /\ proc[p].on = k

\* A foreground task is awaited; whoever awaited a task passes on how it ended.
Foreground ==
    /\ \A k \in foreground : \E p \in Procs : At(p, "wait") /\ proc[p].on = k
    /\ \A p \in Procs : At(p, "relock") =>
        Ended(proc[p].on) /\ (proc[p].end = proc[proc[p].on].end \/ proc[p].on \in hushed)

\* j was created when k had ended, and does not go on before k's done callback ran.
Behind(j, k) ==
    At(k, "done") /\ k \in proc[j].after /\ (proc[j].pc \in {"sleep", "start"} \/ Quit(j))

\* No failure is lost to another: while one is kept that nobody heard of, the tasks
\* there are will not leave another.
Failures ==
    /\ failure # 0 => At(failure, "over") /\ Failed(failure)
    /\ \A k \in Calls : At(k, "done") /\ Failed(k) =>
        k = task \/ k \in nested \/ Stopping(k) \/ Heard(k)
    /\ nested = {} => \A j, k \in Calls :
        Present(j) /\ Present(k) /\ j # k => Behind(j, k) \/ Behind(k, j)
    /\ nested = {} /\ failure # 0 /\ ~Heard(failure) =>
        \A k \in Calls : Present(k) => k \in foreground \/ Quit(k)

Inv ==
    /\ TypeOK
    /\ Formed /\ LockHeld /\ Numbered /\ InHand /\ DeliveredOnce
    /\ Accounted /\ Sleepers /\ NothingStranded
    /\ Foreground /\ Failures /\ FailuresHeard

-----------------------------------------------------------------------------
(* The lock's queue.                                                       *)

\* Who leaves the queue does not disturb the holder.
LEMMA LeaveKeepsHead ==
    ASSUME NEW S, NEW s \in Seq(S), NEW e
    PROVE  /\ RemoveFirst(s, e) \in Seq(S)
           /\ s # <<>> /\ Head(s) # e => RemoveFirst(s, e) # <<>> /\ Head(RemoveFirst(s, e)) = Head(s)
<1>1. CASE ~\E i \in 1..Len(s) : s[i] = e
  BY <1>1 DEF RemoveFirst
<1>2. CASE \E i \in 1..Len(s) : s[i] = e
  <2> DEFINE I == { i \in 1..Len(s) : s[i] = e }
             n == Min(I)
  <2>1. Len(s) \in Nat /\ I \subseteq Nat /\ I # {}
    BY <1>2, LenProperties
  <2>2. n \in I
    <3> HIDE DEF I
    <3>1. \E i \in I : \A j \in I : i <= j
      BY <2>1, Minimum
    <3> QED
      BY <3>1 DEF Min
  <2>3. n \in 1..Len(s) /\ s[n] = e
    <3> HIDE DEF n
    <3> QED
      BY <2>2
  <2>4. RemoveFirst(s, e) = SubSeq(s, 1, n - 1) \o SubSeq(s, n + 1, Len(s))
    BY <1>2, <2>1 DEF RemoveFirst, RemoveAt, SelectInSeq
  <2> HIDE DEF n, I
  <2> DEFINE a == SubSeq(s, 1, n - 1)
             b == SubSeq(s, n + 1, Len(s))
  <2>5. \A i \in 1..Len(s) : s[i] \in S
    BY ElementOfSeq
  <2>6. a \in Seq(S) /\ Len(a) = n - 1 /\ \A i \in 1..(n - 1) : a[i] = s[i]
    <3>1. 1 \in Int /\ n - 1 \in Int /\ \A i \in 1..(n - 1) : s[i] \in S
      BY <2>1, <2>3, <2>5
    <3>2. /\ a \in Seq(S)
          /\ Len(a) = IF 1 <= n - 1 THEN (n - 1) - 1 + 1 ELSE 0
          /\ \A i \in 1..((n - 1) - 1 + 1) : a[i] = s[1 + i - 1]
      BY <3>1, SubSeqProperties
    <3> HIDE DEF a
    <3> QED
      BY <2>1, <2>3, <3>2
  <2>7. b \in Seq(S)
    <3>1. n + 1 \in Int /\ Len(s) \in Int /\ \A i \in (n + 1)..Len(s) : s[i] \in S
      BY <2>1, <2>3, <2>5
    <3> QED
      BY <3>1, SubSeqProperties
  <2> HIDE DEF a, b
  <2>8. a \o b \in Seq(S)
    BY <2>6, <2>7, ConcatProperties
  <2>9. ASSUME s # <<>>, Head(s) # e PROVE a \o b # <<>> /\ Head(a \o b) = Head(s)
    <3>1. Head(s) = s[1]
      BY <2>9
    <3>2. n # 1
      BY <2>3, <2>9, <3>1
    <3>3. Len(a \o b) = Len(a) + Len(b) /\ (a \o b)[1] = a[1]
      <4>1. /\ Len(a \o b) = Len(a) + Len(b)
            /\ \A i \in 1..Len(a) + Len(b) :
                  (a \o b)[i] = IF i <= Len(a) THEN a[i] ELSE b[i - Len(a)]
        BY <2>6, <2>7, ConcatProperties
      <4>2. Len(b) \in Nat /\ Len(a) \in Nat /\ 1 <= Len(a)
        BY <2>1, <2>3, <2>6, <2>7, <3>2, LenProperties
      <4>3. 1 \in 1..Len(a) + Len(b)
        BY <4>2
      <4> QED
        BY <4>1, <4>2, <4>3
    <3>4. Len(b) \in Nat /\ Len(a) \in Nat \ {0}
      BY <2>1, <2>3, <2>6, <2>7, <3>2, LenProperties
    <3>5. a \o b # <<>>
      BY <3>3, <3>4, EmptySeq
    <3>6. Head(a \o b) = (a \o b)[1]
      BY <2>8, <3>5
    <3> QED
      BY <2>1, <2>3, <2>6, <3>1, <3>2, <3>3, <3>5, <3>6
  <2> QED
    BY <2>4, <2>8, <2>9 DEF a, b
<1> QED
  BY <1>1, <1>2

-----------------------------------------------------------------------------
(* Steps of one task.                                                      *)

ProcType == [pc : Steps, op : Ops \union {"none"},
             id : 0..MaxCalls, on : 0..MaxCalls, got : 0..MaxCalls,
             end : {"none", "ok", "raised", "cancelled"},
             cleanup : BOOLEAN, after : SUBSET Calls]

LEMMA Fields ==
    ASSUME TypeOK, NEW p \in Procs
    PROVE  /\ proc[p] \in ProcType
           /\ proc[p].pc \in Steps /\ proc[p].op \in Ops \union {"none"}
           /\ proc[p].id \in 0..MaxCalls /\ proc[p].on \in 0..MaxCalls /\ proc[p].got \in 0..MaxCalls
           /\ proc[p].end \in {"none", "ok", "raised", "cancelled"}
           /\ proc[p].cleanup \in BOOLEAN /\ proc[p].after \subseteq Calls
  BY DEF TypeOK, ProcType

\* Only task p steps, or p and the new task n.
Only(p) == \A q \in Procs : q # p => proc'[q] = proc[q]
Both(p, n) == \A q \in Procs : q # p /\ q # n => proc'[q] = proc[q]

LEMMA OneBecomes ==
    ASSUME TypeOK, NEW p \in Procs, NEW r \in ProcType, proc' = [proc EXCEPT ![p] = r]
    PROVE  proc' \in [Procs -> ProcType] /\ proc'[p] = r /\ Only(p)
<1>1. proc \in [Procs -> ProcType]
  BY DEF TypeOK, ProcType
<1> QED
  BY <1>1 DEF Only

LEMMA TwoBecome ==
    ASSUME TypeOK, NEW p \in Procs, NEW r \in ProcType, NEW n \in Procs, NEW m \in ProcType, n # p,
           proc' = [[proc EXCEPT ![p] = r] EXCEPT ![n] = m]
    PROVE  proc' \in [Procs -> ProcType] /\ proc'[p] = r /\ proc'[n] = m /\ Both(p, n)
<1>1. proc \in [Procs -> ProcType]
  BY DEF TypeOK, ProcType
<1> QED
  BY <1>1 DEF Both

LEMMA SetCall ==
    ASSUME NEW r \in ProcType, NEW op \in Ops, NEW n \in 0..MaxCalls
    PROVE  LET w == [r EXCEPT !.pc = "lock", !.op = op, !.id = n] IN
           w \in ProcType /\ w.pc = "lock" /\ w.op = op /\ w.id = n
  BY DEF ProcType, Steps

LEMMA SetStop ==
    ASSUME NEW r \in ProcType, NEW n \in 0..MaxCalls, NEW g \in 0..MaxCalls
    PROVE  LET w == [r EXCEPT !.pc = "stop", !.on = n, !.got = g] IN
           /\ w \in ProcType /\ w.pc = "stop" /\ w.on = n /\ w.got = g
           /\ w.op = r.op /\ w.id = r.id
  BY DEF ProcType, Steps

LEMMA SetWait ==
    ASSUME NEW r \in ProcType, NEW n \in 0..MaxCalls
    PROVE  LET w == [r EXCEPT !.pc = "wait", !.on = n] IN
           w \in ProcType /\ w.pc = "wait" /\ w.on = n /\ w.op = r.op
  BY DEF ProcType, Steps

LEMMA SetJoined ==
    ASSUME NEW r \in ProcType, NEW n \in 0..MaxCalls, NEW e \in {"none", "ok", "raised", "cancelled"}
    PROVE  LET w == [r EXCEPT !.pc = "relock", !.on = n, !.end = e] IN
           w \in ProcType /\ w.pc = "relock" /\ w.on = n /\ w.end = e /\ w.op = r.op
  BY DEF ProcType, Steps

LEMMA SetEnd ==
    ASSUME NEW r \in ProcType, NEW pc \in Steps, NEW e \in {"none", "ok", "raised", "cancelled"}
    PROVE  LET w == [r EXCEPT !.pc = pc, !.end = e] IN
           /\ w \in ProcType /\ w.pc = pc /\ w.end = e
           /\ w.op = r.op /\ w.on = r.on /\ w.after = r.after
  BY DEF ProcType

LEMMA SetPc ==
    ASSUME NEW r \in ProcType, NEW pc \in Steps
    PROVE  LET w == [r EXCEPT !.pc = pc] IN
           /\ w \in ProcType /\ w.pc = pc
           /\ w.op = r.op /\ w.id = r.id /\ w.got = r.got /\ w.on = r.on
  BY DEF ProcType

LEMMA NewRec ==
    ASSUME NEW pc \in Steps, NEW b \in BOOLEAN
    PROVE  /\ Proc(pc) \in ProcType /\ Proc(pc).pc = pc /\ Proc(pc).op = "none"
           /\ LET w == [Proc(pc) EXCEPT !.cleanup = b] IN
              w \in ProcType /\ w.pc = pc /\ w.op = "none"
<1>1. Proc(pc) \in ProcType /\ Proc(pc).pc = pc /\ Proc(pc).op = "none"
  BY AsyncAssumption DEF ProcType, Proc
<1>2. \A r \in ProcType :
        LET w == [r EXCEPT !.cleanup = b] IN w \in ProcType /\ w.pc = r.pc /\ w.op = r.op
  BY DEF ProcType
<1> QED
  BY <1>1, <1>2

Sleeper(A) == [Proc("sleep") EXCEPT !.after = A]
Starter(A, g) == [[Proc("start") EXCEPT !.after = A] EXCEPT !.got = g]

LEMMA TaskRec ==
    ASSUME NEW A \in SUBSET Calls, NEW g \in 0..MaxCalls
    PROVE  /\ Sleeper(A) \in ProcType /\ Sleeper(A).pc = "sleep" /\ Sleeper(A).op = "none"
           /\ Sleeper(A).after = A
           /\ Starter(A, g) \in ProcType /\ Starter(A, g).pc = "start" /\ Starter(A, g).op = "none"
           /\ Starter(A, g).after = A /\ Starter(A, g).got = g
<1>1. \A pc \in Steps : Proc(pc) \in ProcType /\ Proc(pc).pc = pc /\ Proc(pc).op = "none"
  BY AsyncAssumption DEF ProcType, Proc
<1>2. \A r \in ProcType :
        /\ LET w == [r EXCEPT !.after = A] IN
           w \in ProcType /\ w.pc = r.pc /\ w.op = r.op /\ w.after = A
        /\ LET w == [r EXCEPT !.got = g] IN
           w \in ProcType /\ w.pc = r.pc /\ w.op = r.op /\ w.got = g /\ w.after = r.after
  BY DEF ProcType
<1>3. "sleep" \in Steps /\ "start" \in Steps
  BY DEF Steps
<1>4. /\ Sleeper(A) \in ProcType /\ Sleeper(A).pc = "sleep" /\ Sleeper(A).op = "none"
      /\ Sleeper(A).after = A
  BY <1>1, <1>2, <1>3 DEF Sleeper
<1>5. PICK r : r = [Proc("start") EXCEPT !.after = A]
  OBVIOUS
<1>6. r \in ProcType /\ r.pc = "start" /\ r.op = "none" /\ r.after = A
  BY <1>1, <1>2, <1>3, <1>5
<1>7. Starter(A, g) = [r EXCEPT !.got = g]
  BY <1>5 DEF Starter
<1>8. /\ Starter(A, g) \in ProcType /\ Starter(A, g).pc = "start" /\ Starter(A, g).op = "none"
      /\ Starter(A, g).after = A /\ Starter(A, g).got = g
  BY <1>2, <1>6, <1>7
<1> QED
  BY <1>4, <1>8

-----------------------------------------------------------------------------
(* What each action changes, without the records.                          *)

\* Nobody but p loses the lock.
Heads(p) == \A q \in Procs : q # p /\ HasLock(q) => HasLock(q)'

\* p is out of its call; or, a callback, it ended while it was cancelled.
Free(p) == proc'[p].pc = Home(p) /\ proc'[p].op = "none"
Out(p) == Free(p) \/ (p \in Calls /\ proc'[p].pc = "done" /\ proc'[p].op = "none")

EnterEffect(p) ==
    /\ At(p, Home(p)) /\ calls < MaxCalls
    /\ Only(p) /\ proc'[p].pc = "lock" /\ proc'[p].op \in Ops /\ proc'[p].id = calls + 1
    /\ calls' = calls + 1
    /\ nested' = nested \union ({p} \intersect Calls)
    /\ UNCHANGED <<task, pending, failure, foreground, cancel, started, orphans, reported, hushed>>

RefuseEffect(p) ==
    /\ At(p, "lock") /\ failure # 0 /\ proc[p].op # "cancel"
    /\ Only(p) /\ Free(p)
    /\ failure' = 0 /\ reported' = reported \union {failure}
    /\ UNCHANGED <<task, pending, foreground, cancel, calls, started, nested, orphans, hushed>>

PassEffect(p) ==
    /\ At(p, "lock") /\ proc[p].op = "flush" /\ Only(p) /\ Free(p)
    /\ UNCHANGED <<task, pending, failure, foreground, cancel, calls, started, nested,
                   orphans, reported, hushed>>

JoinEffect(p) ==
    /\ At(p, "lock") /\ HasLock(p) /\ proc[p].op = "flush"
    /\ pending = 0 /\ failure = 0 /\ task # 0 /\ task # p
    /\ Only(p) /\ proc'[p].op = "flush" /\ proc'[p].on = task
    /\ \/ /\ Ended(task) /\ proc'[p].pc = "relock" /\ proc'[p].end = proc[task].end
          /\ foreground' = foreground \ {task}
       \/ /\ ~Ended(task) /\ proc'[p].pc = "wait"
          /\ foreground' = foreground \union {task}
    /\ UNCHANGED <<task, pending, failure, cancel, calls, started, nested, orphans, reported, hushed>>

StopEffect(p) ==
    /\ At(p, "lock") /\ HasLock(p) /\ HasLock(p)' /\ task # 0 /\ task # p
    /\ failure = 0 \/ proc[p].op = "cancel"
    /\ proc[p].op = "flush" => pending # 0
    /\ Only(p) /\ proc'[p].pc = "stop" /\ proc'[p].on = task
    /\ proc'[p].op = proc[p].op /\ proc'[p].id = proc[p].id
    /\ proc[p].op = "flush" => proc'[p].got = pending
    /\ task' = 0 /\ pending' = IF proc[p].op = "wrapper" THEN pending ELSE 0
    /\ \A q \in cancel' : q \in cancel \/ q = task
    /\ UNCHANGED <<failure, foreground, calls, started, nested, orphans, reported, hushed>>

\* The previous task is out of the way, or the call is its own.
Acting(p) ==
    /\ HasLock(p) /\ proc[p].pc \in {"lock", "zero"} /\ task \in {0, p}
    /\ At(p, "lock") => /\ failure = 0 \/ proc[p].op = "cancel"
                        /\ proc[p].op = "flush" => pending # 0

FailEffect(p) ==
    /\ Acting(p) /\ failure # 0 /\ proc[p].op # "flush"
    /\ Only(p) /\ Free(p)
    /\ failure' = 0 /\ reported' = reported \union {failure} /\ task' = 0
    /\ pending' = IF proc[p].op = "cancel" THEN 0 ELSE pending
    /\ orphans' = IF proc[p].op = "wrapper" THEN orphans \union ({pending} \ {0}) ELSE orphans
    /\ \A q \in cancel' : q \in cancel \/ q = p
    /\ UNCHANGED <<foreground, calls, started, nested, hushed>>

ReplaceEffect(p, n) ==
    /\ Acting(p) /\ failure = 0 /\ proc[p].op = "wrapper" /\ proc[p].id = n
    /\ n \in Calls /\ n # p /\ At(n, "none")
    /\ Both(p, n) /\ Free(p) /\ proc'[n].pc = "sleep" /\ proc'[n].op = "none"
    /\ proc'[n].after = { k \in Calls : At(k, "done") }
    /\ task' = n /\ pending' = n
    /\ UNCHANGED <<failure, foreground, cancel, calls, started, nested, orphans, reported, hushed>>

ClearEffect(p) ==
    /\ Acting(p) /\ failure = 0 /\ proc[p].op = "cancel"
    /\ Only(p) /\ Free(p)
    /\ task' = 0 /\ pending' = 0
    /\ \A q \in cancel' : q \in cancel \/ q = p
    /\ UNCHANGED <<failure, foreground, calls, started, nested, orphans, reported, hushed>>

FlushEffect(p, n) ==
    /\ Acting(p) /\ proc[p].op = "flush" /\ proc[p].id = n
    /\ n \in Calls /\ n # p /\ At(n, "none")
    /\ Both(p, n)
    /\ proc'[p].pc = "wait" /\ proc'[p].op = "flush" /\ proc'[p].on = n
    /\ proc'[n].pc = "start" /\ proc'[n].op = "none"
    /\ proc'[n].after = { k \in Calls : At(k, "done") }
    /\ proc'[n].got = IF At(p, "lock") THEN pending ELSE proc[p].got
    /\ task' = n /\ pending' = 0 /\ foreground' = foreground \union {n}
    /\ UNCHANGED <<failure, cancel, calls, started, nested, orphans, reported, hushed>>

GatherEffect(p) ==
    /\ At(p, "stop") /\ At(proc[p].on, "over") /\ HasLock(p)'
    /\ Only(p) /\ proc'[p].pc = "zero" /\ proc'[p].op = proc[p].op
    /\ proc'[p].id = proc[p].id /\ proc'[p].got = proc[p].got
    /\ UNCHANGED <<task, pending, failure, foreground, cancel, calls, started, nested,
                   orphans, reported, hushed>>

WokenEffect(p) ==
    /\ At(p, "wait") /\ At(proc[p].on, "over")
    /\ Only(p) /\ proc'[p].pc = "relock" /\ proc'[p].op = proc[p].op /\ proc'[p].on = proc[p].on
    /\ foreground' = foreground \ {proc[p].on}
    /\ \/ proc'[p].end = proc[proc[p].on].end /\ hushed' = hushed
       \/ hushed' = hushed \union {proc[p].on}
    /\ cancel' \subseteq cancel
    /\ UNCHANGED <<task, pending, failure, calls, started, nested, orphans, reported>>

RelockEffect(p) ==
    /\ At(p, "relock") /\ Only(p) /\ Out(p)
    /\ task' = IF task = proc[p].on THEN 0 ELSE task
    /\ reported' = IF proc[p].end = "raised" THEN reported \union {proc[p].on} ELSE reported
    /\ UNCHANGED <<pending, failure, foreground, cancel, calls, started, nested, orphans, hushed>>

ThrowEffect(p) ==
    /\ p \in cancel
    /\ proc[p].pc \in {"lock", "stop", "zero", "relock", "func"}
    /\ At(p, "stop") => At(proc[p].on, "over")
    /\ Only(p) /\ Out(p)
    /\ orphans' = IF proc[p].op = "wrapper" /\ proc[p].pc \in {"stop", "zero"}
                  THEN orphans \union ({pending} \ {0}) ELSE orphans
    /\ hushed' = IF At(p, "relock") THEN hushed \union {proc[p].on} ELSE hushed
    /\ cancel' \subseteq cancel
    /\ UNCHANGED <<task, pending, failure, foreground, calls, started, nested, reported>>

QuitEffect(p) ==
    /\ p \in cancel
    /\ proc[p].pc \in {"sleep", "start", "take"}
    /\ Only(p) /\ proc'[p].pc = "done" /\ proc'[p].end = "cancelled"
    /\ proc'[p].op = proc[p].op /\ proc'[p].after = proc[p].after
    /\ cancel' \subseteq cancel
    /\ UNCHANGED <<task, pending, failure, foreground, calls, started, nested,
                   orphans, reported, hushed>>

InterruptEffect(p) ==
    /\ p \in Apps /\ proc' = proc /\ (HasLock(p) => HasLock(p)')
    /\ \A q \in cancel' : \/ q \in cancel \/ q = p
                          \/ \E r \in Procs : proc[r].pc \in {"wait", "stop"} /\ proc[r].on = q
    /\ UNCHANGED <<task, pending, failure, foreground, calls, started, nested,
                   orphans, reported, hushed>>

WakeEffect(k) ==
    /\ k \in Calls /\ At(k, "sleep") /\ \A j \in proc[k].after : At(j, "over")
    /\ Only(k) /\ proc'[k].pc = "take" /\ proc'[k].op = "none"
    /\ UNCHANGED <<task, pending, failure, foreground, cancel, calls, started, nested,
                   orphans, reported, hushed>>

TakeEffect(k) ==
    /\ k \in Calls /\ At(k, "take") /\ HasLock(k)
    /\ Only(k) /\ proc'[k].op = "none" /\ pending' = 0
    /\ \/ /\ pending = 0 /\ proc'[k].pc = "done" /\ proc'[k].end = "ok"
          /\ started' = started
       \/ /\ pending # 0 /\ proc'[k].pc = "func"
          /\ started' = [started EXCEPT ![pending] = @ + 1]
    /\ UNCHANGED <<task, failure, foreground, cancel, calls, nested, orphans, reported, hushed>>

StartEffect(k) ==
    /\ k \in Calls /\ At(k, "start") /\ \A j \in proc[k].after : At(j, "over")
    /\ Only(k) /\ proc'[k].pc = "func" /\ proc'[k].op = "none"
    /\ started' = [started EXCEPT ![proc[k].got] = @ + 1]
    /\ UNCHANGED <<task, pending, failure, foreground, cancel, calls, nested,
                   orphans, reported, hushed>>

EndEffect(k) ==
    /\ k \in Calls /\ At(k, "func")
    /\ Only(k) /\ proc'[k].pc = "done" /\ proc'[k].op = proc[k].op
    /\ UNCHANGED <<task, pending, failure, foreground, cancel, calls, started, nested,
                   orphans, reported, hushed>>

FinishEffect(k) ==
    /\ k \in Calls /\ At(k, "done")
    /\ Only(k) /\ proc'[k].pc = "over" /\ proc'[k].end = proc[k].end /\ proc'[k].op = "none"
    /\ task' = IF task = k THEN 0 ELSE task
    /\ failure' = IF proc[k].end = "raised" /\ k \notin foreground THEN k ELSE failure
    /\ UNCHANGED <<pending, foreground, cancel, calls, started, nested, orphans, reported, hushed>>

\* Steps within a call, and those of the debouncer's tasks.
CallEffect(p) ==
    \/ EnterEffect(p) \/ RefuseEffect(p) \/ PassEffect(p) \/ JoinEffect(p) \/ StopEffect(p)
    \/ FailEffect(p) \/ ClearEffect(p)
    \/ \E n \in Calls : ReplaceEffect(p, n) \/ FlushEffect(p, n)
    \/ GatherEffect(p) \/ WokenEffect(p) \/ RelockEffect(p) \/ ThrowEffect(p)

TaskEffect(p) ==
    \/ QuitEffect(p) \/ InterruptEffect(p) \/ WakeEffect(p) \/ TakeEffect(p) \/ StartEffect(p)
    \/ EndEffect(p) \/ FinishEffect(p)

Effect(p) == Heads(p) /\ (CallEffect(p) \/ TaskEffect(p))

-----------------------------------------------------------------------------
(* The actions have these effects, and keep the types.                     *)

\* The rest of TypeOK.
OtherTypes ==
    /\ task \in 0..MaxCalls /\ pending \in 0..MaxCalls /\ failure \in 0..MaxCalls
    /\ foreground \subseteq Calls
    /\ cancel \subseteq Procs
    /\ calls \in 0..MaxCalls /\ cancels \in 0..MaxCancels
    /\ started \in [Calls -> Nat]
    /\ nested \subseteq Calls /\ orphans \subseteq Calls
    /\ reported \subseteq Calls /\ hushed \subseteq Calls

LEMMA Types == TypeOK <=> OtherTypes /\ proc \in [Procs -> ProcType] /\ queue \in Seq(Procs)
  BY DEF TypeOK, OtherTypes, ProcType

LEMMA TypesNext ==
    ASSUME OtherTypes', proc' \in [Procs -> ProcType], queue' \in Seq(Procs)
    PROVE  TypeOK'
  BY DEF TypeOK, OtherTypes, ProcType

LEMMA Sets == /\ MaxCalls \in Nat /\ MaxCancels \in Nat
              /\ 0 \in 0..MaxCalls /\ Calls \subseteq 0..MaxCalls /\ Calls \subseteq Procs
              /\ Apps \subseteq Procs
              /\ \A p \in Apps : p \notin Calls /\ p # 0
              /\ \A n \in 0..MaxCalls : n # 0 => n \in Calls
              /\ \A p \in Procs : p \in Apps \/ p \in Calls
  BY AsyncAssumption DEF Calls, Procs, AsyncAssumption

\* Leaving the queue or joining it keeps the holder.
LEMMA LeaveHeads ==
    ASSUME TypeOK, NEW p \in Procs, Leave(p)
    PROVE  queue' \in Seq(Procs) /\ Heads(p)
<1>1. queue \in Seq(Procs)
  BY DEF TypeOK
<1>2. queue' = RemoveFirst(queue, p)
  BY DEF Leave
<1>3. queue' \in Seq(Procs)
  BY <1>1, <1>2, LeaveKeepsHead
<1>4. ASSUME NEW q \in Procs, q # p, queue # <<>>, Head(queue) = q
      PROVE  queue' # <<>> /\ Head(queue') = q
  BY <1>1, <1>2, <1>4, LeaveKeepsHead
<1> QED
  BY <1>3, <1>4 DEF Heads, HasLock

LEMMA JoinHeads ==
    ASSUME TypeOK, NEW p \in Procs, queue' = Append(queue, p)
    PROVE  queue' \in Seq(Procs) /\ Heads(p)
<1>1. queue \in Seq(Procs)
  BY DEF TypeOK
<1>2. queue' \in Seq(Procs)
  BY <1>1
<1>3. ASSUME NEW q \in Procs, q # p, queue # <<>>, Head(queue) = q
      PROVE  queue' # <<>> /\ Head(queue') = q
  <2>1. Len(queue) \in Nat /\ Len(queue) # 0
    BY <1>1, <1>3, EmptySeq
  <2>2. Len(queue') = Len(queue) + 1 /\ queue'[1] = queue[1]
    BY <1>1, <2>1
  <2>3. queue' # <<>>
    BY <2>1, <2>2
  <2> QED
    BY <1>1, <1>2, <1>3, <2>2, <2>3
<1> QED
  BY <1>2, <1>3 DEF Heads, HasLock

LEMMA SameHeads ==
    ASSUME TypeOK, NEW p \in Procs, queue' = queue
    PROVE  queue' \in Seq(Procs) /\ Heads(p) /\ (HasLock(p) => HasLock(p)')
  BY DEF TypeOK, Heads, HasLock

\* The call returns, or its callback ends or goes on with its cleanup.
LEMMA BackIsFree ==
    ASSUME TypeOK, NEW p \in Procs, proc' = Back(p)
    PROVE  proc' \in [Procs -> ProcType] /\ Only(p) /\ Free(p)
<1>1. proc[p].cleanup \in BOOLEAN /\ Home(p) \in Steps
  BY Fields DEF Home, Steps
<1> DEFINE r == [Proc(Home(p)) EXCEPT !.cleanup = proc[p].cleanup]
<1>2. r \in ProcType /\ r.pc = Home(p) /\ r.op = "none"
  BY <1>1, NewRec
<1>3. proc' = [proc EXCEPT ![p] = r]
  BY DEF Back
<1> HIDE DEF r
<1> QED
  BY <1>2, <1>3, OneBecomes DEF Free

LEMMA ThrownIsOut ==
    ASSUME TypeOK, NEW p \in Procs, Thrown(p)
    PROVE  proc' \in [Procs -> ProcType] /\ Only(p) /\ Out(p)
<1>1. proc[p].cleanup \in BOOLEAN /\ Home(p) \in Steps /\ "done" \in Steps
  BY Fields DEF Home, Steps
<1> DEFINE r == [Proc(Home(p)) EXCEPT !.cleanup = proc[p].cleanup]
<1>2. r \in ProcType /\ r.pc = Home(p) /\ r.op = "none"
  BY <1>1, NewRec
<1>3. Back(p) = [proc EXCEPT ![p] = r]
  BY DEF Back
<1>4. proc \in [Procs -> ProcType]
  BY Types
<1> HIDE DEF r
<1>5. CASE proc' = Back(p)
  BY <1>2, <1>3, <1>5, OneBecomes DEF Free, Out
<1>6. CASE p \in Calls /\ proc' = [Back(p) EXCEPT ![p].cleanup = TRUE]
  <2> DEFINE w == [r EXCEPT !.cleanup = TRUE]
  <2>1. w \in ProcType /\ w.pc = Home(p) /\ w.op = "none"
    BY <1>2 DEF ProcType
  <2>2. proc' = [proc EXCEPT ![p] = w]
    BY <1>3, <1>4, <1>6
  <2> HIDE DEF w
  <2> QED
    BY <2>1, <2>2, OneBecomes DEF Free, Out
<1>7. CASE \E end \in {"cancelled", "raised", "ok"} :
             p \in Calls /\ proc' = [Back(p) EXCEPT ![p].pc = "done", ![p].end = end]
  <2>1. PICK end \in {"cancelled", "raised", "ok"} :
              p \in Calls /\ proc' = [Back(p) EXCEPT ![p].pc = "done", ![p].end = end]
    BY <1>7
  <2> DEFINE w == [r EXCEPT !.pc = "done", !.end = end]
  <2>2. w \in ProcType /\ w.pc = "done" /\ w.op = "none"
    <3>1. end \in {"none", "ok", "raised", "cancelled"}
      OBVIOUS
    <3> QED
      BY <1>1, <1>2, <3>1, SetEnd DEF ProcType
  <2>3. proc' = [proc EXCEPT ![p] = w]
    BY <1>3, <1>4, <2>1
  <2> HIDE DEF w
  <2> QED
    BY <2>1, <2>2, <2>3, OneBecomes DEF Out
<1> QED
  BY <1>5, <1>6, <1>7 DEF Thrown

LEMMA CallHas ==
    ASSUME Inv, NEW p \in Procs, NEW op \in Ops, Call(p, op)
    PROVE  TypeOK' /\ Effect(p)
<1>1. TypeOK
  BY DEF Inv
<1>2. calls + 1 \in 0..MaxCalls /\ calls' = calls + 1
  BY <1>1, Sets, Types DEF Call, OtherTypes
<1> DEFINE r == [proc[p] EXCEPT !.pc = "lock", !.op = op, !.id = calls + 1]
<1>3. r \in ProcType /\ r.pc = "lock" /\ r.op = op /\ r.id = calls + 1
  <2>1. proc[p] \in ProcType
    BY <1>1, Fields
  <2> QED
    BY <1>2, <2>1 DEF ProcType, Steps
<1>4. proc' = [proc EXCEPT ![p] = r]
  BY <1>2 DEF Call
<1> HIDE DEF r
<1>5. proc' \in [Procs -> ProcType] /\ proc'[p] = r /\ Only(p)
  BY <1>1, <1>3, <1>4, OneBecomes
<1>6. queue' \in Seq(Procs) /\ Heads(p)
  BY <1>1, JoinHeads DEF Call
<1>7. OtherTypes'
  BY <1>1, <1>2, Types DEF Call, OtherTypes, debouncer
<1>8. EnterEffect(p)
  BY <1>2, <1>3, <1>5 DEF Call, EnterEffect, debouncer
<1> QED
  BY <1>5, <1>6, <1>7, <1>8, TypesNext DEF Effect, CallEffect

LEMMA RefuseHas ==
    ASSUME Inv, NEW p \in Procs, At(p, "lock"), failure # 0, proc[p].op # "cancel", RaiseFailure(p),
           UNCHANGED <<task, pending, orphans, cancel, bounds, started, nested, hushed>>
    PROVE  TypeOK' /\ Effect(p)
<1>1. TypeOK
  BY DEF Inv
<1>2. proc' \in [Procs -> ProcType] /\ Only(p) /\ Free(p)
  BY <1>1, BackIsFree DEF RaiseFailure
<1>3. queue' \in Seq(Procs) /\ Heads(p)
  BY <1>1, LeaveHeads DEF RaiseFailure
<1>4. OtherTypes'
  BY <1>1, Sets, Types DEF RaiseFailure, OtherTypes, bounds
<1>5. RefuseEffect(p)
  BY <1>2 DEF RaiseFailure, RefuseEffect, bounds
<1> QED
  BY <1>2, <1>3, <1>4, <1>5, TypesNext DEF Effect, CallEffect

LEMMA JoinHas ==
    ASSUME Inv, NEW p \in Procs, At(p, "lock"), HasLock(p), Join(p),
           failure = 0, proc[p].op = "flush", pending = 0,
           UNCHANGED <<cancel, bounds, started, nested, hushed>>
    PROVE  TypeOK' /\ Effect(p)
<1>1. TypeOK /\ task \in 0..MaxCalls
  BY Types DEF Inv, OtherTypes
<1>2. CASE task \in {0, p}
  <2>1. proc' = Back(p) /\ Leave(p) /\ UNCHANGED <<foreground, task, pending, failure, orphans, reported>>
    BY <1>2 DEF Join
  <2>2. proc' \in [Procs -> ProcType] /\ Only(p) /\ Free(p)
    BY <1>1, <2>1, BackIsFree
  <2>3. queue' \in Seq(Procs) /\ Heads(p)
    BY <1>1, <2>1, LeaveHeads
  <2>4. OtherTypes'
    BY <1>1, <2>1, Types DEF OtherTypes, bounds
  <2>5. PassEffect(p)
    BY <2>1, <2>2 DEF PassEffect, bounds
  <2> QED
    BY <2>2, <2>3, <2>4, <2>5, TypesNext DEF Effect, CallEffect
<1>3. CASE task \notin {0, p} /\ Ended(task)
  <2>1. /\ proc' = [proc EXCEPT ![p].pc = "relock", ![p].on = task, ![p].end = proc[task].end]
        /\ queue' = Append(Tail(queue), p)
        /\ foreground' = foreground \ {task}
        /\ UNCHANGED <<task, pending, failure, orphans, reported>>
    BY <1>3 DEF Join
  <2> DEFINE r == [proc[p] EXCEPT !.pc = "relock", !.on = task, !.end = proc[task].end]
  <2>2. r \in ProcType /\ r.pc = "relock" /\ r.on = task /\ r.end = proc[task].end /\ r.op = proc[p].op
    <3>1. proc[p] \in ProcType /\ proc[task].end \in {"none", "ok", "raised", "cancelled"}
      BY <1>1, <1>3, Fields, Sets
    <3> QED
      BY <1>1, <3>1, SetJoined DEF ProcType, Steps
  <2>3. proc' = [proc EXCEPT ![p] = r]
    BY <2>1
  <2> HIDE DEF r
  <2>4. proc' \in [Procs -> ProcType] /\ proc'[p] = r /\ Only(p)
    BY <1>1, <2>2, <2>3, OneBecomes
  <2>5. queue' \in Seq(Procs)
    <3>1. queue \in Seq(Procs) /\ queue # <<>>
      BY <1>1 DEF TypeOK, HasLock
    <3>2. Tail(queue) \in Seq(Procs)
      BY <3>1, HeadTailProperties
    <3> QED
      BY <2>1, <3>2
  <2>6. Heads(p)
    BY DEF Heads, HasLock
  <2>7. OtherTypes'
    BY <1>1, <2>1, Types DEF OtherTypes, bounds
  <2>8. JoinEffect(p)
    BY <1>3, <2>1, <2>2, <2>4 DEF JoinEffect, bounds
  <2> QED
    BY <2>4, <2>5, <2>6, <2>7, <2>8, TypesNext DEF Effect, CallEffect
<1>4. CASE task \notin {0, p} /\ ~Ended(task)
  <2>1. /\ proc' = [proc EXCEPT ![p].pc = "wait", ![p].on = task]
        /\ Leave(p)
        /\ foreground' = foreground \union {task}
        /\ UNCHANGED <<task, pending, failure, orphans, reported>>
    BY <1>4 DEF Join
  <2> DEFINE r == [proc[p] EXCEPT !.pc = "wait", !.on = task]
  <2>2. r \in ProcType /\ r.pc = "wait" /\ r.on = task /\ r.op = proc[p].op
    BY <1>1, Fields, SetWait
  <2>3. proc' = [proc EXCEPT ![p] = r]
    BY <2>1
  <2> HIDE DEF r
  <2>4. proc' \in [Procs -> ProcType] /\ proc'[p] = r /\ Only(p)
    BY <1>1, <2>2, <2>3, OneBecomes
  <2>5. queue' \in Seq(Procs) /\ Heads(p)
    BY <1>1, <2>1, LeaveHeads
  <2>6. OtherTypes'
    BY <1>1, <1>4, <2>1, Sets, Types DEF OtherTypes, bounds
  <2>7. JoinEffect(p)
    BY <1>4, <2>1, <2>2, <2>4 DEF JoinEffect, bounds
  <2> QED
    BY <2>4, <2>5, <2>6, <2>7, TypesNext DEF Effect, CallEffect
<1> QED
  BY <1>2, <1>3, <1>4

LEMMA StopHas ==
    ASSUME Inv, NEW p \in Procs, At(p, "lock"), HasLock(p), Stop(p), task \notin {0, p},
           failure = 0 \/ proc[p].op = "cancel",
           proc[p].op = "flush" => pending # 0,
           UNCHANGED <<bounds, started, nested, hushed>>
    PROVE  TypeOK' /\ Effect(p)
<1>1. TypeOK /\ task \in 0..MaxCalls /\ pending \in 0..MaxCalls /\ proc[p] \in ProcType
  BY Types, Fields DEF Inv, OtherTypes
<1>2. PICK g : g = IF proc[p].op = "flush" THEN pending ELSE proc[p].got
  OBVIOUS
<1>3. g \in 0..MaxCalls
  BY <1>1, <1>2, Fields
<1> DEFINE r == [proc[p] EXCEPT !.pc = "stop", !.on = task, !.got = g]
<1>4. r \in ProcType /\ r.pc = "stop" /\ r.on = task /\ r.got = g /\ r.op = proc[p].op /\ r.id = proc[p].id
  BY <1>1, <1>3, SetStop DEF ProcType, Steps
<1>5. proc' = [proc EXCEPT ![p] = r]
  BY <1>2 DEF Stop
<1> HIDE DEF r
<1>6. proc' \in [Procs -> ProcType] /\ proc'[p] = r /\ Only(p)
  BY <1>1, <1>4, <1>5, OneBecomes
<1>7. queue' \in Seq(Procs) /\ Heads(p) /\ HasLock(p)'
  BY <1>1, SameHeads DEF Stop
<1>8. OtherTypes'
  BY <1>1, Sets, Types DEF Stop, OtherTypes, bounds
<1>9. StopEffect(p)
  BY <1>2, <1>4, <1>6, <1>7 DEF Stop, StopEffect, bounds
<1> QED
  BY <1>6, <1>7, <1>8, <1>9, TypesNext DEF Effect, CallEffect

\* What a call that replaces the task may rely on.
LEMMA ActContext ==
    ASSUME Inv, NEW p \in Procs, proc[p].pc \in {"lock", "zero"}
    PROVE  /\ TypeOK /\ task \in 0..MaxCalls /\ pending \in 0..MaxCalls /\ failure \in 0..MaxCalls
           /\ proc[p].id \in Calls /\ proc[p].id # p /\ At(proc[p].id, "none")
           /\ proc[p].op \in Ops
           /\ proc[p].got \in 0..MaxCalls
<1>1. TypeOK /\ task \in 0..MaxCalls /\ pending \in 0..MaxCalls /\ failure \in 0..MaxCalls
      /\ calls \in 0..MaxCalls
  BY Types DEF Inv, OtherTypes
<1>2. proc[p].op \in Ops \union {"none"} /\ proc[p].got \in 0..MaxCalls
  BY <1>1, Fields
<1>3. proc[p].op # "none"
  BY DEF Inv, Formed, WellFormed, InCall
<1>4. proc[p].id \in 1..calls /\ At(proc[p].id, "none")
  BY DEF Inv, Numbered, Entered
<1>5. proc[p].id # p
  BY <1>4 DEF At
<1>6. proc[p].id \in Calls
  BY <1>1, <1>4, Sets DEF Calls
<1> QED
  BY <1>1, <1>2, <1>3, <1>4, <1>5, <1>6

LEMMA ActHas ==
    ASSUME Inv, NEW p \in Procs, Acting(p), Act(p),
           \A q \in cancel' : q \in cancel \/ q = p,
           proc[p].op # "cancel" => cancel' = cancel,
           cancel' \subseteq Procs,
           UNCHANGED <<bounds, started, nested, hushed>>
    PROVE  TypeOK' /\ Effect(p)
<1> DEFINE n == proc[p].id
           arg == IF At(p, "lock") THEN pending ELSE proc[p].got
           A == { k \in Calls : At(k, "done") }
<1>1. /\ TypeOK /\ task \in 0..MaxCalls /\ pending \in 0..MaxCalls /\ failure \in 0..MaxCalls
      /\ n \in Calls /\ n # p /\ At(n, "none") /\ proc[p].op \in Ops /\ arg \in 0..MaxCalls
      /\ n \in Procs /\ n \in 0..MaxCalls
  BY ActContext, Sets DEF Acting
<1>2. OtherTypes /\ "sleep" \in Steps /\ "start" \in Steps
  BY <1>1, Types DEF Steps
<1>3. CASE Fails(p)
  <2>1. /\ RaiseFailure(p) /\ task' = 0
        /\ pending' = IF proc[p].op = "cancel" THEN 0 ELSE pending
        /\ orphans' = IF proc[p].op = "wrapper" THEN orphans \union ({pending} \ {0}) ELSE orphans
    BY <1>3 DEF Act, Orphaned
  <2>2. proc' \in [Procs -> ProcType] /\ Only(p) /\ Free(p)
    BY <1>1, <2>1, BackIsFree DEF RaiseFailure
  <2>3. queue' \in Seq(Procs) /\ Heads(p)
    BY <1>1, <2>1, LeaveHeads DEF RaiseFailure
  <2>4. OtherTypes'
    BY <1>1, <1>2, <1>3, <2>1, Sets DEF RaiseFailure, OtherTypes, bounds, Fails
  <2>5. FailEffect(p)
    BY <1>3, <2>1, <2>2 DEF Fails, RaiseFailure, FailEffect, bounds
  <2> QED
    BY <2>2, <2>3, <2>4, <2>5, TypesNext DEF Effect, CallEffect
<1>4. CASE ~Fails(p) /\ proc[p].op = "wrapper"
  <2>1. /\ UNCHANGED <<failure, reported, orphans, foreground>> /\ Leave(p)
        /\ proc' = [Back(p) EXCEPT ![n] = New("sleep")]
        /\ task' = n /\ pending' = n /\ cancel' = cancel /\ failure = 0
    BY <1>4 DEF Act, Fails
  <2> DEFINE r == [Proc(Home(p)) EXCEPT !.cleanup = proc[p].cleanup]
             m == Sleeper(A)
  <2>2. r \in ProcType /\ r.pc = Home(p) /\ r.op = "none"
    <3>1. Home(p) \in Steps /\ proc[p].cleanup \in BOOLEAN
      BY <1>1, Fields DEF Home, Steps
    <3> QED
      BY <3>1, NewRec
  <2>3. m \in ProcType /\ m.pc = "sleep" /\ m.op = "none" /\ m.after = A
    <3>1. A \in SUBSET Calls /\ 0 \in 0..MaxCalls
      BY Sets
    <3> HIDE DEF A
    <3> QED
      BY <1>2, <3>1, TaskRec
  <2>4. proc' = [[proc EXCEPT ![p] = r] EXCEPT ![n] = m]
    BY <2>1 DEF Back, New, Sleeper
  <2> HIDE DEF r, m, n
  <2>5. proc' \in [Procs -> ProcType] /\ proc'[p] = r /\ proc'[n] = m /\ Both(p, n)
    BY <1>1, <2>2, <2>3, <2>4, TwoBecome
  <2>6. queue' \in Seq(Procs) /\ Heads(p)
    BY <1>1, <2>1, LeaveHeads
  <2>7. OtherTypes'
    BY <1>1, <1>2, <2>1 DEF OtherTypes, bounds
  <2>8. ReplaceEffect(p, n)
    BY <1>1, <1>4, <2>1, <2>2, <2>3, <2>5 DEF ReplaceEffect, Free, bounds, n
  <2> QED
    BY <1>1, <2>5, <2>6, <2>7, <2>8, TypesNext DEF Effect, CallEffect
<1>5. CASE ~Fails(p) /\ proc[p].op = "cancel"
  <2>1. /\ UNCHANGED <<failure, reported, orphans, foreground>> /\ Leave(p)
        /\ proc' = Back(p) /\ task' = 0 /\ pending' = 0 /\ failure = 0
    BY <1>5 DEF Act, Fails
  <2>2. proc' \in [Procs -> ProcType] /\ Only(p) /\ Free(p)
    BY <1>1, <2>1, BackIsFree
  <2>3. queue' \in Seq(Procs) /\ Heads(p)
    BY <1>1, <2>1, LeaveHeads
  <2>4. OtherTypes'
    BY <1>1, <1>2, <2>1, Sets DEF OtherTypes, bounds
  <2>5. ClearEffect(p)
    BY <1>5, <2>1, <2>2 DEF ClearEffect, bounds
  <2> QED
    BY <2>2, <2>3, <2>4, <2>5, TypesNext DEF Effect, CallEffect
<1>6. CASE ~Fails(p) /\ proc[p].op = "flush"
  <2>1. /\ UNCHANGED <<failure, reported, orphans>> /\ Leave(p)
        /\ proc' = [proc EXCEPT ![p].pc = "wait", ![p].on = n,
                                ![n] = [New("start") EXCEPT !.got = arg]]
        /\ task' = n /\ pending' = 0 /\ foreground' = foreground \union {n} /\ cancel' = cancel
    BY <1>6 DEF Act
  <2> DEFINE r == [proc[p] EXCEPT !.pc = "wait", !.on = n]
             m == Starter(A, arg)
  <2>2. r \in ProcType /\ r.pc = "wait" /\ r.on = n /\ r.op = proc[p].op
    BY <1>1, Fields, SetWait
  <2>3. m \in ProcType /\ m.pc = "start" /\ m.op = "none" /\ m.after = A /\ m.got = arg
    <3>1. A \in SUBSET Calls
      OBVIOUS
    <3> HIDE DEF A, arg
    <3> QED
      BY <1>1, <1>2, <3>1, TaskRec
  <2>4. proc' = [[proc EXCEPT ![p] = r] EXCEPT ![n] = m]
    <3>1. proc \in [Procs -> ProcType]
      BY <1>1, Types
    <3> HIDE DEF n
    <3> QED
      BY <1>1, <2>1, <3>1 DEF New, Starter
  <2> HIDE DEF r, m, n
  <2>5. proc' \in [Procs -> ProcType] /\ proc'[p] = r /\ proc'[n] = m /\ Both(p, n)
    BY <1>1, <2>2, <2>3, <2>4, TwoBecome
  <2>6. queue' \in Seq(Procs) /\ Heads(p)
    BY <1>1, <2>1, LeaveHeads
  <2>7. OtherTypes'
    BY <1>1, <1>2, <2>1, Sets DEF OtherTypes, bounds
  <2>8. FlushEffect(p, n)
    BY <1>1, <1>6, <2>1, <2>2, <2>3, <2>5 DEF FlushEffect, bounds, n
  <2> QED
    BY <1>1, <2>5, <2>6, <2>7, <2>8, TypesNext DEF Effect, CallEffect
<1> QED
  BY <1>1, <1>3, <1>4, <1>5, <1>6 DEF Ops

LEMMA LockedHas ==
    ASSUME Inv, NEW p \in Procs, Locked(p)
    PROVE  TypeOK' /\ Effect(p)
<1>1. /\ At(p, "lock") /\ HasLock(p) /\ UNCHANGED <<bounds, started, nested, hushed>>
  BY DEF Locked
<1>2. /\ TypeOK /\ OtherTypes /\ task \in 0..MaxCalls /\ proc[p].op \in Ops
  BY <1>1, ActContext, Types DEF At
<1>3. CASE failure # 0 /\ proc[p].op # "cancel"
  BY <1>1, <1>3, RefuseHas DEF Locked
<1>4. CASE ~(failure # 0 /\ proc[p].op # "cancel") /\ proc[p].op = "flush" /\ pending = 0
  BY <1>1, <1>4, JoinHas DEF Locked
<1>5. CASE ~(failure # 0 /\ proc[p].op # "cancel") /\ ~(proc[p].op = "flush" /\ pending = 0)
           /\ task \notin {0, p}
  BY <1>1, <1>5, StopHas DEF Locked
<1>6. CASE ~(failure # 0 /\ proc[p].op # "cancel") /\ ~(proc[p].op = "flush" /\ pending = 0)
           /\ task \in {0, p}
  <2>1. /\ Act(p)
        /\ cancel' = IF proc[p].op = "cancel" THEN cancel \union ({task} \ {0}) ELSE cancel
    BY <1>6 DEF Locked
  <2>2. Acting(p)
    BY <1>1, <1>6 DEF Acting, At
  <2>3. cancel' \subseteq Procs /\ \A q \in cancel' : q \in cancel \/ q = p
    BY <1>2, <1>6, <2>1 DEF OtherTypes
  <2> QED
    BY <1>1, <2>1, <2>2, <2>3, ActHas
<1> QED
  BY <1>3, <1>4, <1>5, <1>6

LEMMA GatherHas ==
    ASSUME Inv, NEW p \in Procs, GatherEnds(p)
    PROVE  TypeOK' /\ Effect(p)
<1>1. /\ TypeOK /\ OtherTypes /\ At(p, "stop") /\ At(proc[p].on, "over")
      /\ proc' = Goes(p, "zero")
      /\ UNCHANGED <<task, pending, failure, foreground, queue, cancel, calls, cancels, started,
                     nested, orphans, reported, hushed>>
  BY Types DEF Inv, GatherEnds, Stopped, Over, debouncer, bounds, history
<1>2. HasLock(p)
  BY <1>1 DEF Inv, LockHeld, At
<1> DEFINE r == [proc[p] EXCEPT !.pc = "zero"]
<1>3. r \in ProcType /\ r.pc = "zero" /\ r.op = proc[p].op /\ r.id = proc[p].id /\ r.got = proc[p].got
  <2>1. proc[p] \in ProcType
    BY <1>1, Fields
  <2> QED
    BY <2>1 DEF ProcType, Steps
<1>4. proc' = [proc EXCEPT ![p] = r]
  BY <1>1 DEF Goes
<1> HIDE DEF r
<1>5. proc' \in [Procs -> ProcType] /\ proc'[p] = r /\ Only(p)
  BY <1>1, <1>3, <1>4, OneBecomes
<1>6. queue' \in Seq(Procs) /\ Heads(p) /\ HasLock(p)'
  BY <1>1, <1>2, SameHeads
<1>7. OtherTypes'
  BY <1>1 DEF OtherTypes
<1>8. GatherEffect(p)
  BY <1>1, <1>3, <1>5, <1>6 DEF GatherEffect
<1> QED
  BY <1>5, <1>6, <1>7, <1>8, TypesNext DEF Effect, CallEffect

LEMMA SleepEndsHas ==
    ASSUME Inv, NEW p \in Procs, SleepEnds(p)
    PROVE  TypeOK' /\ Effect(p)
<1>1. At(p, "zero") /\ Act(p) /\ UNCHANGED <<cancel, bounds, started, nested, hushed>>
  BY DEF SleepEnds
<1>2. Acting(p)
  BY <1>1 DEF Inv, LockHeld, Acting, At
<1>3. cancel \subseteq Procs
  BY DEF Inv, TypeOK
<1> QED
  BY <1>1, <1>2, <1>3, ActHas

LEMMA WokenHas ==
    ASSUME Inv, NEW p \in Procs, Woken(p)
    PROVE  TypeOK' /\ Effect(p)
<1> DEFINE k == proc[p].on
           e == IF p \in cancel THEN "cancelled" ELSE proc[k].end
<1>1. /\ TypeOK /\ OtherTypes /\ At(p, "wait") /\ At(k, "over")
      /\ proc' = [proc EXCEPT ![p].pc = "relock", ![p].end = e]
      /\ cancel' = cancel \ {p} /\ queue' = Append(queue, p) /\ foreground' = foreground \ {k}
      /\ hushed' = IF p \in cancel THEN hushed \union {k} ELSE hushed
      /\ UNCHANGED <<task, pending, failure, calls, cancels, started, nested, orphans, reported>>
  BY Types DEF Inv, Woken, Over, bounds
<1>2. k \in Calls
  BY <1>1, Fields, Sets DEF Inv, Formed, WellFormed, At
<1> DEFINE r == [proc[p] EXCEPT !.pc = "relock", !.end = e]
<1>3. r \in ProcType /\ r.pc = "relock" /\ r.end = e /\ r.op = proc[p].op /\ r.on = k
  <2>1. proc[p] \in ProcType /\ proc[k].end \in {"none", "ok", "raised", "cancelled"}
    BY <1>1, <1>2, Fields, Sets
  <2>2. e \in {"none", "ok", "raised", "cancelled"} /\ "relock" \in Steps
    BY <2>1 DEF Steps
  <2> HIDE DEF e
  <2> QED
    BY <2>1, <2>2 DEF ProcType
<1>4. proc' = [proc EXCEPT ![p] = r]
  BY <1>1
<1> HIDE DEF r
<1>5. proc' \in [Procs -> ProcType] /\ proc'[p] = r /\ Only(p)
  BY <1>1, <1>3, <1>4, OneBecomes
<1>6. queue' \in Seq(Procs) /\ Heads(p)
  BY <1>1, JoinHeads
<1>7. OtherTypes'
  BY <1>1, <1>2 DEF OtherTypes
<1>8. WokenEffect(p)
  BY <1>1, <1>3, <1>5 DEF WokenEffect
<1> QED
  BY <1>5, <1>6, <1>7, <1>8, TypesNext DEF Effect, CallEffect

LEMMA RelockedHas ==
    ASSUME Inv, NEW p \in Procs, Relocked(p)
    PROVE  TypeOK' /\ Effect(p)
<1>1. /\ TypeOK /\ OtherTypes /\ At(p, "relock") /\ Leave(p)
      /\ task' = IF task = proc[p].on THEN 0 ELSE task
      /\ Thrown(p) \/ proc' = Back(p)
      /\ reported' = IF proc[p].end = "raised" THEN reported \union {proc[p].on} ELSE reported
      /\ UNCHANGED <<pending, failure, foreground, cancel, calls, cancels, started, nested,
                     orphans, hushed>>
  BY Types DEF Inv, Relocked, Forget, bounds
<1>2. proc[p].on \in Calls
  BY <1>1, Fields, Sets DEF Inv, Formed, WellFormed, At
<1>3. proc' \in [Procs -> ProcType] /\ Only(p) /\ Out(p)
  BY <1>1, ThrownIsOut, BackIsFree DEF Out
<1>4. queue' \in Seq(Procs) /\ Heads(p)
  BY <1>1, LeaveHeads
<1>5. OtherTypes'
  BY <1>1, <1>2, Sets DEF OtherTypes
<1>6. RelockEffect(p)
  BY <1>1, <1>3 DEF RelockEffect
<1> QED
  BY <1>3, <1>4, <1>5, <1>6, TypesNext DEF Effect, CallEffect

LEMMA CancelledHas ==
    ASSUME Inv, NEW p \in Procs, Cancelled(p)
    PROVE  TypeOK' /\ Effect(p)
<1>1. /\ TypeOK /\ OtherTypes /\ p \in cancel /\ cancel' = cancel \ {p} /\ Leave(p)
      /\ orphans' = IF proc[p].op = "wrapper" /\ proc[p].pc \in {"stop", "zero"}
                    THEN orphans \union ({pending} \ {0}) ELSE orphans
      /\ hushed' = IF At(p, "relock") THEN hushed \union {proc[p].on} ELSE hushed
      /\ UNCHANGED <<task, pending, failure, foreground, calls, cancels, started, nested, reported>>
  BY Types DEF Inv, Cancelled, Orphaned, debouncer, bounds
<1>2. At(p, "relock") => proc[p].on \in Calls
  BY <1>1, Fields, Sets DEF Inv, Formed, WellFormed, At
<1>3. queue' \in Seq(Procs) /\ Heads(p)
  BY <1>1, LeaveHeads
<1>4. OtherTypes'
  BY <1>1, <1>2, Sets DEF OtherTypes
<1>5. CASE /\ proc[p].pc \in {"lock", "stop", "zero", "relock", "func"}
           /\ At(p, "stop") => At(proc[p].on, "over")
           /\ Thrown(p)
  <2>1. proc' \in [Procs -> ProcType] /\ Only(p) /\ Out(p)
    BY <1>1, <1>5, ThrownIsOut
  <2>2. ThrowEffect(p)
    BY <1>1, <1>5, <2>1 DEF ThrowEffect
  <2> QED
    BY <1>3, <1>4, <2>1, <2>2, TypesNext DEF Effect, CallEffect
<1>6. CASE /\ proc[p].pc \in {"sleep", "start", "take"}
           /\ proc' = [proc EXCEPT ![p].pc = "done", ![p].end = "cancelled"]
  <2> DEFINE r == [proc[p] EXCEPT !.pc = "done", !.end = "cancelled"]
  <2>1. /\ r \in ProcType /\ r.pc = "done" /\ r.end = "cancelled"
        /\ r.op = proc[p].op /\ r.after = proc[p].after
    <3>1. proc[p] \in ProcType
      BY <1>1, Fields
    <3> QED
      BY <3>1 DEF ProcType, Steps
  <2>2. proc' = [proc EXCEPT ![p] = r]
    BY <1>6
  <2> HIDE DEF r
  <2>3. proc' \in [Procs -> ProcType] /\ proc'[p] = r /\ Only(p)
    BY <1>1, <2>1, <2>2, OneBecomes
  <2>4. QuitEffect(p)
    BY <1>1, <1>6, <2>1, <2>3 DEF QuitEffect, At
  <2> QED
    BY <1>3, <1>4, <2>3, <2>4, TypesNext DEF Effect, TaskEffect
<1> QED
  BY <1>5, <1>6 DEF Cancelled, Stopped, Over, At

\* Who is asked to cancel itself is p, or is waited for.
LEMMA RequestedAre ==
    ASSUME Inv, NEW p \in Procs, NEW q \in Requested(p)
    PROVE  q \in Procs /\ (q = p \/ \E r \in Procs : proc[r].pc \in {"wait", "stop"} /\ proc[r].on = q)
<1> DEFINE S == { s \in Procs :
                    s = p \/ \E r \in Procs : proc[r].pc \in {"wait", "stop"} /\ proc[r].on = s }
<1>1. /\ q \in Procs
      /\ \A T \in SUBSET Procs : p \in T /\ (\A r \in T : Awaited(r) \subseteq T) => q \in T
  BY DEF Requested, Chain
<1>2. ASSUME NEW r \in S PROVE Awaited(r) \subseteq S
  <2>1. CASE proc[r].pc \in {"wait", "stop"} /\ ~Ended(proc[r].on)
    <3>1. proc[r].on \in Procs
      BY <2>1, Fields, Sets DEF Inv, Formed, WellFormed
    <3> QED
      BY <2>1, <3>1 DEF Awaited
  <2>2. CASE ~(proc[r].pc \in {"wait", "stop"} /\ ~Ended(proc[r].on))
    BY <2>2 DEF Awaited
  <2> QED
    BY <2>1, <2>2
<1>3. S \in SUBSET Procs /\ p \in S
  OBVIOUS
<1>4. q \in S
  <2> HIDE DEF S
  <2> QED
    BY <1>1, <1>2, <1>3
<1> QED
  BY <1>4

LEMMA InterruptHas ==
    ASSUME Inv, NEW p \in Apps, Interrupt(p)
    PROVE  TypeOK' /\ Effect(p)
<1>1. /\ TypeOK /\ OtherTypes /\ p \in Procs
      /\ cancel' = cancel \union Requested(p)
      /\ proc' = proc /\ queue' = queue
      /\ UNCHANGED <<task, pending, failure, foreground, calls, started, nested, orphans,
                     reported, hushed>>
  BY Types, Sets DEF Inv, Interrupt, history
<1>2. cancels' \in 0..MaxCancels
  BY Sets DEF Inv, TypeOK, Interrupt
<1>3. OtherTypes'
  BY <1>1, <1>2, RequestedAre DEF OtherTypes
<1>4. /\ queue' \in Seq(Procs) /\ Heads(p) /\ (HasLock(p) => HasLock(p)')
      /\ proc' \in [Procs -> ProcType]
  BY <1>1, SameHeads, Types
<1>5. InterruptEffect(p)
  BY <1>1, <1>4, RequestedAre DEF InterruptEffect
<1> QED
  BY <1>3, <1>4, <1>5, TypesNext DEF Effect, TaskEffect

LEMMA WakeHas ==
    ASSUME Inv, NEW k \in Calls, Wake(k)
    PROVE  TypeOK' /\ Effect(k)
<1>1. /\ TypeOK /\ OtherTypes /\ k \in Procs /\ At(k, "sleep")
      /\ \A j \in proc[k].after : At(j, "over")
      /\ proc' = [proc EXCEPT ![k] = Proc("take")]
      /\ queue' = Append(queue, k)
      /\ UNCHANGED <<task, pending, failure, foreground, cancel, calls, cancels, started, nested,
                     orphans, reported, hushed>>
  BY Types, Sets DEF Inv, Wake, Ready, Over, debouncer, bounds, history
<1>2. Proc("take") \in ProcType /\ Proc("take").pc = "take" /\ Proc("take").op = "none"
  BY NewRec DEF Steps
<1>3. proc' \in [Procs -> ProcType] /\ proc'[k] = Proc("take") /\ Only(k)
  BY <1>1, <1>2, OneBecomes
<1>4. queue' \in Seq(Procs) /\ Heads(k)
  BY <1>1, JoinHeads
<1>5. OtherTypes'
  BY <1>1 DEF OtherTypes
<1>6. WakeEffect(k)
  BY <1>1, <1>2, <1>3 DEF WakeEffect
<1> QED
  BY <1>3, <1>4, <1>5, <1>6, TypesNext DEF Effect, TaskEffect

LEMMA TakeHas ==
    ASSUME Inv, NEW k \in Calls, Take(k)
    PROVE  TypeOK' /\ Effect(k)
<1>1. /\ TypeOK /\ OtherTypes /\ k \in Procs /\ At(k, "take") /\ HasLock(k) /\ Leave(k)
      /\ pending' = 0
      /\ UNCHANGED <<task, failure, foreground, cancel, calls, cancels, nested,
                     orphans, reported, hushed>>
  BY Types, Sets DEF Inv, Take, Clear, bounds
<1>2. queue' \in Seq(Procs) /\ Heads(k)
  BY <1>1, LeaveHeads
<1>3. CASE pending = 0
  <2>1. proc' = [proc EXCEPT ![k].pc = "done", ![k].end = "ok"] /\ started' = started
    BY <1>3 DEF Take
  <2> DEFINE r == [proc[k] EXCEPT !.pc = "done", !.end = "ok"]
  <2>2. r \in ProcType /\ r.pc = "done" /\ r.end = "ok" /\ r.op = proc[k].op
    <3>1. proc[k] \in ProcType
      BY <1>1, Fields
    <3> QED
      BY <3>1 DEF ProcType, Steps
  <2>3. proc[k].op = "none"
    BY <1>1, Fields DEF Inv, Formed, WellFormed, InCall, At
  <2>4. proc' = [proc EXCEPT ![k] = r]
    BY <2>1
  <2> HIDE DEF r
  <2>5. proc' \in [Procs -> ProcType] /\ proc'[k] = r /\ Only(k)
    BY <1>1, <2>2, <2>4, OneBecomes
  <2>6. OtherTypes'
    BY <1>1, <2>1, Sets DEF OtherTypes
  <2>7. TakeEffect(k)
    BY <1>1, <1>3, <2>1, <2>2, <2>3, <2>5 DEF TakeEffect
  <2> QED
    BY <1>2, <2>5, <2>6, <2>7, TypesNext DEF Effect, TaskEffect
<1>4. CASE pending # 0
  <2>1. /\ proc' = [proc EXCEPT ![k] = Proc("func")]
        /\ started' = [started EXCEPT ![pending] = @ + 1]
    BY <1>4 DEF Take, Started
  <2>2. Proc("func") \in ProcType /\ Proc("func").pc = "func" /\ Proc("func").op = "none"
    BY NewRec DEF Steps
  <2>3. proc' \in [Procs -> ProcType] /\ proc'[k] = Proc("func") /\ Only(k)
    BY <1>1, <2>1, <2>2, OneBecomes
  <2>4. started' \in [Calls -> Nat]
    BY <1>1, <1>4, <2>1, Sets DEF OtherTypes
  <2>5. OtherTypes'
    BY <1>1, <2>4, Sets DEF OtherTypes
  <2>6. TakeEffect(k)
    BY <1>1, <1>4, <2>1, <2>2, <2>3 DEF TakeEffect
  <2> QED
    BY <1>2, <2>3, <2>5, <2>6, TypesNext DEF Effect, TaskEffect
<1> QED
  BY <1>3, <1>4

LEMMA StartHas ==
    ASSUME Inv, NEW k \in Calls, Start(k)
    PROVE  TypeOK' /\ Effect(k)
<1>1. /\ TypeOK /\ OtherTypes /\ k \in Procs /\ At(k, "start")
      /\ \A j \in proc[k].after : At(j, "over")
      /\ proc' = [proc EXCEPT ![k] = Proc("func")]
      /\ started' = [started EXCEPT ![proc[k].got] = @ + 1]
      /\ queue' = queue
      /\ UNCHANGED <<task, pending, failure, foreground, cancel, calls, cancels, nested,
                     orphans, reported, hushed>>
  BY Types, Sets DEF Inv, Start, Started, Ready, Over, debouncer, bounds
<1>2. Proc("func") \in ProcType /\ Proc("func").pc = "func" /\ Proc("func").op = "none"
  BY NewRec DEF Steps
<1>3. proc' \in [Procs -> ProcType] /\ proc'[k] = Proc("func") /\ Only(k)
  BY <1>1, <1>2, OneBecomes
<1>4. queue' \in Seq(Procs) /\ Heads(k)
  BY <1>1, SameHeads
<1>5. started' \in [Calls -> Nat]
  <2>1. proc[k].got \in Calls
    <3>1. proc[k].got \in 0..MaxCalls /\ Holds(k, proc[k].got)
      BY <1>1, Fields DEF Holds
    <3>2. proc[k].got \in 1..calls
      BY <1>1, <3>1 DEF Inv, InHand, Undelivered
    <3> QED
      BY <3>1, <3>2, Sets
  <2> QED
    BY <1>1, <2>1 DEF OtherTypes
<1>6. OtherTypes'
  BY <1>1, <1>5 DEF OtherTypes
<1>7. StartEffect(k)
  BY <1>1, <1>2, <1>3 DEF StartEffect
<1> QED
  BY <1>3, <1>4, <1>6, <1>7, TypesNext DEF Effect, TaskEffect

LEMMA CallbackHas ==
    ASSUME Inv, NEW k \in Calls, CallbackEnds(k)
    PROVE  TypeOK' /\ Effect(k)
<1>1. /\ TypeOK /\ OtherTypes /\ k \in Procs /\ At(k, "func") /\ queue' = queue
      /\ UNCHANGED <<task, pending, failure, foreground, cancel, calls, cancels, started, nested,
                     orphans, reported, hushed>>
  BY Types, Sets DEF Inv, CallbackEnds, debouncer, bounds, history
<1>2. PICK end \in {"ok", "raised"} : proc' = [proc EXCEPT ![k].pc = "done", ![k].end = end]
  BY DEF CallbackEnds
<1> DEFINE r == [proc[k] EXCEPT !.pc = "done", !.end = end]
<1>3. r \in ProcType /\ r.pc = "done" /\ r.op = proc[k].op
  <2>1. proc[k] \in ProcType
    BY <1>1, Fields
  <2> QED
    BY <2>1 DEF ProcType, Steps
<1>4. proc' = [proc EXCEPT ![k] = r]
  BY <1>2
<1> HIDE DEF r
<1>5. proc' \in [Procs -> ProcType] /\ proc'[k] = r /\ Only(k)
  BY <1>1, <1>3, <1>4, OneBecomes
<1>6. queue' \in Seq(Procs) /\ Heads(k)
  BY <1>1, SameHeads
<1>7. OtherTypes'
  BY <1>1 DEF OtherTypes
<1>8. EndEffect(k)
  BY <1>1, <1>3, <1>5 DEF EndEffect
<1> QED
  BY <1>5, <1>6, <1>7, <1>8, TypesNext DEF Effect, TaskEffect

LEMMA FinishedHas ==
    ASSUME Inv, NEW k \in Calls, TaskFinished(k)
    PROVE  TypeOK' /\ Effect(k)
<1>1. /\ TypeOK /\ OtherTypes /\ k \in Procs /\ k \in 0..MaxCalls /\ At(k, "done") /\ queue' = queue
      /\ proc' = [proc EXCEPT ![k] = [Proc("over") EXCEPT !.end = proc[k].end]]
      /\ task' = IF task = k THEN 0 ELSE task
      /\ failure' = IF proc[k].end = "raised" /\ k \notin foreground THEN k ELSE failure
      /\ UNCHANGED <<pending, foreground, cancel, calls, cancels, started, nested,
                     orphans, reported, hushed>>
  BY Types, Sets DEF Inv, TaskFinished, Forget, bounds, history
<1> DEFINE r == [Proc("over") EXCEPT !.end = proc[k].end]
<1>2. r \in ProcType /\ r.pc = "over" /\ r.op = "none" /\ r.end = proc[k].end
  <2>1. proc[k].end \in {"none", "ok", "raised", "cancelled"} /\ "over" \in Steps
    BY <1>1, Fields DEF Steps
  <2>2. Proc("over") \in ProcType /\ Proc("over").pc = "over" /\ Proc("over").op = "none"
    BY <2>1, NewRec
  <2> QED
    BY <2>1, <2>2 DEF ProcType
<1>3. proc' = [proc EXCEPT ![k] = r]
  BY <1>1
<1> HIDE DEF r
<1>4. proc' \in [Procs -> ProcType] /\ proc'[k] = r /\ Only(k)
  BY <1>1, <1>2, <1>3, OneBecomes
<1>5. queue' \in Seq(Procs) /\ Heads(k)
  BY <1>1, SameHeads
<1>6. OtherTypes'
  BY <1>1, Sets DEF OtherTypes
<1>7. FinishEffect(k)
  BY <1>1, <1>2, <1>4 DEF FinishEffect
<1> QED
  BY <1>4, <1>5, <1>6, <1>7, TypesNext DEF Effect, TaskEffect

\* Every step has one of the effects.
LEMMA NextHas ==
    ASSUME Inv, Next
    PROVE  TypeOK' /\ \E p \in Procs : Effect(p)
<1>1. CASE \E p \in Procs : \E op \in Ops : Call(p, op)
  BY <1>1, CallHas
<1>2. CASE \E p \in Procs : Locked(p) \/ GatherEnds(p) \/ SleepEnds(p) \/ Woken(p) \/ Relocked(p)
  BY <1>2, LockedHas, GatherHas, SleepEndsHas, WokenHas, RelockedHas
<1>3. CASE \E p \in Procs : Cancelled(p)
  BY <1>3, CancelledHas
<1>4. CASE \E k \in Calls : Wake(k) \/ Take(k) \/ Start(k)
  BY <1>4, WakeHas, TakeHas, StartHas, Sets
<1>5. CASE \E k \in Calls : TaskFinished(k) \/ CallbackEnds(k)
  BY <1>5, FinishedHas, CallbackHas, Sets
<1>6. CASE \E p \in Apps : Interrupt(p)
  BY <1>6, InterruptHas, Sets
<1> QED
  BY <1>1, <1>2, <1>3, <1>4, <1>5, <1>6 DEF Next, Step

-----------------------------------------------------------------------------
(* Each part of the invariant is kept.                                     *)

LEMMA FormedStep ==
    ASSUME Inv, NEW p \in Procs, Effect(p)
    PROVE  Formed'
<1>1. WellFormed(p) /\ nested \subseteq Calls
  BY DEF Inv, Formed, TypeOK
<1>2. ASSUME NEW q \in Procs, q # p, proc'[q] = proc[q],
             nested \subseteq nested', nested' \subseteq nested \union {p}
      PROVE  WellFormed(q)'
  <2>1. WellFormed(q)
    BY DEF Inv, Formed
  <2> QED
    BY <1>2, <2>1 DEF WellFormed
<1>3. ASSUME Only(p), nested \subseteq nested', nested' \subseteq nested \union {p}, WellFormed(p)'
      PROVE  Formed'
  BY <1>2, <1>3 DEF Formed, Only
<1>4. CASE EnterEffect(p)
  <2>1. WellFormed(p)'
    BY <1>4 DEF EnterEffect, WellFormed, Ops, InCall
  <2> QED
    BY <1>3, <1>4, <2>1 DEF EnterEffect
<1>5. CASE RefuseEffect(p) \/ PassEffect(p) \/ FailEffect(p) \/ ClearEffect(p) \/ RelockEffect(p)
           \/ ThrowEffect(p)
  <2>1. Out(p) /\ Only(p) /\ nested' = nested /\ proc[p].pc \in InCall \union {"func"}
    BY <1>5 DEF RefuseEffect, PassEffect, FailEffect, ClearEffect, RelockEffect, ThrowEffect, Acting,
                Out, At, InCall
  <2>2. WellFormed(p)'
    BY <1>1, <2>1 DEF Out, Free, Home, WellFormed, InCall
  <2> QED
    BY <1>3, <2>1, <2>2
<1>6. CASE JoinEffect(p) \/ StopEffect(p) \/ GatherEffect(p) \/ WokenEffect(p)
  <2>1. WellFormed(p)' /\ Only(p) /\ nested' = nested
    BY <1>1, <1>6 DEF JoinEffect, StopEffect, GatherEffect, WokenEffect, WellFormed, InCall, At
  <2> QED
    BY <1>3, <2>1
<1>7. ASSUME NEW n \in Calls, ReplaceEffect(p, n) \/ FlushEffect(p, n) PROVE Formed'
  <2>1. Both(p, n) /\ nested' = nested /\ n \in Procs /\ At(n, "none")
    BY <1>7, Sets DEF ReplaceEffect, FlushEffect
  <2>2. WellFormed(p)'
    <3>1. proc[p].pc \in {"lock", "zero"}
      BY <1>7 DEF ReplaceEffect, FlushEffect, Acting
    <3>2. CASE ReplaceEffect(p, n)
      BY <1>1, <3>1, <3>2 DEF ReplaceEffect, Free, Home, WellFormed, InCall
    <3>3. CASE FlushEffect(p, n)
      <4>1. proc'[p].pc = "wait" /\ proc'[p].op = "flush" /\ proc'[p].on # 0 /\ nested' = nested
        BY <3>3, Sets DEF FlushEffect, Calls
      <4> QED
        BY <1>1, <3>1, <4>1 DEF WellFormed, InCall
    <3> QED
      BY <1>7, <3>2, <3>3
  <2>3. n \notin nested
    BY <2>1 DEF Inv, Formed, WellFormed, At
  <2>4. WellFormed(n)'
    BY <1>7, <2>1, <2>3 DEF ReplaceEffect, FlushEffect, WellFormed, InCall
  <2> QED
    BY <1>2, <2>1, <2>2, <2>4 DEF Both, Formed
<1>8. CASE InterruptEffect(p)
  BY <1>8 DEF InterruptEffect, Inv, Formed, WellFormed
<1>9. CASE QuitEffect(p) \/ WakeEffect(p) \/ TakeEffect(p) \/ StartEffect(p) \/ EndEffect(p)
           \/ FinishEffect(p)
  <2>1. WellFormed(p)' /\ Only(p) /\ nested' = nested
    BY <1>1, <1>9 DEF QuitEffect, WakeEffect, TakeEffect, StartEffect, EndEffect, FinishEffect,
                      WellFormed, InCall, At
  <2> QED
    BY <1>3, <2>1
<1> QED
  BY <1>4, <1>5, <1>6, <1>7, <1>8, <1>9 DEF Effect, CallEffect, TaskEffect

\* The lock: one task at most is stopping another.
LEMMA OneStops ==
    ASSUME Inv, NEW p \in Procs, NEW q \in Procs, HasLock(p), proc[q].pc \in {"stop", "zero"}
    PROVE  q = p /\ task = 0
  BY DEF Inv, LockHeld, HasLock

LEMMA LockStep ==
    ASSUME Inv, NEW p \in Procs, Effect(p)
    PROVE  LockHeld'
<1> DEFINE Held(q) == proc[q].pc \in {"stop", "zero"} =>
                        HasLock(q) /\ task = 0 /\ (proc[q].op # "wrapper" => pending = 0)
<1>1. \A q \in Procs : Held(q)
  BY DEF Inv, LockHeld
<1>2. ASSUME NEW q \in Procs, q # p, proc'[q] = proc[q],
             task = 0 => task' = 0, pending = 0 => pending' = 0
      PROVE  Held(q)'
  <2>1. HasLock(q) => HasLock(q)'
    BY <1>2 DEF Effect, Heads
  <2> QED
    BY <1>1, <1>2, <2>1
<1>3. ASSUME NEW q \in Procs, q # p, proc'[q] = proc[q], HasLock(p)
      PROVE  Held(q)'
  <2>1. proc[q].pc \notin {"stop", "zero"}
    BY <1>3, OneStops
  <2> QED
    BY <1>3, <2>1
<1> HIDE DEF Held
<1>4. ASSUME Only(p), Held(p)', HasLock(p) \/ ((task = 0 => task' = 0) /\ (pending = 0 => pending' = 0))
      PROVE  LockHeld'
  <2>1. \A q \in Procs : Held(q)'
    BY <1>2, <1>3, <1>4 DEF Only
  <2> QED
    BY <2>1 DEF LockHeld, Held
<1>5. CASE StopEffect(p) \/ GatherEffect(p)
  <2>1. Held(p)'
    BY <1>1, <1>5 DEF StopEffect, GatherEffect, At, Held
  <2> QED
    BY <1>4, <1>5, <2>1 DEF StopEffect, GatherEffect
<1>6. CASE EnterEffect(p) \/ RefuseEffect(p) \/ PassEffect(p) \/ JoinEffect(p) \/ FailEffect(p)
           \/ ClearEffect(p) \/ WokenEffect(p) \/ RelockEffect(p) \/ ThrowEffect(p)
  <2>1. Only(p) /\ proc'[p].pc \notin {"stop", "zero"}
    BY <1>6 DEF EnterEffect, RefuseEffect, PassEffect, JoinEffect, FailEffect, ClearEffect,
                WokenEffect, RelockEffect, ThrowEffect, Free, Out, Home
  <2>2. HasLock(p) \/ ((task = 0 => task' = 0) /\ (pending = 0 => pending' = 0))
    BY <1>6 DEF EnterEffect, RefuseEffect, PassEffect, JoinEffect, FailEffect, ClearEffect,
                WokenEffect, RelockEffect, ThrowEffect, Acting
  <2> QED
    BY <1>4, <2>1, <2>2 DEF Held
<1>7. ASSUME NEW n \in Calls, ReplaceEffect(p, n) \/ FlushEffect(p, n) PROVE LockHeld'
  <2>1. /\ Both(p, n) /\ HasLock(p) /\ n \in Procs
        /\ proc'[p].pc \notin {"stop", "zero"} /\ proc'[n].pc \notin {"stop", "zero"}
    BY <1>7, Sets DEF ReplaceEffect, FlushEffect, Acting, Free, Home
  <2>2. \A q \in Procs : Held(q)'
    BY <1>3, <2>1 DEF Both, Held
  <2> QED
    BY <2>2 DEF LockHeld, Held
<1>8. CASE InterruptEffect(p)
  <2>1. proc' = proc /\ task' = task /\ pending' = pending /\ (HasLock(p) => HasLock(p)')
    BY <1>8 DEF InterruptEffect
  <2>2. Held(p)'
    BY <1>1, <2>1 DEF Held
  <2> QED
    BY <1>4, <2>1, <2>2 DEF Only
<1>9. CASE QuitEffect(p) \/ WakeEffect(p) \/ TakeEffect(p) \/ StartEffect(p) \/ EndEffect(p)
           \/ FinishEffect(p)
  <2>1. /\ Only(p) /\ proc'[p].pc \notin {"stop", "zero"}
        /\ task = 0 => task' = 0
        /\ pending = 0 => pending' = 0
    BY <1>9 DEF QuitEffect, WakeEffect, TakeEffect, StartEffect, EndEffect, FinishEffect
  <2> QED
    BY <1>4, <2>1 DEF Held
<1> QED
  BY <1>5, <1>6, <1>7, <1>8, <1>9 DEF Effect, CallEffect, TaskEffect

\* Numbers of calls.
LEMMA NumberedStep ==
    ASSUME Inv, NEW p \in Procs, Effect(p)
    PROVE  Numbered'
<1>1. /\ calls \in Nat /\ started \in [Calls -> Nat] /\ MaxCalls \in Nat
  BY Sets DEF Inv, TypeOK
<1>2. /\ \A q \in Procs : Entered(q) => proc[q].id \in 1..calls /\ At(proc[q].id, "none")
      /\ \A q, r \in Procs : Entered(q) /\ Entered(r) /\ proc[q].id = proc[r].id => q = r
      /\ \A c \in Calls : c > calls => At(c, "none") /\ started[c] = 0
  BY DEF Inv, Numbered
<1>3. \A q \in Procs : Entered(q) => proc[q].id \in Calls
  BY <1>1, <1>2, Sets DEF Inv, TypeOK, Calls
\* A step that begins no call and creates no task.
<1>4. ASSUME Only(p), calls' = calls, ~At(p, "none"),
             Entered(p)' => Entered(p) /\ proc'[p].id = proc[p].id,
             \A c \in Calls : c > calls => started'[c] = 0
      PROVE  Numbered'
  <2>1. \A q \in Procs : Entered(q)' => Entered(q) /\ proc'[q].id = proc[q].id
    BY <1>4 DEF Only, Entered
  <2>2. \A c \in Calls : At(c, "none") => At(c, "none")'
    BY <1>4, Sets DEF Only, At
  <2> QED
    BY <1>2, <1>3, <1>4, <2>1, <2>2 DEF Numbered
<1>5. CASE EnterEffect(p)
  <2>1. /\ At(p, Home(p)) /\ calls < MaxCalls /\ calls' = calls + 1 /\ started' = started
        /\ Only(p) /\ proc'[p].pc = "lock" /\ proc'[p].id = calls + 1
    BY <1>5 DEF EnterEffect
  <2>2. calls + 1 \in Calls /\ calls + 1 > calls /\ calls + 1 \in 1..(calls + 1)
    BY <1>1, <2>1 DEF Calls
  <2>3. At(calls + 1, "none") /\ calls + 1 # p
    BY <1>2, <2>1, <2>2 DEF At, Home
  <2>4. \A c \in Calls : At(c, "none") => At(c, "none")'
    BY <2>1, Sets DEF Only, At, Home
  <2>5. Entered(p)' /\ \A q \in Procs : q # p /\ Entered(q)' => Entered(q) /\ proc'[q].id = proc[q].id
    BY <2>1 DEF Only, Entered
  <2>6. \A q \in Procs : Entered(q)' => proc'[q].id \in 1..calls' /\ At(proc[q].id, "none")'
    <3>1. \A i \in 1..calls : i \in 1..(calls + 1)
      BY <1>1
    <3> QED
      BY <1>2, <1>3, <2>1, <2>2, <2>3, <2>4, <2>5, <3>1
  <2>7. \A q, r \in Procs :
          Entered(q)' /\ Entered(r)' /\ proc'[q].id = proc'[r].id => q = r
    <3>1. \A q \in Procs : Entered(q) => proc[q].id # calls + 1
      BY <1>1, <1>2
    <3> QED
      BY <1>2, <2>1, <2>5, <3>1
  <2>8. \A c \in Calls : c > calls' => At(c, "none")' /\ started'[c] = 0
    <3>1. \A c \in Calls : c > calls + 1 => c > calls
      BY <1>1 DEF Calls
    <3> QED
      BY <1>2, <2>1, <2>4, <3>1
  <2> QED
    BY <2>6, <2>7, <2>8 DEF Numbered, At
<1>6. CASE RefuseEffect(p) \/ PassEffect(p) \/ JoinEffect(p) \/ StopEffect(p) \/ FailEffect(p)
           \/ ClearEffect(p) \/ GatherEffect(p) \/ WokenEffect(p) \/ RelockEffect(p) \/ ThrowEffect(p)
  <2>1. /\ Only(p) /\ calls' = calls /\ started' = started /\ ~At(p, "none")
        /\ Entered(p)' => Entered(p) /\ proc'[p].id = proc[p].id
    BY <1>6 DEF RefuseEffect, PassEffect, JoinEffect, StopEffect, FailEffect, ClearEffect,
                GatherEffect, WokenEffect, RelockEffect, ThrowEffect, Acting, Entered, At, Free, Out, Home
  <2> QED
    BY <1>2, <1>4, <2>1
<1>7. CASE QuitEffect(p) \/ WakeEffect(p) \/ EndEffect(p) \/ FinishEffect(p)
  <2>1. Only(p) /\ calls' = calls /\ started' = started /\ ~At(p, "none") /\ ~Entered(p)'
    BY <1>7 DEF QuitEffect, WakeEffect, EndEffect, FinishEffect, Entered, At
  <2> QED
    BY <1>2, <1>4, <2>1
<1>8. CASE TakeEffect(p) \/ StartEffect(p)
  <2>1. /\ Only(p) /\ calls' = calls /\ ~At(p, "none") /\ ~Entered(p)'
        /\ \/ started' = started
           \/ pending # 0 /\ started' = [started EXCEPT ![pending] = @ + 1]
           \/ At(p, "start") /\ started' = [started EXCEPT ![proc[p].got] = @ + 1]
    BY <1>8 DEF TakeEffect, StartEffect, Entered, At
  <2>2. /\ pending # 0 => pending \in 1..calls
        /\ At(p, "start") => proc[p].got \in 1..calls
    <3>1. proc[p].got \in 0..MaxCalls
      BY Fields DEF Inv
    <3> QED
      BY <3>1 DEF Inv, InHand, Undelivered, Holds
  <2>3. \A c \in Calls : c > calls => started'[c] = started[c]
    BY <1>1, <2>1, <2>2
  <2> QED
    BY <1>2, <1>4, <2>1, <2>3
<1>9. ASSUME NEW n \in Calls, ReplaceEffect(p, n) \/ FlushEffect(p, n) PROVE Numbered'
  <2>1. /\ Both(p, n) /\ calls' = calls /\ started' = started /\ n # p /\ At(n, "none")
        /\ Entered(p) /\ proc[p].id = n /\ ~Entered(p)' /\ ~Entered(n)' /\ n \in Procs
    BY <1>9, Sets DEF ReplaceEffect, FlushEffect, Acting, Entered, Free, Home
  <2>2. \A q \in Procs : Entered(q)' => Entered(q) /\ proc'[q].id = proc[q].id /\ proc[q].id # n
    BY <1>2, <2>1 DEF Both, Entered
  <2>3. n \in 1..calls
    BY <1>2, <2>1
  <2>4. \A c \in Calls : c # n /\ At(c, "none") => At(c, "none")'
    <3>1. proc[p].pc # "none"
      BY <2>1 DEF Entered
    <3> QED
      BY <2>1, <3>1, Sets DEF Both, At
  <2>5. \A c \in Calls : c > calls => c # n
    BY <1>1, <2>3
  <2> QED
    BY <1>2, <1>3, <2>1, <2>2, <2>4, <2>5 DEF Numbered, At
<1>10. CASE InterruptEffect(p)
  BY <1>10 DEF InterruptEffect, Inv, Numbered, Entered, At
<1> QED
  BY <1>5, <1>6, <1>7, <1>8, <1>9, <1>10 DEF Effect, CallEffect, TaskEffect

\* Calls in hand.
LEMMA InHandStep ==
    ASSUME Inv, NEW p \in Procs, Effect(p)
    PROVE  InHand'
<1> DEFINE Nums == 0..MaxCalls
<1>1. /\ calls \in Nat /\ started \in [Calls -> Nat] /\ pending \in Nums /\ MaxCalls \in Nat
      /\ Calls \subseteq Nums /\ \A n \in Nums : n # 0 => n \in Calls
      /\ proc[p].id \in Nums /\ proc[p].got \in Nums
  BY Sets, Fields DEF Inv, TypeOK
<1>2. /\ pending # 0 => Undelivered(pending)
      /\ \A q \in Procs, c \in Nums : Holds(q, c) => Undelivered(c) /\ c # pending
      /\ \A q, r \in Procs, c \in Calls : Holds(q, c) /\ Holds(r, c) => q = r
  BY DEF Inv, InHand
<1>3. \A c \in Nums : Undelivered(c) => c \in Calls /\ c # 0
  BY <1>1 DEF Undelivered
<1>4. SUFFICES /\ pending' # 0 => Undelivered(pending)'
               /\ \A q \in Procs, c \in Nums : Holds(q, c)' => Undelivered(c)' /\ c # pending'
               /\ \A q, r \in Procs, c \in Calls : Holds(q, c)' /\ Holds(r, c)' => q = r
  BY DEF InHand
<1> HIDE DEF Nums
\* A step that takes no call in hand.
<1>5. ASSUME \A q \in Procs, c \in Nums : Holds(q, c)' => Holds(q, c),
             pending' \in {0, pending}, calls' = calls, started' = started
      PROVE  InHand'
  <2>1. \A c \in Nums : Undelivered(c) => Undelivered(c)'
    BY <1>5 DEF Undelivered
  <2> QED
    <3>1. pending' # 0 => Undelivered(pending)'
      BY <1>1, <1>2, <1>5 DEF Undelivered
    <3>2. \A q \in Procs, c \in Nums : Holds(q, c)' => Undelivered(c)' /\ c # pending'
      BY <1>2, <1>3, <1>5, <2>1
    <3>3. \A q, r \in Procs, c \in Calls : Holds(q, c)' /\ Holds(r, c)' => q = r
      BY <1>1, <1>2, <1>5
    <3> QED
      BY <3>1, <3>2, <3>3 DEF InHand, Nums
<1>6. ASSUME NEW q \in Procs, proc'[q] = proc[q], NEW c \in Nums, Holds(q, c)'
      PROVE  Holds(q, c)
  BY <1>6 DEF Holds, Entered, At
<1>7. CASE EnterEffect(p)
  <2>0. PICK new : new = calls + 1
    OBVIOUS
  <2>1. /\ At(p, Home(p)) /\ calls < MaxCalls /\ calls' = new /\ started' = started
        /\ Only(p) /\ proc'[p].pc = "lock" /\ proc'[p].id = new /\ pending' = pending
    BY <1>7, <2>0 DEF EnterEffect
  <2>2. new \in Calls /\ new > calls /\ new \notin 1..calls
    BY <1>1, <2>0, <2>1 DEF Calls
  <2>3. \A c \in Nums : Undelivered(c) => Undelivered(c)' /\ c # new
    <3>1. \A c \in 1..calls : c \in 1..new /\ c # new
      BY <1>1, <2>0
    <3> QED
      <4> TAKE c \in Nums
      <4> HAVE Undelivered(c)
      <4>1. c \in 1..calls /\ started[c] = 0
        BY DEF Undelivered
      <4>2. c \in 1..new /\ c # new
        BY <3>1, <4>1
      <4>3. c \in 1..calls' /\ started'[c] = 0
        BY <2>1, <4>1, <4>2
      <4> QED
        BY <4>2, <4>3 DEF Undelivered
  <2>4. Undelivered(new)'
    <3>1. started[new] = 0
      BY <2>2 DEF Inv, Numbered
    <3>2. new \in 1..new
      BY <1>1, <2>0
    <3> QED
      <4>1. new \in 1..calls' /\ started'[new] = 0
        BY <2>1, <3>1, <3>2
      <4> QED
        BY <4>1 DEF Undelivered
  <2>5. \A c \in Nums : Holds(p, c)' => c = new
    BY <2>1 DEF Holds, At
  <2>6. \A q \in Procs, c \in Nums : q # p /\ Holds(q, c)' => Holds(q, c)
    BY <1>6, <2>1 DEF Only
  <2>7. new # pending
    BY <1>1, <1>2, <2>0, <2>1, <2>3
  <2>8. pending' # 0 => Undelivered(pending)'
    BY <1>1, <1>2, <2>1, <2>3 DEF Undelivered
  <2>9. \A q \in Procs, c \in Nums : Holds(q, c)' => Undelivered(c)' /\ c # pending'
    <3> TAKE q \in Procs, c \in Nums
    <3> HAVE Holds(q, c)'
    <3>1. CASE q = p
      <4>1. c = new
        BY <2>5, <3>1
      <4> QED
        BY <2>1, <2>4, <2>7, <4>1 DEF Undelivered
    <3>2. CASE q # p
      BY <1>2, <2>1, <2>3, <2>6, <3>2
    <3> QED
      BY <3>1, <3>2
  <2>10. \A q, r \in Procs, c \in Calls : Holds(q, c)' /\ Holds(r, c)' => q = r
    BY <1>1, <1>2, <2>3, <2>5, <2>6
  <2> QED
    BY <2>8, <2>9, <2>10
<1>8. CASE RefuseEffect(p) \/ PassEffect(p) \/ JoinEffect(p) \/ FailEffect(p) \/ ClearEffect(p)
           \/ GatherEffect(p) \/ WokenEffect(p) \/ RelockEffect(p) \/ ThrowEffect(p)
  <2>1. Only(p) /\ pending' \in {0, pending} /\ calls' = calls /\ started' = started
    BY <1>8 DEF RefuseEffect, PassEffect, JoinEffect, FailEffect, ClearEffect, GatherEffect,
                WokenEffect, RelockEffect, ThrowEffect
  <2>2. \A c \in Nums : Holds(p, c)' => Holds(p, c)
    BY <1>8 DEF RefuseEffect, PassEffect, JoinEffect, FailEffect, ClearEffect, GatherEffect,
                WokenEffect, RelockEffect, ThrowEffect, Free, Out, Home, Holds, Entered, At
  <2> QED
    BY <1>5, <1>6, <2>1, <2>2 DEF Only, InHand, Nums
<1>9. CASE StopEffect(p)
  <2>1. /\ Only(p) /\ calls' = calls /\ started' = started /\ At(p, "lock")
        /\ pending' = IF proc[p].op = "wrapper" THEN pending ELSE 0
        /\ proc[p].op = "flush" => pending # 0 /\ proc'[p].got = pending
        /\ proc'[p].pc = "stop" /\ proc'[p].op = proc[p].op /\ proc'[p].id = proc[p].id
    BY <1>9 DEF StopEffect
  <2>2. CASE proc[p].op = "flush"
    <3>1. \A c \in Nums : Holds(p, c)' => c = pending
      BY <2>1, <2>2 DEF Holds, At
    <3>2. \A q \in Procs, c \in Nums : q # p /\ Holds(q, c)' => Holds(q, c)
      BY <1>6, <2>1 DEF Only
    <3>3. \A c \in Nums : Undelivered(c) => Undelivered(c)' /\ c # 0
      BY <1>1, <2>1 DEF Undelivered
    <3>4. pending' = 0
      BY <2>1, <2>2
    <3>5. \A q \in Procs, c \in Nums : Holds(q, c)' => Undelivered(c)' /\ c # pending'
      BY <1>1, <1>2, <2>1, <2>2, <3>1, <3>2, <3>3, <3>4
    <3>6. \A q, r \in Procs, c \in Calls : Holds(q, c)' /\ Holds(r, c)' => q = r
      BY <1>1, <1>2, <3>1, <3>2
    <3> QED
      BY <3>4, <3>5, <3>6
  <2>3. CASE proc[p].op # "flush"
    <3>1. \A c \in Nums : Holds(p, c)' => Holds(p, c)
      BY <2>1, <2>3 DEF Holds, Entered, At
    <3> QED
      BY <1>5, <1>6, <2>1, <3>1 DEF Only, InHand, Nums
  <2> QED
    BY <2>2, <2>3
<1>10. ASSUME NEW n \in Calls, ReplaceEffect(p, n) PROVE InHand'
  <2>1. /\ Both(p, n) /\ calls' = calls /\ started' = started /\ pending' = n
        /\ Holds(p, n) /\ n \in Procs /\ n # 0
        /\ proc'[n].pc = "sleep" /\ proc'[p].pc \in {"idle", "func"}
    BY <1>10, Sets DEF ReplaceEffect, Acting, Holds, Entered, Free, Home, Calls
  <2>2. \A q \in Procs, c \in Nums : Holds(q, c)' => Holds(q, c) /\ q # p
    BY <1>6, <2>1 DEF Both, Holds, Entered, At
  <2>3. \A c \in Nums : Undelivered(c) => Undelivered(c)'
    BY <2>1 DEF Undelivered
  <2>4. Undelivered(n)
    BY <1>1, <1>2, <2>1
  <2>5. Undelivered(pending)'
    BY <2>1, <2>4 DEF Undelivered
  <2>6. \A q \in Procs : ~Holds(q, n)'
    BY <1>1, <1>2, <2>1, <2>2
  <2> QED
    BY <1>1, <1>2, <2>1, <2>2, <2>3, <2>5, <2>6 DEF InHand, Nums
<1>11. ASSUME NEW n \in Calls, FlushEffect(p, n) PROVE InHand'
  <2> DEFINE g == IF At(p, "lock") THEN pending ELSE proc[p].got
  <2>1. /\ Both(p, n) /\ calls' = calls /\ started' = started /\ pending' = 0 /\ n \in Procs
        /\ proc'[n].pc = "start" /\ proc'[n].got = g /\ proc'[p].pc = "wait"
        /\ At(p, "lock") => pending # 0
        /\ At(p, "zero") => Holds(p, proc[p].got)
        /\ At(p, "lock") \/ At(p, "zero")
    BY <1>11, Sets DEF FlushEffect, Acting, Holds, At
  <2>2. g \in Nums /\ Undelivered(g) /\ \A q \in Procs : q # p => ~Holds(q, g)
    BY <1>1, <1>2, <1>3, <2>1
  <2> HIDE DEF g
  <2>3. \A q \in Procs, c \in Nums : Holds(q, c)' => (q = n /\ c = g) \/ (q # n /\ q # p /\ Holds(q, c))
    BY <1>6, <2>1 DEF Both, Holds, Entered, At
  <2>4. \A c \in Nums : Undelivered(c) => Undelivered(c)' /\ c # 0
    BY <2>1 DEF Undelivered
  <2>5. \A q \in Procs, c \in Nums : Holds(q, c)' => Undelivered(c)' /\ c # pending'
    BY <1>2, <2>1, <2>2, <2>3, <2>4
  <2>6. \A q, r \in Procs, c \in Calls : Holds(q, c)' /\ Holds(r, c)' => q = r
    BY <1>1, <1>2, <2>2, <2>3
  <2> QED
    BY <2>1, <2>5, <2>6 DEF InHand, Nums
<1>12. CASE QuitEffect(p) \/ WakeEffect(p) \/ EndEffect(p) \/ FinishEffect(p) \/ InterruptEffect(p)
  <2>1. pending' = pending /\ calls' = calls /\ started' = started
    BY <1>12 DEF QuitEffect, WakeEffect, EndEffect, FinishEffect, InterruptEffect
  <2>2. \A q \in Procs, c \in Nums : Holds(q, c)' => Holds(q, c)
    BY <1>6, <1>12 DEF QuitEffect, WakeEffect, EndEffect, FinishEffect, InterruptEffect, Only,
                       Holds, Entered, At
  <2> QED
    BY <1>5, <2>1, <2>2 DEF InHand, Nums
\* A delivery: nobody else holds the call.
<1>13. ASSUME NEW d \in Calls, Only(p), \A c \in Nums : ~Holds(p, c)',
              started' = [started EXCEPT ![d] = @ + 1], calls' = calls,
              \A q \in Procs : q # p => ~Holds(q, d),
              pending' \in {0, pending}, pending' # d
       PROVE  InHand'
  <2>1. \A q \in Procs, c \in Nums : Holds(q, c)' => Holds(q, c) /\ q # p /\ c # d
    BY <1>6, <1>13 DEF Only
  <2>2. \A c \in Nums : Undelivered(c) /\ c # d => Undelivered(c)'
    BY <1>1, <1>3, <1>13 DEF Undelivered
  <2> QED
    <3>1. pending' # 0 => Undelivered(pending)'
      BY <1>1, <1>2, <1>13 DEF Undelivered
    <3>2. \A q \in Procs, c \in Nums : Holds(q, c)' => Undelivered(c)' /\ c # pending'
      BY <1>2, <1>3, <1>13, <2>1, <2>2
    <3>3. \A q, r \in Procs, c \in Calls : Holds(q, c)' /\ Holds(r, c)' => q = r
      BY <1>1, <1>2, <2>1
    <3> QED
      BY <3>1, <3>2, <3>3 DEF InHand, Nums
<1>14. CASE TakeEffect(p)
  <2>1. /\ Only(p) /\ pending' = 0 /\ calls' = calls /\ proc'[p].pc \in {"done", "func"}
        /\ \/ started' = started
           \/ pending # 0 /\ started' = [started EXCEPT ![pending] = @ + 1]
    BY <1>14 DEF TakeEffect
  <2>2. \A c \in Nums : ~Holds(p, c)'
    BY <2>1 DEF Holds, Entered, At
  <2>3. CASE started' = started
    BY <1>5, <1>6, <2>1, <2>2, <2>3 DEF Only, InHand, Nums
  <2>4. CASE pending # 0 /\ started' = [started EXCEPT ![pending] = @ + 1]
    BY <1>1, <1>2, <1>13, <2>1, <2>2, <2>4 DEF InHand, Nums
  <2> QED
    BY <2>1, <2>3, <2>4
<1>15. CASE StartEffect(p)
  <2>1. /\ Only(p) /\ pending' = pending /\ calls' = calls /\ proc'[p].pc = "func"
        /\ Holds(p, proc[p].got) /\ started' = [started EXCEPT ![proc[p].got] = @ + 1]
    BY <1>15 DEF StartEffect, Holds, At
  <2>2. \A c \in Nums : ~Holds(p, c)'
    BY <2>1 DEF Holds, Entered, At
  <2>3. proc[p].got \in Calls /\ proc[p].got # pending
    BY <1>1, <1>2, <1>3, <2>1
  <2> QED
    BY <1>2, <1>13, <2>1, <2>2, <2>3 DEF InHand, Nums
<1> QED
  BY <1>7, <1>8, <1>9, <1>10, <1>11, <1>12, <1>14, <1>15
  DEF Effect, CallEffect, TaskEffect, InHand, Nums

\* Who stops k before a step stops it after, unless k is over.
LEMMA StoppingStays ==
    ASSUME Inv, NEW p \in Procs, Effect(p), NEW k \in Calls, Stopping(k), ~At(k, "over")
    PROVE  Stopping(k)'
<1>1. PICK q \in Procs : At(q, "stop") /\ proc[q].on = k
  BY DEF Stopping
<1>2. SUFFICES proc'[q].pc = "stop" /\ proc'[q].on = k
  BY DEF Stopping, At
<1>3. CASE proc'[q] = proc[q]
  BY <1>1, <1>3 DEF At
<1>4. CASE q # p /\ \E n \in Calls : ReplaceEffect(p, n) \/ FlushEffect(p, n)
  <2>1. PICK n \in Calls : Both(p, n) /\ At(n, "none")
    BY <1>4 DEF ReplaceEffect, FlushEffect
  <2>2. q # n
    BY <1>1, <2>1 DEF At
  <2> QED
    BY <1>1, <1>4, <2>1, <2>2 DEF Both, At
<1>5. q # p => Only(p) \/ proc' = proc \/ \E n \in Calls : ReplaceEffect(p, n) \/ FlushEffect(p, n)
  BY DEF Effect, CallEffect, TaskEffect, EnterEffect, RefuseEffect, PassEffect, JoinEffect, StopEffect,
         FailEffect, ClearEffect, GatherEffect, WokenEffect, RelockEffect, ThrowEffect, QuitEffect,
         InterruptEffect, WakeEffect, TakeEffect, StartEffect, EndEffect, FinishEffect
<1>6. CASE q = p
  <2>1. At(p, "stop") /\ ~At(proc[p].on, "over")
    BY <1>1, <1>6
  <2>2. InterruptEffect(p)
    BY <2>1 DEF Effect, CallEffect, TaskEffect, EnterEffect, RefuseEffect, PassEffect, JoinEffect, StopEffect,
         FailEffect, ClearEffect, GatherEffect, WokenEffect, RelockEffect, ThrowEffect, QuitEffect,
         WakeEffect, TakeEffect, StartEffect, EndEffect, FinishEffect, ReplaceEffect, FlushEffect,
         Acting, At, Home
  <2> QED
    BY <1>1, <1>6, <2>2 DEF InterruptEffect, At
<1> QED
  BY <1>3, <1>4, <1>5, <1>6 DEF Only

LEMMA AccountedStep ==
    ASSUME Inv, NEW p \in Procs, Effect(p)
    PROVE  Accounted'
<1>1. /\ \A k \in Calls : Alive(k) => k = task \/ k \in nested \/ Stopping(k)
      /\ task # 0 => ~At(task, "none")
      /\ task \in 0..MaxCalls /\ pending \in 0..MaxCalls
      /\ \A n \in 0..MaxCalls : n # 0 => n \in Calls
  BY Sets DEF Inv, Accounted, TypeOK
<1>2. \A k \in Calls : Stopping(k) /\ ~At(k, "over") => Stopping(k)'
  BY StoppingStays
<1>3. ASSUME NEW k \in Calls, Alive(k) => k = task \/ k \in nested \/ Stopping(k),
             Alive(k), k \in nested => k \in nested', k = task => k = task'
      PROVE  k = task' \/ k \in nested' \/ Stopping(k)'
  BY <1>2, <1>3 DEF Alive, At
\* Steps that keep the debouncer's task and wake up nobody.
<1>4. ASSUME Only(p) \/ proc' = proc, task' = task, nested \subseteq nested',
             Alive(p)' => Alive(p), ~At(p, "none"), proc'[p].pc # "none"
      PROVE  Accounted'
  <2>1. \A k \in Procs : (Alive(k)' => Alive(k)) /\ (At(k, "none")' => At(k, "none"))
    BY <1>4 DEF Only, Alive, At
  <2> QED
    BY <1>1, <1>3, <1>4, <2>1, Sets DEF Accounted, At
<1>5. CASE EnterEffect(p) \/ RefuseEffect(p) \/ PassEffect(p) \/ JoinEffect(p) \/ GatherEffect(p)
           \/ WokenEffect(p) \/ ThrowEffect(p) \/ QuitEffect(p) \/ InterruptEffect(p) \/ WakeEffect(p)
           \/ TakeEffect(p) \/ StartEffect(p) \/ EndEffect(p)
  <2>1. /\ Only(p) \/ proc' = proc
        /\ task' = task /\ nested \subseteq nested'
    BY <1>5 DEF EnterEffect, RefuseEffect, PassEffect, JoinEffect, GatherEffect, WokenEffect,
         ThrowEffect, QuitEffect, InterruptEffect, WakeEffect, TakeEffect, StartEffect, EndEffect
  <2>2. CASE InterruptEffect(p)
    BY <1>1, <1>3, <2>1, <2>2 DEF InterruptEffect, Accounted, Alive, At
  <2>3. CASE ~InterruptEffect(p)
    <3>1. Alive(p) /\ ~At(p, "none") /\ proc'[p].pc # "none"
      BY <1>5, <2>3 DEF EnterEffect, RefuseEffect, PassEffect, JoinEffect, GatherEffect, WokenEffect,
         ThrowEffect, QuitEffect, WakeEffect, TakeEffect, StartEffect, EndEffect, Alive, At, Home,
         Free, Out
    <3> QED
      BY <1>4, <2>1, <3>1
  <2> QED
    BY <2>2, <2>3
\* The task is stopped or gone.
<1>6. CASE StopEffect(p)
  <2>1. /\ Only(p) /\ At(p, "lock") /\ proc'[p].pc = "stop" /\ proc'[p].on = task /\ task' = 0
        /\ nested' = nested
    BY <1>6 DEF StopEffect
  <2>3. ASSUME NEW k \in Calls, Alive(k)' PROVE k \in nested' \/ Stopping(k)'
    <3>1. Alive(k)
      BY <2>1, <2>3, Sets DEF Only, Alive, At
    <3>2. k = task => Stopping(k)'
      BY <2>1 DEF Stopping, At
    <3> QED
      BY <1>1, <1>2, <2>1, <3>1, <3>2 DEF Alive, At
  <2> QED
    BY <2>1, <2>3 DEF Accounted
<1>7. CASE FailEffect(p) \/ ClearEffect(p)
  <2>1. /\ Only(p) /\ task \in {0, p} /\ proc[p].pc \in {"lock", "zero"} /\ task' = 0
        /\ nested' = nested /\ Free(p)
    BY <1>7 DEF FailEffect, ClearEffect, Acting
  <2>2. ASSUME NEW k \in Calls, Alive(k)' PROVE k \in nested' \/ Stopping(k)'
    <3>1. Alive(k)
      BY <2>1, <2>2, Sets DEF Only, Alive
    <3>2. k = p => k \in nested
      BY <2>1 DEF Inv, Formed, WellFormed, InCall
    <3>3. k # 0
      BY DEF Calls
    <3> QED
      BY <1>1, <1>2, <2>1, <3>1, <3>2, <3>3 DEF Alive, At
  <2> QED
    BY <2>1, <2>2 DEF Accounted
<1>8. ASSUME NEW n \in Calls, ReplaceEffect(p, n) \/ FlushEffect(p, n) PROVE Accounted'
  <2>1. /\ Both(p, n) /\ task \in {0, p} /\ proc[p].pc \in {"lock", "zero"} /\ task' = n
        /\ nested' = nested /\ proc'[n].pc # "none" /\ n \in Procs
    BY <1>8, Sets DEF ReplaceEffect, FlushEffect, Acting
  <2>2. ASSUME NEW k \in Calls, Alive(k)', k # n PROVE k \in nested' \/ Stopping(k)'
    <3>1. Alive(k)
      BY <2>1, <2>2, Sets DEF Both, Alive
    <3>2. k = p => k \in nested
      BY <2>1 DEF Inv, Formed, WellFormed, InCall
    <3>3. k # 0
      BY DEF Calls
    <3> QED
      BY <1>1, <1>2, <2>1, <3>1, <3>2, <3>3 DEF Alive, At
  <2> QED
    BY <2>1, <2>2 DEF Accounted, At
\* The task that is forgotten has ended.
<1>9. CASE RelockEffect(p)
  <2>1. /\ Only(p) /\ At(p, "relock") /\ Out(p) /\ nested' = nested
        /\ task' = IF task = proc[p].on THEN 0 ELSE task
    BY <1>9 DEF RelockEffect
  <2>2. Ended(proc[p].on)
    BY <2>1 DEF Inv, Foreground
  <2>3. ASSUME NEW k \in Calls, Alive(k)' PROVE k = task' \/ k \in nested' \/ Stopping(k)'
    <3>1. Alive(k)
      BY <2>1, <2>3, Sets DEF Only, Alive, At
    <3>2. k # proc[p].on
      BY <2>2, <3>1 DEF Ended, Alive
    <3> QED
      BY <1>1, <1>3, <2>1, <3>1, <3>2
  <2>4. task' # 0 => ~At(task, "none")' 
    <3>1. proc'[p].pc # "none"
      BY <2>1 DEF Out, Free, Home
    <3> QED
      BY <1>1, <2>1, <3>1, Sets DEF Only, At
  <2> QED
    BY <2>3, <2>4 DEF Accounted
<1>10. CASE FinishEffect(p)
  <2>1. /\ Only(p) /\ At(p, "done") /\ proc'[p].pc = "over" /\ nested' = nested
        /\ task' = IF task = p THEN 0 ELSE task
    BY <1>10 DEF FinishEffect
  <2>2. ASSUME NEW k \in Calls, Alive(k)' PROVE k = task' \/ k \in nested' \/ Stopping(k)'
    <3>1. Alive(k) /\ k # p
      BY <2>1, <2>2, Sets DEF Only, Alive, At
    <3> QED
      BY <1>1, <1>3, <2>1, <3>1
  <2>3. task' # 0 => ~At(task, "none")' 
    BY <1>1, <2>1, Sets DEF Only, At
  <2> QED
    BY <2>2, <2>3 DEF Accounted
<1> QED
  BY <1>5, <1>6, <1>7, <1>8, <1>9, <1>10 DEF Effect, CallEffect, TaskEffect

\* A task that sleeps is the debouncer's and has the pending call, or it is stopped.
LEMMA SleeperHas ==
    ASSUME Inv, NEW k \in Calls, Asleep(k)
    PROVE  (k = task /\ pending = k) \/ Stopping(k)
<1>1. k \notin nested
  BY Sets DEF Inv, Formed, WellFormed, Asleep
<1>2. Alive(k)
  BY DEF Asleep, Alive
<1>3. k = task => pending = k
  BY DEF Inv, Sleepers, Calls
<1> QED
  BY <1>1, <1>2, <1>3 DEF Inv, Accounted

\* Only a task that a wrapper creates begins to sleep; nobody vanishes.
LEMMA Awake ==
    ASSUME Inv, NEW p \in Procs, Effect(p), NEW k \in Procs
    PROVE  /\ Asleep(k)' => Asleep(k) \/ (ReplaceEffect(p, k) /\ k \in Calls)
           /\ At(k, "none")' => At(k, "none")
<1>1. CASE k = p
  BY <1>1 DEF Effect, CallEffect, TaskEffect, EnterEffect, RefuseEffect, PassEffect, JoinEffect, StopEffect,
         FailEffect, ClearEffect, GatherEffect, WokenEffect, RelockEffect, ThrowEffect, QuitEffect,
         InterruptEffect, WakeEffect, TakeEffect, StartEffect, EndEffect, FinishEffect, ReplaceEffect,
         FlushEffect, Asleep, At, Free, Out, Home
<1>2. CASE k # p /\ proc'[k] = proc[k]
  BY <1>2 DEF Asleep, At
<1>3. CASE k # p /\ proc'[k] # proc[k]
  <2>1. PICK n \in Calls : ReplaceEffect(p, n) \/ FlushEffect(p, n)
    BY <1>3 DEF Effect, CallEffect, TaskEffect, EnterEffect, RefuseEffect, PassEffect, JoinEffect,
         StopEffect, FailEffect, ClearEffect, GatherEffect, WokenEffect, RelockEffect, ThrowEffect,
         QuitEffect, InterruptEffect, WakeEffect, TakeEffect, StartEffect, EndEffect, FinishEffect, Only
  <2>2. k = n
    BY <1>3, <2>1 DEF ReplaceEffect, FlushEffect, Both
  <2> QED
    BY <2>1, <2>2 DEF ReplaceEffect, FlushEffect, Asleep, At
<1> QED
  BY <1>1, <1>2, <1>3

LEMMA PendingStep ==
    ASSUME Inv, NEW p \in Procs, Effect(p), task' # 0, Asleep(task)'
    PROVE  pending' = task'
<1>1. /\ task \in 0..MaxCalls /\ \A n \in 0..MaxCalls : n # 0 => n \in Calls /\ n \in Procs
      /\ task # 0 /\ Asleep(task) => pending = task
  BY Sets DEF Inv, TypeOK, Sleepers
<1>2. CASE task' # task
  <2>1. PICK n \in Calls : ReplaceEffect(p, n) \/ FlushEffect(p, n)
    BY <1>2 DEF Effect, CallEffect, TaskEffect, EnterEffect, RefuseEffect, PassEffect, JoinEffect,
         StopEffect, FailEffect, ClearEffect, GatherEffect, WokenEffect, RelockEffect, ThrowEffect,
         QuitEffect, InterruptEffect, WakeEffect, TakeEffect, StartEffect, EndEffect, FinishEffect
  <2>2. FlushEffect(p, n) => task' = n /\ proc'[n].pc = "start"
    BY DEF FlushEffect
  <2>3. ~FlushEffect(p, n)
    BY <2>2 DEF Asleep
  <2> QED
    BY <2>1, <2>3 DEF ReplaceEffect
<1>3. CASE task' = task /\ \E n \in Calls : ReplaceEffect(p, n)
  BY <1>3 DEF ReplaceEffect
<1>4. CASE task' = task /\ ~(\E n \in Calls : ReplaceEffect(p, n))
  <2>1. \A k \in Procs : Asleep(k)' => Asleep(k)
    BY <1>4, Awake
  <2>2. Asleep(task)
    BY <1>1, <1>4, <2>1 DEF Asleep
  <2>3. pending = task /\ task \in Calls
    BY <1>1, <1>4, <2>2
  <2>4. CASE TakeEffect(p)
    <3>1. p \in Calls /\ Asleep(p) /\ HasLock(p) /\ At(p, "take") /\ ~Asleep(p)'
      BY <2>4 DEF TakeEffect, Asleep, At
    <3>2. ~Stopping(p)
      BY <3>1, OneStops DEF Stopping, At
    <3>3. task = p
      BY <3>1, <3>2, SleeperHas
    <3> QED
      BY <1>4, <3>1, <3>3 DEF Asleep
  <2>5. CASE ~TakeEffect(p)
    <3>1. pending' = pending \/ task' = 0 \/ \E n \in Calls : FlushEffect(p, n)
      BY <1>4, <2>5 DEF Effect, CallEffect, TaskEffect, EnterEffect, RefuseEffect, PassEffect, JoinEffect,
         StopEffect, FailEffect, ClearEffect, GatherEffect, WokenEffect, RelockEffect, ThrowEffect,
         QuitEffect, InterruptEffect, WakeEffect, StartEffect, EndEffect, FinishEffect
    <3>2. ASSUME NEW n \in Calls, FlushEffect(p, n) PROVE FALSE
      <4>1. task' = n /\ proc'[n].pc = "start"
        BY <3>2 DEF FlushEffect
      <4> QED
        BY <4>1 DEF Asleep
    <3> QED
      BY <1>4, <2>3, <3>1, <3>2
  <2> QED
    BY <2>4, <2>5
<1> QED
  BY <1>2, <1>3, <1>4

LEMMA CancelStep ==
    ASSUME Inv, NEW p \in Procs, Effect(p), NEW k \in Calls, k \in cancel'
    PROVE  ~At(k, "none")' /\ (Asleep(k)' => Stopping(k)')
<1>1. /\ k \in cancel => ~At(k, "none") /\ (Asleep(k) => Stopping(k))
      /\ k \in Procs
  BY Sets DEF Inv, Sleepers
<1>2. ASSUME ~At(k, "none"), Asleep(k) => Stopping(k)
      PROVE  ~At(k, "none")' /\ (Asleep(k)' => Stopping(k)')
  <2>1. ~At(k, "none")'
    BY <1>1, <1>2, Awake
  <2>2. Asleep(k)' => Asleep(k)
    BY <1>1, <1>2, Awake DEF ReplaceEffect
  <2>3. Asleep(k) => ~At(k, "over")
    BY DEF Asleep, At
  <2> QED
    BY <1>2, <2>1, <2>2, <2>3, StoppingStays
<1>3. CASE k \in cancel
  BY <1>1, <1>2, <1>3
<1>4. CASE k \notin cancel /\ StopEffect(p)
  <2>1. k = task /\ proc'[p].pc = "stop" /\ proc'[p].on = k
    BY <1>4 DEF StopEffect
  <2>2. Stopping(k)'
    BY <2>1 DEF Stopping, At
  <2>3. ~At(k, "none")
    BY <2>1 DEF Inv, Accounted, Calls
  <2> QED
    BY <1>1, <2>2, <2>3, Awake
<1>5. CASE k \notin cancel /\ (FailEffect(p) \/ ClearEffect(p))
  <2>1. k = p /\ Free(p)
    BY <1>5 DEF FailEffect, ClearEffect
  <2> QED
    BY <2>1 DEF Free, Home, Asleep, At
<1>6. CASE k \notin cancel /\ InterruptEffect(p)
  <2>1. k # p
    BY <1>6, Sets DEF InterruptEffect
  <2>2. PICK r \in Procs : proc[r].pc \in {"wait", "stop"} /\ proc[r].on = k
    BY <1>6, <2>1 DEF InterruptEffect
  <2>3. ~At(k, "none") /\ (Asleep(k) => Stopping(k))
    BY <2>2 DEF Inv, Sleepers, Stopping, At
  <2> QED
    BY <1>2, <2>3
<1>7. CASE k \notin cancel /\ ~StopEffect(p) /\ ~FailEffect(p) /\ ~ClearEffect(p) /\ ~InterruptEffect(p)
  BY <1>7 DEF Effect, CallEffect, TaskEffect, EnterEffect, RefuseEffect, PassEffect, JoinEffect,
         GatherEffect, WokenEffect, RelockEffect, ThrowEffect, QuitEffect, WakeEffect, TakeEffect,
         StartEffect, EndEffect, FinishEffect, ReplaceEffect, FlushEffect
<1> QED
  BY <1>3, <1>4, <1>5, <1>6, <1>7

LEMMA AwaitedStep ==
    ASSUME Inv, NEW p \in Procs, Effect(p), NEW q \in Procs, proc'[q].pc \in {"wait", "stop"}
    PROVE  ~At(proc[q].on, "none")' /\ (At(q, "wait")' => ~Asleep(proc[q].on)')
<1>1. CASE proc[q].pc = proc'[q].pc /\ proc[q].on = proc'[q].on
  <2> PICK k : k = proc[q].on
    OBVIOUS
  <2>1. k \in Calls /\ k \in Procs /\ ~At(k, "none") /\ (At(q, "wait") => ~Asleep(k))
    <3>1. k \in 0..MaxCalls /\ k # 0
      BY <1>1, Fields DEF Inv, Formed, WellFormed
    <3> QED
      BY <1>1, <3>1, Sets DEF Inv, Sleepers, At
  <2>2. ~At(k, "none")' /\ (Asleep(k)' => Asleep(k))
    BY <2>1, Awake DEF ReplaceEffect
  <2> QED
    BY <1>1, <2>1, <2>2 DEF At, Asleep
<1>2. CASE q = p /\ (JoinEffect(p) \/ StopEffect(p))
  <2>1. /\ task # 0 /\ task \in Calls /\ task \in Procs /\ proc'[q].on = task
        /\ task' = task \/ proc'[q].pc = "stop"
        /\ Only(p) /\ p # task
    <3>1. task \in 0..MaxCalls
      BY DEF Inv, TypeOK
    <3> QED
      BY <1>2, <3>1, Sets DEF JoinEffect, StopEffect
  <2>2. ~At(task, "none")
    BY <2>1 DEF Inv, Accounted
  <2>3. CASE JoinEffect(p)
    <3>1. ~Asleep(task)
      BY <2>1, <2>3 DEF JoinEffect, Inv, Sleepers
    <3>2. proc'[task] = proc[task]
      BY <2>1 DEF Only
    <3> QED
      BY <2>1, <2>2, <3>1, <3>2 DEF At, Asleep
  <2>4. CASE StopEffect(p)
    <3>1. proc'[task] = proc[task] /\ proc'[q].pc = "stop"
      BY <1>2, <2>1, <2>4 DEF Only, StopEffect
    <3> QED
      BY <2>1, <2>2, <3>1 DEF At
  <2> QED
    BY <1>2, <2>3, <2>4
<1>3. ASSUME NEW n \in Calls, FlushEffect(p, n), q = p
      PROVE  ~At(proc[q].on, "none")' /\ (At(q, "wait")' => ~Asleep(proc[q].on)')
  BY <1>3 DEF FlushEffect, At, Asleep
<1>4. CASE ~(proc[q].pc = proc'[q].pc /\ proc[q].on = proc'[q].on)
  <2>1. CASE q = p
    <3>1. JoinEffect(p) \/ StopEffect(p) \/ \E n \in Calls : FlushEffect(p, n)
      BY <1>4, <2>1 DEF Effect, CallEffect, TaskEffect, EnterEffect, RefuseEffect, PassEffect,
         FailEffect, ClearEffect, GatherEffect, WokenEffect, RelockEffect, ThrowEffect, QuitEffect,
         InterruptEffect, WakeEffect, TakeEffect, StartEffect, EndEffect, FinishEffect, ReplaceEffect,
         Free, Out, Home
    <3> QED
      BY <1>2, <1>3, <2>1, <3>1
  <2>2. CASE q # p
    <3>1. PICK n \in Calls : ReplaceEffect(p, n) \/ FlushEffect(p, n)
      BY <1>4, <2>2 DEF Effect, CallEffect, TaskEffect, EnterEffect, RefuseEffect, PassEffect, JoinEffect,
         StopEffect, FailEffect, ClearEffect, GatherEffect, WokenEffect, RelockEffect, ThrowEffect,
         QuitEffect, InterruptEffect, WakeEffect, TakeEffect, StartEffect, EndEffect, FinishEffect, Only
    <3>2. q = n
      BY <1>4, <2>2, <3>1 DEF ReplaceEffect, FlushEffect, Both
    <3> QED
      BY <3>1, <3>2 DEF ReplaceEffect, FlushEffect
  <2> QED
    BY <2>1, <2>2
<1> QED
  BY <1>1, <1>4

LEMMA SleepersStep ==
    ASSUME Inv, NEW p \in Procs, Effect(p)
    PROVE  Sleepers'
<1>1. task' # 0 /\ Asleep(task)' => pending' = task'
  BY PendingStep
<1>2. \A k \in Calls : k \in cancel' => ~At(k, "none")' /\ (Asleep(k)' => Stopping(k)')
  BY CancelStep
<1>3. \A q \in Procs : proc'[q].pc \in {"wait", "stop"} =>
        ~At(proc[q].on, "none")' /\ (At(q, "wait")' => ~Asleep(proc[q].on)')
  BY AwaitedStep
<1> QED
  BY <1>1, <1>2, <1>3 DEF Sleepers, At

\* A pending call keeps its task, or somebody replaces it.
LEMMA StrandedStep ==
    ASSUME Inv, NEW p \in Procs, Effect(p)
    PROVE  NothingStranded'
<1> DEFINE Kept == task = pending /\ Asleep(task)
           Busy == \E q \in Procs : proc[q].pc \in {"stop", "zero"}
<1>1. /\ pending \notin orphans \union {0} => Kept \/ Busy
      /\ task \in 0..MaxCalls /\ pending \in 0..MaxCalls
      /\ \A n \in 0..MaxCalls : n # 0 => n \in Calls
  BY Sets DEF Inv, TypeOK, NothingStranded, Asleep
<1>2. SUFFICES ASSUME pending' \notin orphans' \union {0} PROVE Kept' \/ Busy'
  BY DEF NothingStranded, Asleep
<1>3. CASE StopEffect(p) \/ GatherEffect(p)
  BY <1>3 DEF StopEffect, GatherEffect
<1>4. ASSUME NEW n \in Calls, ReplaceEffect(p, n) PROVE Kept'
  BY <1>4 DEF ReplaceEffect, Asleep
<1>5. CASE FailEffect(p) \/ ClearEffect(p) \/ TakeEffect(p) \/ \E n \in Calls : FlushEffect(p, n)
  <2>1. pending' \in orphans' \union {0}
    <3>1. CASE FailEffect(p)
      BY <3>1 DEF FailEffect, Acting, Inv, Formed, WellFormed, InCall, TypeOK, Ops
    <3> QED
      BY <1>5, <3>1 DEF ClearEffect, TakeEffect, FlushEffect
  <2> QED
    BY <1>2, <2>1
<1>6. CASE \/ EnterEffect(p) \/ RefuseEffect(p) \/ PassEffect(p) \/ JoinEffect(p) \/ WokenEffect(p)
           \/ RelockEffect(p) \/ ThrowEffect(p) \/ QuitEffect(p) \/ InterruptEffect(p) \/ WakeEffect(p)
           \/ StartEffect(p) \/ EndEffect(p) \/ FinishEffect(p)
  <2>1. /\ Only(p) \/ proc' = proc
        /\ pending' = pending /\ orphans \subseteq orphans'
    BY <1>6 DEF EnterEffect, RefuseEffect, PassEffect, JoinEffect, WokenEffect, RelockEffect, ThrowEffect,
         QuitEffect, InterruptEffect, WakeEffect, StartEffect, EndEffect, FinishEffect
  <2>2. pending \notin orphans \union {0}
    BY <1>2, <2>1
  <2>3. CASE Busy /\ ~ThrowEffect(p)
    <3>1. PICK q \in Procs : proc[q].pc \in {"stop", "zero"}
      BY <2>3
    <3>2. q = p => InterruptEffect(p)
      BY <1>6, <2>3, <3>1 DEF EnterEffect, RefuseEffect, PassEffect, JoinEffect, WokenEffect, RelockEffect,
         QuitEffect, WakeEffect, StartEffect, EndEffect, FinishEffect, At, Home
    <3>3. proc'[q] = proc[q]
      BY <2>1, <3>2 DEF Only, InterruptEffect
    <3> QED
      BY <3>1, <3>3
  <2>4. CASE Busy /\ ThrowEffect(p)
    <3>1. PICK q \in Procs : proc[q].pc \in {"stop", "zero"}
      BY <2>4
    <3>2. CASE q # p
      BY <2>1, <2>4, <3>1, <3>2 DEF Only, ThrowEffect
    <3>3. CASE q = p
      <4>1. proc[p].op # "wrapper" => pending = 0
        BY <3>1, <3>3 DEF Inv, LockHeld
      <4>2. proc[p].op = "wrapper"
        BY <2>2, <4>1
      <4>3. pending \in orphans'
        BY <2>2, <2>4, <3>1, <3>3, <4>2 DEF ThrowEffect
      <4> QED
        BY <1>2, <2>1, <4>3
    <3> QED
      BY <3>2, <3>3
  <2>5. CASE Kept /\ ~Busy
    <3>1. task \in Calls /\ task \in Procs /\ pending = task
      BY <1>1, <2>2, <2>5, Sets
    <3>2. ~QuitEffect(p) \/ p # task
      <4>1. ~Stopping(task)
        BY <2>5 DEF Stopping, At
      <4>2. task \notin cancel
        BY <2>5, <3>1, <4>1 DEF Inv, Sleepers
      <4> QED
        BY <4>2 DEF QuitEffect
    <3>3. task' = task
      <4>1. CASE RelockEffect(p)
        <5>1. Ended(proc[p].on)
          BY <4>1 DEF RelockEffect, Inv, Foreground
        <5>2. proc[p].on # task
          BY <2>5, <5>1 DEF Ended, Asleep
        <5> QED
          BY <4>1, <5>2 DEF RelockEffect
      <4>2. CASE FinishEffect(p)
        BY <2>5, <4>2 DEF FinishEffect, Asleep, At
      <4> QED
        BY <1>6, <4>1, <4>2 DEF EnterEffect, RefuseEffect, PassEffect, JoinEffect, WokenEffect,
         ThrowEffect, QuitEffect, InterruptEffect, WakeEffect, StartEffect, EndEffect
    <3>4. Asleep(task)'
      <4>1. CASE p = task
        <5>1. WakeEffect(p) \/ InterruptEffect(p)
          BY <1>6, <2>5, <3>2, <4>1 DEF EnterEffect, RefuseEffect, PassEffect, JoinEffect, WokenEffect,
             RelockEffect, ThrowEffect, StartEffect, EndEffect, FinishEffect, Asleep, At, Home
        <5> QED
          BY <2>5, <3>3, <4>1, <5>1 DEF WakeEffect, InterruptEffect, Asleep
      <4>2. CASE p # task
        <5>1. proc'[task] = proc[task]
          BY <2>1, <3>1, <4>2 DEF Only
        <5> QED
          BY <2>5, <3>3, <5>1 DEF Asleep
      <4> QED
        BY <4>1, <4>2
    <3> QED
      BY <2>1, <3>1, <3>3, <3>4
  <2> QED
    BY <1>1, <2>2, <2>3, <2>4, <2>5
<1> QED
  BY <1>3, <1>4, <1>5, <1>6 DEF Effect, CallEffect, TaskEffect

\* How a task ended stays; what is over stays over.
LEMMA EndedStays ==
    ASSUME Inv, NEW p \in Procs, Effect(p), NEW k \in Procs, Ended(k)
    PROVE  /\ Ended(k)' /\ proc'[k].end = proc[k].end
           /\ At(k, "over") => At(k, "over")'
           /\ At(k, "done") => At(k, "done")' \/ (k = p /\ FinishEffect(p))
<1>1. CASE proc'[k] = proc[k]
  BY <1>1 DEF Ended, At
<1>2. CASE k # p /\ proc'[k] # proc[k]
  <2>1. PICK n \in Calls : ReplaceEffect(p, n) \/ FlushEffect(p, n)
    BY <1>2 DEF Effect, CallEffect, TaskEffect, EnterEffect, RefuseEffect, PassEffect, JoinEffect,
         StopEffect, FailEffect, ClearEffect, GatherEffect, WokenEffect, RelockEffect, ThrowEffect,
         QuitEffect, InterruptEffect, WakeEffect, TakeEffect, StartEffect, EndEffect, FinishEffect, Only
  <2>2. k = n /\ At(n, "none")
    BY <1>2, <2>1 DEF ReplaceEffect, FlushEffect, Both
  <2> QED
    BY <2>2 DEF Ended, At
<1>3. CASE k = p /\ proc'[k] # proc[k]
  <2>1. FinishEffect(p)
    BY <1>3 DEF Effect, CallEffect, TaskEffect, EnterEffect, RefuseEffect, PassEffect, JoinEffect,
         StopEffect, FailEffect, ClearEffect, GatherEffect, WokenEffect, RelockEffect, ThrowEffect,
         QuitEffect, InterruptEffect, WakeEffect, TakeEffect, StartEffect, EndEffect,
         ReplaceEffect, FlushEffect, Acting, At, Home, Ended
  <2> QED
    BY <1>3, <2>1 DEF FinishEffect, Ended, At
<1> QED
  BY <1>1, <1>2, <1>3

LEMMA Grows ==
    ASSUME Inv, NEW p \in Procs, Effect(p)
    PROVE  nested \subseteq nested' /\ reported \subseteq reported' /\ hushed \subseteq hushed'
  BY DEF Effect, CallEffect, TaskEffect, EnterEffect, RefuseEffect, PassEffect, JoinEffect,
         StopEffect, FailEffect, ClearEffect, GatherEffect, WokenEffect, RelockEffect, ThrowEffect,
         QuitEffect, InterruptEffect, WakeEffect, TakeEffect, StartEffect, EndEffect, FinishEffect,
         ReplaceEffect, FlushEffect

\* A task waits for what it awaits until it wakes, and then for the lock.
LEMMA AwaitStays ==
    ASSUME Inv, NEW p \in Procs, Effect(p), NEW q \in Procs, proc[q].pc \in {"wait", "relock"}
    PROVE  \/ proc'[q] = proc[q]
           \/ q = p /\ (WokenEffect(p) \/ RelockEffect(p) \/ ThrowEffect(p))
<1>1. CASE q # p /\ proc'[q] # proc[q]
  <2>1. PICK n \in Calls : ReplaceEffect(p, n) \/ FlushEffect(p, n)
    BY <1>1 DEF Effect, CallEffect, TaskEffect, EnterEffect, RefuseEffect, PassEffect, JoinEffect,
         StopEffect, FailEffect, ClearEffect, GatherEffect, WokenEffect, RelockEffect, ThrowEffect,
         QuitEffect, InterruptEffect, WakeEffect, TakeEffect, StartEffect, EndEffect, FinishEffect, Only
  <2>2. q = n /\ At(n, "none")
    BY <1>1, <2>1 DEF ReplaceEffect, FlushEffect, Both
  <2> QED
    BY <2>2 DEF At
<1>2. CASE q = p /\ proc'[q] # proc[q]
  BY <1>2 DEF Effect, CallEffect, TaskEffect, EnterEffect, RefuseEffect, PassEffect, JoinEffect,
         StopEffect, FailEffect, ClearEffect, GatherEffect,
         QuitEffect, InterruptEffect, WakeEffect, TakeEffect, StartEffect, EndEffect, FinishEffect,
         ReplaceEffect, FlushEffect, Acting, At, Home
<1> QED
  BY <1>1, <1>2

LEMMA HeardStays ==
    ASSUME Inv, NEW p \in Procs, Effect(p), NEW k \in Calls, Failed(k), Heard(k)
    PROVE  Heard(k)'
<1>1. CASE k \in reported \union hushed
  BY <1>1, Grows DEF Heard
<1>2. CASE \E q \in Procs : proc[q].pc \in {"wait", "relock"} /\ proc[q].on = k
  <2>1. PICK q \in Procs : proc[q].pc \in {"wait", "relock"} /\ proc[q].on = k
    BY <1>2
  <2>2. CASE proc'[q] = proc[q]
    BY <2>1, <2>2 DEF Heard
  <2>3. CASE q = p /\ WokenEffect(p)
    <3>1. proc'[q].pc = "relock" /\ proc'[q].on = k
      BY <2>1, <2>3 DEF WokenEffect
    <3> QED
      BY <3>1 DEF Heard
  <2>4. CASE q = p /\ RelockEffect(p)
    <3>1. proc[p].end = "raised" \/ k \in hushed
      BY <2>1, <2>4 DEF RelockEffect, Inv, Foreground, Failed
    <3> QED
      BY <2>1, <2>4, <3>1, Grows DEF RelockEffect, Heard
  <2>5. CASE q = p /\ ThrowEffect(p)
    <3>1. At(p, "relock")
      BY <2>1, <2>5 DEF ThrowEffect, At
    <3> QED
      BY <2>1, <2>5, <3>1 DEF ThrowEffect, Heard
  <2> QED
    BY <2>1, <2>2, <2>3, <2>4, <2>5, AwaitStays
<1> QED
  BY <1>1, <1>2 DEF Heard

LEMMA ForegroundStep ==
    ASSUME Inv, NEW p \in Procs, Effect(p)
    PROVE  Foreground'
<1>1. ASSUME NEW k \in foreground'
      PROVE  \E q \in Procs : At(q, "wait")' /\ proc'[q].on = k
  <2>1. CASE k \in foreground
    <3>1. PICK q \in Procs : At(q, "wait") /\ proc[q].on = k
      BY <2>1 DEF Inv, Foreground
    <3>2. ~(q = p /\ WokenEffect(p))
      BY <1>1, <3>1 DEF WokenEffect
    <3>3. proc'[q] = proc[q]
      BY <3>1, <3>2, AwaitStays DEF RelockEffect, ThrowEffect, At
    <3> QED
      BY <3>1, <3>3 DEF At
  <2>2. CASE k \notin foreground
    <3>1. JoinEffect(p) \/ \E n \in Calls : FlushEffect(p, n)
      BY <1>1, <2>2 DEF Effect, CallEffect, TaskEffect, EnterEffect, RefuseEffect, PassEffect,
         StopEffect, FailEffect, ClearEffect, GatherEffect, WokenEffect, RelockEffect, ThrowEffect,
         QuitEffect, InterruptEffect, WakeEffect, TakeEffect, StartEffect, EndEffect, FinishEffect,
         ReplaceEffect
    <3>2. proc'[p].pc = "wait" /\ proc'[p].on = k
      BY <1>1, <2>2, <3>1 DEF JoinEffect, FlushEffect
    <3> QED
      BY <3>2 DEF At
  <2> QED
    BY <2>1, <2>2
<1>2. ASSUME NEW q \in Procs, At(q, "relock")'
      PROVE  /\ Ended(proc[q].on)'
             /\ proc'[q].end = proc'[proc'[q].on].end \/ proc'[q].on \in hushed'
  <2>1. PICK k : k = proc'[q].on
    OBVIOUS
  <2>2. SUFFICES k \in Procs /\ Ended(k) /\ (proc'[q].end = proc[k].end \/ k \in hushed')
    <3>1. Ended(k)' /\ proc'[k].end = proc[k].end
      BY <2>2, EndedStays
    <3> QED
      BY <2>1, <2>2, <3>1 DEF Ended
  <2>3. CASE proc'[q] = proc[q]
    <3>1. At(q, "relock") /\ k = proc[q].on
      BY <1>2, <2>1, <2>3 DEF At
    <3>2. k \in Procs
      <4>1. k \in 0..MaxCalls /\ k # 0
        BY <3>1, Fields DEF Inv, Formed, WellFormed, At
      <4> QED
        BY <4>1, Sets
    <3> QED
      BY <2>3, <3>1, <3>2, Grows DEF Inv, Foreground
  <2>4. CASE proc'[q] # proc[q]
    <3>1. q = p /\ (JoinEffect(p) \/ WokenEffect(p))
      <4>1. q # p => \E n \in Calls : ReplaceEffect(p, n) \/ FlushEffect(p, n)
        BY <2>4 DEF Effect, CallEffect, TaskEffect, EnterEffect, RefuseEffect, PassEffect, JoinEffect,
         StopEffect, FailEffect, ClearEffect, GatherEffect, WokenEffect, RelockEffect, ThrowEffect,
         QuitEffect, InterruptEffect, WakeEffect, TakeEffect, StartEffect, EndEffect, FinishEffect, Only
      <4>2. q = p
        BY <1>2, <2>4, <4>1 DEF ReplaceEffect, FlushEffect, Both, At
      <4> QED
        BY <1>2, <2>4, <4>2 DEF Effect, CallEffect, TaskEffect, EnterEffect, RefuseEffect, PassEffect,
         StopEffect, FailEffect, ClearEffect, GatherEffect, RelockEffect, ThrowEffect,
         QuitEffect, InterruptEffect, WakeEffect, TakeEffect, StartEffect, EndEffect, FinishEffect,
         ReplaceEffect, FlushEffect, At, Free, Out, Home
    <3>2. CASE JoinEffect(p)
      <4>1. proc'[p].on = task /\ task \in Procs /\ Ended(task) /\ proc'[p].end = proc[task].end
        <5>1. task \in 0..MaxCalls
          BY DEF Inv, TypeOK
        <5> QED
          BY <1>2, <3>1, <3>2, <5>1, Sets DEF JoinEffect, At
      <4> QED
        BY <2>1, <3>1, <4>1
    <3>3. CASE WokenEffect(p)
      <4>1. k = proc[p].on /\ At(k, "over") /\ (proc'[p].end = proc[k].end \/ k \in hushed')
        BY <2>1, <3>1, <3>3 DEF WokenEffect
      <4>2. k \in 0..MaxCalls /\ k # 0
        BY <3>3, <4>1, Fields DEF Inv, Formed, WellFormed, WokenEffect, At
      <4> QED
        BY <3>1, <4>1, <4>2, Sets DEF Ended, At
    <3> QED
      BY <3>1, <3>2, <3>3
  <2> QED
    BY <2>3, <2>4
<1> QED
  BY <1>1, <1>2 DEF Foreground

\* Besides the task that steps, only a new task changes.
LEMMA Others ==
    ASSUME Inv, NEW p \in Procs, Effect(p), NEW q \in Procs, q # p
    PROVE  proc'[q] = proc[q] \/ (q \in Calls /\ (ReplaceEffect(p, q) \/ FlushEffect(p, q)))
<1>1. CASE \E n \in Calls : ReplaceEffect(p, n) \/ FlushEffect(p, n)
  BY <1>1 DEF ReplaceEffect, FlushEffect, Both
<1>2. CASE ~\E n \in Calls : ReplaceEffect(p, n) \/ FlushEffect(p, n)
  BY <1>2 DEF Effect, CallEffect, TaskEffect, EnterEffect, RefuseEffect, PassEffect, JoinEffect,
     StopEffect, FailEffect, ClearEffect, GatherEffect, WokenEffect, RelockEffect, ThrowEffect,
     QuitEffect, InterruptEffect, WakeEffect, TakeEffect, StartEffect, EndEffect, FinishEffect, Only
<1> QED
  BY <1>1, <1>2

\* The failure that is kept is that of a task that is over.
LEMMA KeptStep ==
    ASSUME Inv, NEW p \in Procs, Effect(p), failure' # 0
    PROVE  At(failure, "over")' /\ Failed(failure)'
<1>1. CASE failure' = failure
  <2>1. failure \in Procs /\ At(failure, "over") /\ Failed(failure)
    BY <1>1, Sets DEF Inv, Failures, TypeOK
  <2>2. PICK f \in Procs : f = failure
    BY <2>1
  <2>3. At(f, "over")' /\ proc'[f].end = "raised"
    BY <2>1, <2>2, EndedStays DEF Failed
  <2> QED
    BY <1>1, <2>2, <2>3 DEF At, Failed, Ended
<1>2. CASE failure' # failure
  <2>1. FinishEffect(p) /\ failure' = p /\ proc[p].end = "raised"
    BY <1>2 DEF Effect, CallEffect, TaskEffect, EnterEffect, RefuseEffect, PassEffect, JoinEffect,
       StopEffect, FailEffect, ClearEffect, GatherEffect, WokenEffect, RelockEffect, ThrowEffect,
       QuitEffect, InterruptEffect, WakeEffect, TakeEffect, StartEffect, EndEffect, FinishEffect,
       ReplaceEffect, FlushEffect
  <2> QED
    BY <2>1 DEF FinishEffect, At, Failed, Ended
<1> QED
  BY <1>1, <1>2

\* A task that failed is the debouncer's, stopped, awaited, or called the debouncer.
LEMMA FailedStep ==
    ASSUME Inv, NEW p \in Procs, Effect(p), NEW k \in Calls, At(k, "done")', Failed(k)'
    PROVE  k = task' \/ k \in nested' \/ Stopping(k)' \/ Heard(k)'
<1>1. k \in Procs
  BY Sets
<1>2. CASE At(k, "done")
  <2>1. Ended(k) /\ Failed(k) /\ ~At(k, "over")
    <3>1. Ended(k)
      BY <1>2 DEF At, Ended
    <3> QED
      BY <1>1, <1>2, <3>1, EndedStays DEF Failed, At
  <2>2. k = task \/ k \in nested \/ Stopping(k) \/ Heard(k)
    BY <1>2, <2>1 DEF Inv, Failures
  <2>3. CASE k \in nested \/ Stopping(k) \/ Heard(k)
    BY <2>1, <2>3, Grows, StoppingStays, HeardStays
  <2>4. CASE k = task /\ task' # task
    <3>1. ~FinishEffect(p)
      BY <1>2, <2>4 DEF FinishEffect, At
    <3>2. CASE StopEffect(p)
      BY <2>4, <3>2 DEF StopEffect, Stopping, At
    <3>3. CASE RelockEffect(p)
      <4>1. Heard(k)
        BY <2>4, <3>3 DEF RelockEffect, Heard, At
      <4> QED
        BY <2>1, <4>1, HeardStays
    <3>4. CASE FailEffect(p) \/ ClearEffect(p) \/ \E n \in Calls : ReplaceEffect(p, n) \/ FlushEffect(p, n)
      <4>1. Acting(p)
        BY <3>4 DEF FailEffect, ClearEffect, ReplaceEffect, FlushEffect
      <4>2. k # 0
        BY DEF Calls
      <4> QED
        BY <1>2, <2>4, <4>1, <4>2 DEF Acting, At
    <3> QED
      BY <2>4, <3>1, <3>2, <3>3, <3>4 DEF Effect, CallEffect, TaskEffect, EnterEffect, RefuseEffect,
         PassEffect, JoinEffect, GatherEffect, WokenEffect, ThrowEffect,
         QuitEffect, InterruptEffect, WakeEffect, TakeEffect, StartEffect, EndEffect
  <2> QED
    BY <2>2, <2>3, <2>4
<1>3. CASE ~At(k, "done")
  <2>1. k = p
    <3>1. proc'[k] # proc[k]
      BY <1>3 DEF At
    <3> QED
      BY <1>1, <3>1, Others DEF ReplaceEffect, FlushEffect, At
  <2>2. proc'[p].end = "raised"
    BY <2>1 DEF Failed
  <2>3. RelockEffect(p) \/ ThrowEffect(p) \/ EndEffect(p)
    BY <1>3, <2>1, <2>2 DEF Effect, CallEffect, TaskEffect, EnterEffect, RefuseEffect, PassEffect,
       JoinEffect, StopEffect, FailEffect, ClearEffect, GatherEffect, WokenEffect,
       QuitEffect, InterruptEffect, WakeEffect, TakeEffect, StartEffect, FinishEffect,
       ReplaceEffect, FlushEffect, At, Free, Home
  <2>4. CASE proc[p].pc \in InCall
    BY <1>1, <2>1, <2>4, Grows DEF Inv, Formed, WellFormed
  <2>5. CASE proc[p].pc \notin InCall
    <3>1. At(p, "func") /\ task' = task
      BY <2>3, <2>5 DEF RelockEffect, ThrowEffect, EndEffect, InCall, At
    <3>2. k = task \/ k \in nested \/ Stopping(k)
      BY <2>1, <3>1 DEF Inv, Accounted, Alive, At
    <3>3. ~At(k, "over")
      BY <2>1, <3>1 DEF At
    <3> QED
      BY <3>1, <3>2, <3>3, Grows, StoppingStays
  <2> QED
    BY <2>4, <2>5
<1> QED
  BY <1>2, <1>3

\* A task that comes to be present was created by this step.
LEMMA Created ==
    ASSUME Inv, NEW p \in Procs, Effect(p), NEW k \in Calls, Present(k)', ~Present(k)
    PROVE  k # p /\ (ReplaceEffect(p, k) \/ FlushEffect(p, k))
<1>1. k \in Procs
  BY Sets
<1>2. At(k, "none")
  <2>1. ~At(k, "over")
    BY <1>1, EndedStays DEF Present, At, Ended
  <2> QED
    BY <2>1 DEF Present, At
<1>3. CASE k = p
  BY <1>2, <1>3 DEF Effect, CallEffect, TaskEffect, EnterEffect, RefuseEffect, PassEffect, JoinEffect,
     StopEffect, FailEffect, ClearEffect, GatherEffect, WokenEffect, RelockEffect, ThrowEffect,
     QuitEffect, InterruptEffect, WakeEffect, TakeEffect, StartEffect, EndEffect, FinishEffect,
     ReplaceEffect, FlushEffect, Acting, At, Home, Present
<1>4. CASE k # p
  BY <1>1, <1>2, <1>4, Others DEF Present, At
<1> QED
  BY <1>3, <1>4

\* Who waits for done callbacks still does, or was cancelled.
LEMMA BehindStays ==
    ASSUME Inv, NEW p \in Procs, Effect(p), NEW j \in Calls, NEW k \in Calls,
           Behind(j, k), Present(j)', Present(k)'
    PROVE  Behind(j, k)'
<1>1. j \in Procs /\ k \in Procs /\ At(k, "done") /\ k \in proc[j].after
      /\ (proc[j].pc \in {"sleep", "start"} \/ Quit(j))
  BY Sets DEF Behind
<1>2. At(k, "done")'
  BY <1>1, EndedStays DEF At, Ended, FinishEffect, Present
<1>3. CASE proc'[j] = proc[j]
  BY <1>1, <1>2, <1>3 DEF Behind, Quit, At
<1>4. CASE proc'[j] # proc[j]
  <2>1. j = p
    BY <1>1, <1>4, Others DEF ReplaceEffect, FlushEffect, At, Quit
  <2>2. ~At(j, "done")
    BY <1>1, <1>4, <2>1, EndedStays DEF Effect, CallEffect, TaskEffect, EnterEffect, RefuseEffect,
       PassEffect, JoinEffect, StopEffect, FailEffect, ClearEffect, GatherEffect, WokenEffect,
       RelockEffect, ThrowEffect, QuitEffect, InterruptEffect, WakeEffect, TakeEffect, StartEffect,
       EndEffect, FinishEffect, ReplaceEffect, FlushEffect, Acting, At, Home, Present
  <2>3. proc[p].pc \in {"sleep", "start"}
    BY <1>1, <2>1, <2>2 DEF Quit
  <2>4. QuitEffect(p)
    BY <1>1, <1>4, <2>1, <2>3 DEF Effect, CallEffect, TaskEffect, EnterEffect, RefuseEffect,
       PassEffect, JoinEffect, StopEffect, FailEffect, ClearEffect, GatherEffect, WokenEffect,
       RelockEffect, ThrowEffect, InterruptEffect, WakeEffect, TakeEffect, StartEffect,
       EndEffect, FinishEffect, ReplaceEffect, FlushEffect, Acting, At, Home
  <2> QED
    BY <1>1, <1>2, <2>1, <2>4 DEF QuitEffect, Behind, Quit, At
<1> QED
  BY <1>3, <1>4

\* Whoever acts found no task that goes on, but those that called the debouncer.
LEMMA ActsAlone ==
    ASSUME Inv, NEW p \in Procs, Acting(p), NEW k \in Calls, Alive(k), k # p
    PROVE  k \in nested
<1>1. SUFFICES ASSUME k = task \/ Stopping(k) PROVE FALSE
  BY DEF Inv, Accounted
<1>2. k # task
  BY DEF Acting, Calls
<1>3. PICK q \in Procs : At(q, "stop") /\ proc[q].on = k
  BY <1>1, <1>2 DEF Stopping
<1>4. q = p
  BY <1>3, OneStops DEF Acting, At
<1> QED
  BY <1>3, <1>4 DEF Acting, At

\* The debouncer creates a task when the others have ended.
LEMMA CreatedBehind ==
    ASSUME Inv, NEW p \in Procs, Effect(p), nested = {}, NEW j \in Calls, NEW k \in Calls, j # k,
           ~Present(j), Present(j)', Present(k)'
    PROVE  Behind(j, k)'
<1>1. j \in Procs /\ k \in Procs /\ j # p /\ (ReplaceEffect(p, j) \/ FlushEffect(p, j))
  BY Created, Sets
<1>2. Acting(p)
  BY <1>1 DEF ReplaceEffect, FlushEffect
<1>3. k # p
  BY <1>1, <1>2 DEF Inv, Formed, WellFormed, Acting, InCall
<1>4. proc'[k] = proc[k] /\ Present(k)
  <2>1. proc'[k] = proc[k]
    BY <1>1, <1>3 DEF ReplaceEffect, FlushEffect, Both
  <2> QED
    BY <2>1 DEF Present
<1>5. ~Alive(k)
  BY <1>2, <1>3, ActsAlone
<1>6. At(k, "done")
  BY <1>4, <1>5 DEF Alive, Present, At
<1>7. k \in proc'[j].after /\ proc'[j].pc \in {"sleep", "start"}
  BY <1>1, <1>6 DEF ReplaceEffect, FlushEffect
<1> QED
  BY <1>4, <1>6, <1>7 DEF Behind, At

LEMMA BehindStep ==
    ASSUME Inv, NEW p \in Procs, Effect(p), nested' = {}, NEW j \in Calls, NEW k \in Calls, j # k,
           Present(j)', Present(k)'
    PROVE  Behind(j, k)' \/ Behind(k, j)'
<1>1. nested = {}
  BY Grows
<1>2. CASE Present(j) /\ Present(k)
  <2>1. Behind(j, k) \/ Behind(k, j)
    BY <1>1, <1>2 DEF Inv, Failures
  <2> QED
    BY <2>1, BehindStays
<1>3. CASE ~Present(j)
  BY <1>1, <1>3, CreatedBehind
<1>4. CASE ~Present(k)
  BY <1>1, <1>4, CreatedBehind
<1> QED
  BY <1>2, <1>3, <1>4

\* One task at a time is the debouncer's or is being stopped.
LEMMA OneDue ==
    ASSUME Inv, NEW j \in Calls, NEW k \in Calls,
           j = task \/ Stopping(j), k = task \/ Stopping(k)
    PROVE  j = k
<1>1. ASSUME NEW i \in Calls, Stopping(i)
      PROVE  task = 0 /\ \E q \in Procs : HasLock(q) /\ At(q, "stop") /\ proc[q].on = i
  BY <1>1 DEF Stopping, Inv, LockHeld, At
<1>2. j # 0 /\ k # 0
  BY DEF Calls
<1> QED
  BY <1>1, <1>2 DEF HasLock

\* A failure that nobody heard of leaves no task behind that could fail.
LEMMA QuietStep ==
    ASSUME Inv, NEW p \in Procs, Effect(p), nested' = {}, failure' # 0, ~Heard(failure)',
           NEW k \in Calls, Present(k)'
    PROVE  k \in foreground' \/ Quit(k)'
<1>1. nested = {} /\ k \in Procs /\ failure \in 0..MaxCalls
  BY Grows, Sets DEF Inv, TypeOK
<1>2. CASE failure' = failure
  <2>1. failure \in Calls /\ Failed(failure)
    BY <1>1, <1>2, Sets DEF Inv, Failures
  <2>2. ~Heard(failure)
    <3>1. PICK f \in Calls : f = failure
      BY <2>1
    <3>2. ~Heard(f)'
      BY <1>2, <3>1 DEF Heard
    <3> QED
      BY <2>1, <3>1, <3>2, HeardStays
  <2>3. CASE Present(k)
    <3>1. k \in foreground \/ Quit(k)
      BY <1>1, <1>2, <2>2, <2>3 DEF Inv, Failures
    <3>2. CASE Quit(k)
      BY <1>1, <3>2, EndedStays DEF Quit, Ended, At, FinishEffect, Present
    <3>3. CASE k \in foreground /\ k \notin foreground'
      <4>1. WokenEffect(p)
        BY <1>2, <3>3 DEF Effect, CallEffect, TaskEffect, EnterEffect, RefuseEffect,
           PassEffect, JoinEffect, StopEffect, FailEffect, ClearEffect, GatherEffect,
           RelockEffect, ThrowEffect, QuitEffect, InterruptEffect, WakeEffect, TakeEffect, StartEffect,
           EndEffect, FinishEffect, ReplaceEffect, FlushEffect
      <4> QED
        BY <2>3, <3>3, <4>1 DEF WokenEffect, Present, At
    <3> QED
      BY <3>1, <3>2, <3>3
  <2>4. CASE ~Present(k)
    BY <1>2, <2>4, Created DEF ReplaceEffect, FlushEffect
  <2> QED
    BY <2>3, <2>4
<1>3. CASE failure' # failure
  <2>1. FinishEffect(p) /\ failure' = p /\ proc[p].end = "raised" /\ p \in Calls
    BY <1>3 DEF Effect, CallEffect, TaskEffect, EnterEffect, RefuseEffect, PassEffect, JoinEffect,
       StopEffect, FailEffect, ClearEffect, GatherEffect, WokenEffect, RelockEffect, ThrowEffect,
       QuitEffect, InterruptEffect, WakeEffect, TakeEffect, StartEffect, EndEffect, FinishEffect,
       ReplaceEffect, FlushEffect
  <2>2. At(p, "done") /\ Failed(p)
    BY <2>1 DEF FinishEffect, Failed, Ended, At
  <2>3. ~Heard(p)
    <3>1. ~Heard(p)'
      BY <2>1 DEF Heard
    <3> QED
      BY <2>1, <2>2, <3>1, HeardStays
  <2>4. p = task \/ Stopping(p)
    BY <1>1, <2>1, <2>2, <2>3 DEF Inv, Failures
  <2>5. k # p /\ proc'[k] = proc[k] /\ Present(k)
    <3>1. k # p
      BY <2>1 DEF FinishEffect, Present
    <3>2. proc'[k] = proc[k]
      BY <1>1, <2>1, <3>1 DEF FinishEffect, Only
    <3> QED
      BY <3>1, <3>2 DEF Present
  <2>6. Behind(k, p) \/ Behind(p, k)
    <3>1. Present(p)
      BY <2>2 DEF Present, At
    <3> QED
      BY <1>1, <2>1, <2>5, <3>1 DEF Inv, Failures
  <2>7. proc[k].pc \in {"sleep", "start"} \/ Quit(k)
    BY <2>1, <2>2, <2>6 DEF Behind, Quit, At
  <2>8. proc[k].pc \notin {"sleep", "start"}
    <3>1. SUFFICES ASSUME proc[k].pc \in {"sleep", "start"} PROVE FALSE
      OBVIOUS
    <3>2. k = task \/ Stopping(k)
      BY <1>1, <3>1 DEF Inv, Accounted, Alive
    <3> QED
      BY <2>1, <2>4, <2>5, <3>2, OneDue
  <2> QED
    BY <2>5, <2>7, <2>8 DEF Quit, At
<1> QED
  BY <1>2, <1>3

LEMMA FailuresStep ==
    ASSUME Inv, NEW p \in Procs, Effect(p)
    PROVE  Failures'
<1>1. failure' # 0 => At(failure, "over")' /\ Failed(failure)'
  BY KeptStep
<1>2. \A k \in Calls : At(k, "done")' /\ Failed(k)' =>
        k = task' \/ k \in nested' \/ Stopping(k)' \/ Heard(k)'
  BY FailedStep
<1>3. nested' = {} => \A j, k \in Calls :
        Present(j)' /\ Present(k)' /\ j # k => Behind(j, k)' \/ Behind(k, j)'
  BY BehindStep
<1>4. nested' = {} /\ failure' # 0 /\ ~Heard(failure)' =>
        \A k \in Calls : Present(k)' => k \in foreground' \/ Quit(k)'
  BY QuietStep
<1> QED
  BY <1>1, <1>2, <1>3, <1>4 DEF Failures

\* A failure that is kept is not overwritten before somebody heard of it.
LEMMA HeardStep ==
    ASSUME Inv, NEW p \in Procs, Effect(p)
    PROVE  FailuresHeard'
<1>1. SUFFICES ASSUME NEW k \in Calls, Over(k)', proc'[k].end = "raised", nested' = {}
               PROVE  Heard(k)' \/ k = failure'
  BY DEF FailuresHeard, Heard
<1>2. k \in Procs /\ nested = {} /\ failure \in 0..MaxCalls
  BY <1>1, Sets, Grows DEF Inv, TypeOK
<1>3. CASE At(k, "over")
  <2>1. Failed(k)
    BY <1>1, <1>2, <1>3, EndedStays DEF Failed, Ended, At
  <2>2. Heard(k) \/ k = failure
    BY <1>2, <1>3, <2>1 DEF Inv, FailuresHeard, Over, Failed, Heard
  <2>3. CASE Heard(k)
    BY <2>1, <2>3, HeardStays
  <2>4. CASE ~Heard(k) /\ k = failure /\ failure' # failure
    <3>1. RefuseEffect(p) \/ FailEffect(p) \/ FinishEffect(p)
      BY <2>4 DEF Effect, CallEffect, TaskEffect, EnterEffect, PassEffect, JoinEffect,
         StopEffect, ClearEffect, GatherEffect, WokenEffect, RelockEffect, ThrowEffect,
         QuitEffect, InterruptEffect, WakeEffect, TakeEffect, StartEffect, EndEffect,
         ReplaceEffect, FlushEffect
    <3>2. CASE RefuseEffect(p) \/ FailEffect(p)
      BY <2>4, <3>2 DEF RefuseEffect, FailEffect, Heard
    <3>3. CASE FinishEffect(p)
      <4>1. p \in Calls /\ Present(p) /\ proc[p].end = "raised" /\ p \notin foreground
        BY <2>4, <3>3 DEF FinishEffect, Present, At
      <4>2. failure # 0
        BY <2>4 DEF Calls
      <4> QED
        BY <1>2, <2>4, <4>1, <4>2 DEF Inv, Failures, Quit
    <3> QED
      BY <3>1, <3>2, <3>3
  <2> QED
    BY <2>2, <2>3, <2>4
<1>4. CASE ~At(k, "over")
  <2>1. k = p /\ FinishEffect(p)
    <3>1. k = p
      BY <1>1, <1>2, <1>4, Others DEF ReplaceEffect, FlushEffect, Over, At
    <3> QED
      BY <1>1, <1>4, <3>1 DEF Effect, CallEffect, TaskEffect, EnterEffect, RefuseEffect,
         PassEffect, JoinEffect, StopEffect, FailEffect, ClearEffect, GatherEffect, WokenEffect,
         RelockEffect, ThrowEffect, QuitEffect, InterruptEffect, WakeEffect, TakeEffect, StartEffect,
         EndEffect, ReplaceEffect, FlushEffect, Free, Out, Home, Over, At
  <2>2. Failed(k)
    BY <1>1, <2>1 DEF FinishEffect, Failed, Ended, At
  <2>3. CASE k \in foreground
    <3>1. Heard(k)
      BY <2>3 DEF Inv, Foreground, Heard, At
    <3> QED
      BY <2>2, <3>1, HeardStays
  <2>4. CASE k \notin foreground
    BY <2>1, <2>2, <2>4 DEF FinishEffect, Failed
  <2> QED
    BY <2>3, <2>4
<1> QED
  BY <1>3, <1>4

\* What a step delivers was in one hand, and had not been delivered.
LEMMA DeliveredStep ==
    ASSUME Inv, NEW p \in Procs, Effect(p)
    PROVE  DeliveredOnce'
<1>1. started \in [Calls -> Nat] /\ \A c \in Calls : started[c] <= 1
  BY DEF Inv, TypeOK, DeliveredOnce
<1>2. SUFFICES \A c \in Calls : started'[c] <= 1
  BY DEF DeliveredOnce
<1>3. CASE started' = started
  BY <1>1, <1>3
<1>4. CASE started' # started
  <2>1. \E g \in 0..MaxCalls : Undelivered(g) /\ started' = [started EXCEPT ![g] = @ + 1]
    <3>1. CASE TakeEffect(p)
      <4>1. pending \in 0..MaxCalls /\ pending # 0 /\ started' = [started EXCEPT ![pending] = @ + 1]
        BY <1>4, <3>1 DEF TakeEffect, Inv, TypeOK
      <4> QED
        BY <4>1 DEF Inv, InHand
    <3>2. CASE StartEffect(p)
      <4>1. /\ proc[p].got \in 0..MaxCalls /\ Holds(p, proc[p].got)
            /\ started' = [started EXCEPT ![proc[p].got] = @ + 1]
        BY <3>2, Fields DEF StartEffect, Holds, Inv
      <4> QED
        BY <4>1 DEF Inv, InHand
    <3> QED
      BY <1>4, <3>1, <3>2 DEF Effect, CallEffect, TaskEffect, EnterEffect, RefuseEffect, PassEffect,
         JoinEffect, StopEffect, FailEffect, ClearEffect, GatherEffect, WokenEffect, RelockEffect,
         ThrowEffect, QuitEffect, InterruptEffect, WakeEffect, EndEffect, FinishEffect,
         ReplaceEffect, FlushEffect
  <2>2. PICK g \in 0..MaxCalls : Undelivered(g) /\ started' = [started EXCEPT ![g] = @ + 1]
    BY <2>1
  <2>3. started[g] = 0
    BY <2>2 DEF Undelivered
  <2> QED
    BY <1>1, <2>2, <2>3
<1> QED
  BY <1>3, <1>4

-----------------------------------------------------------------------------
(* The theorems.                                                           *)

LEMMA InitInv == Init => Inv
<1> SUFFICES ASSUME Init PROVE Inv
  OBVIOUS
<1>1. /\ proc = [p \in Procs |-> Proc(IF p \in Apps THEN "idle" ELSE "none")]
      /\ task = 0 /\ pending = 0 /\ failure = 0 /\ foreground = {} /\ queue = <<>> /\ cancel = {}
      /\ calls = 0 /\ cancels = 0 /\ started = [c \in Calls |-> 0]
      /\ nested = {} /\ orphans = {} /\ reported = {} /\ hushed = {}
  BY DEF Init
<1>2. \A p \in Procs : /\ proc[p] \in ProcType /\ proc[p].pc \in {"idle", "none"}
                       /\ proc[p].op = "none"
  <2>1. TAKE p \in Procs
  <2>2. "idle" \in Steps /\ "none" \in Steps
    BY DEF Steps
  <2> QED
    BY <1>1, <2>2, NewRec
<1>3. \A c \in Calls : c \in Procs /\ At(c, "none")
  <2>1. TAKE c \in Calls
  <2>2. c \notin Apps /\ c \in Procs
    BY Sets
  <2> QED
    BY <1>1, <2>2, NewRec DEF At, Steps
<1>4. TypeOK
  BY <1>1, <1>2, Sets DEF TypeOK, ProcType
<1>5. Formed /\ LockHeld /\ DeliveredOnce
  BY <1>1, <1>2 DEF Formed, WellFormed, LockHeld, DeliveredOnce, InCall
<1>6. Numbered /\ InHand
  <2>1. \A p \in Procs : ~Entered(p) /\ \A c \in 0..MaxCalls : ~Holds(p, c)
    BY <1>2 DEF Entered, Holds, At
  <2> QED
    BY <1>1, <1>3, <2>1, Sets DEF Numbered, InHand
<1>7. Accounted /\ Sleepers /\ NothingStranded
  <2>1. \A c \in Calls : ~Alive(c)
    BY <1>3 DEF Alive, At
  <2> QED
    BY <1>1, <1>2, <2>1 DEF Accounted, Sleepers, NothingStranded, At
<1>8. Foreground /\ Failures /\ FailuresHeard
  <2>1. \A c \in Calls : ~Present(c) /\ ~At(c, "done") /\ ~At(c, "over")
    BY <1>3 DEF Present, At
  <2> QED
    BY <1>1, <1>2, <2>1 DEF Foreground, Failures, FailuresHeard, Over, At
<1> QED
  BY <1>4, <1>5, <1>6, <1>7, <1>8 DEF Inv

LEMMA StepInv == Inv /\ Next => Inv'
<1> SUFFICES ASSUME Inv, Next PROVE Inv'
  OBVIOUS
<1>1. TypeOK' /\ \E p \in Procs : Effect(p)
  BY NextHas
<1>2. PICK p \in Procs : Effect(p)
  BY <1>1
<1>3. /\ Formed' /\ LockHeld' /\ Numbered' /\ InHand' /\ DeliveredOnce'
      /\ Accounted' /\ Sleepers' /\ NothingStranded'
      /\ Foreground' /\ Failures' /\ FailuresHeard'
  BY <1>2, FormedStep, LockStep, NumberedStep, InHandStep, DeliveredStep, AccountedStep,
     SleepersStep, StrandedStep, ForegroundStep, FailuresStep, HeardStep
<1> QED
  BY <1>1, <1>3 DEF Inv

LEMMA SameInv == Inv /\ UNCHANGED vars => Inv'
<1> SUFFICES ASSUME Inv, UNCHANGED vars PROVE Inv'
  OBVIOUS
<1>1. UNCHANGED <<proc, task, pending, failure, foreground, queue, cancel, calls, cancels,
                  started, nested, orphans, reported, hushed>>
  BY DEF vars, debouncer, bounds, history
<1>2. TypeOK' /\ Formed'
  BY <1>1 DEF Inv, TypeOK, Formed, WellFormed
<1>3. LockHeld' /\ Numbered'
  BY <1>1 DEF Inv, LockHeld, HasLock, Numbered, Entered, At
<1>4. InHand' /\ DeliveredOnce'
  BY <1>1 DEF Inv, InHand, DeliveredOnce, Holds, Undelivered, Entered, At
<1>5. Accounted' /\ Sleepers' /\ NothingStranded'
  BY <1>1 DEF Inv, Accounted, Sleepers, NothingStranded, Alive, Asleep, Stopping, At
<1>6. Foreground' /\ FailuresHeard'
  BY <1>1 DEF Inv, Foreground, FailuresHeard, Ended, Over, At
<1>7. Failures'
  BY <1>1 DEF Inv, Failures, Failed, Stopping, Heard, Present, Behind, Quit, Ended, At
<1> QED
  BY <1>2, <1>3, <1>4, <1>5, <1>6, <1>7 DEF Inv

LEMMA Invariant == Spec => []Inv
<1>1. Inv /\ [Next]_vars => Inv'
  BY StepInv, SameInv
<1> QED
  BY InitInv, <1>1, PTL DEF Spec

\* The debouncer's variables, its lock and its tasks keep their types.
THEOREM TypeCorrect == Spec => []TypeOK
<1>1. Inv => TypeOK
  BY DEF Inv
<1> QED
  BY <1>1, Invariant, PTL

\* No call is delivered twice: between the task that takes the pending call, flush that
\* takes it, and the wrapper that replaces it, a call is in one place.
THEOREM DeliveredOnceHolds == Spec => []DeliveredOnce
<1>1. Inv => DeliveredOnce
  BY DEF Inv
<1> QED
  BY <1>1, Invariant, PTL

\* Callbacks overlap only when one of them called its own debouncer: a task that goes on
\* is the debouncer's, or the holder of the lock waits for it and there is no other.
THEOREM OneAtATimeHolds == Spec => []OneAtATime
<1>1. ASSUME Inv PROVE OneAtATime
  <2>1. SUFFICES ASSUME NEW j \in Calls, NEW k \in Calls, InCallback(j), InCallback(k),
                        j \notin nested, k \notin nested
                 PROVE  j = k
    BY DEF OneAtATime
  <2>2. Alive(j) /\ Alive(k)
    BY <2>1 DEF InCallback, Alive
  <2>3. (j = task \/ Stopping(j)) /\ (k = task \/ Stopping(k))
    BY <1>1, <2>1, <2>2 DEF Inv, Accounted
  <2> QED
    BY <1>1, <2>3, OneDue
<1> QED
  BY <1>1, Invariant, PTL

\* A pending call keeps the task that delivers it while nobody replaces that task.
THEOREM NothingStrandedHolds == Spec => []NothingStranded
<1>1. Inv => NothingStranded
  BY DEF Inv
<1> QED
  BY <1>1, Invariant, PTL

\* The one variable that keeps a background failure is never overwritten, nor the failure
\* forgotten, before a call raised it: every task that could leave another failure was
\* created when the first had ended and does not go on before its done callback.
THEOREM FailuresHeardHolds == Spec => []FailuresHeard
<1>1. Inv => FailuresHeard
  BY DEF Inv
<1> QED
  BY <1>1, Invariant, PTL

LEMMA Quiets ==
    ASSUME Inv, Next, NEW q \in Procs, proc[q].op = "cancel", q \notin cancel, proc'[q].op = "none"
    PROVE  /\ pending' = 0
           /\ \A k \in Calls : proc'[k].pc \in {"none", "done", "over"} \/ k \in nested
<1>1. PICK p \in Procs : Effect(p)
  BY NextHas
<1>2. proc[q].pc \in InCall
  BY DEF Inv, Formed, WellFormed
<1>3. q = p
  BY <1>1, <1>2, Others DEF ReplaceEffect, FlushEffect, At, InCall
<1>4. ~At(p, "relock") /\ ~At(p, "wait")
  BY <1>3 DEF Inv, Formed, WellFormed, At
<1>5. FailEffect(p) \/ ClearEffect(p)
  BY <1>1, <1>2, <1>3, <1>4 DEF Effect, CallEffect, TaskEffect, EnterEffect, RefuseEffect, PassEffect,
     JoinEffect, StopEffect, GatherEffect, WokenEffect, RelockEffect, ThrowEffect, QuitEffect,
     InterruptEffect, WakeEffect, TakeEffect, StartEffect, EndEffect, FinishEffect,
     ReplaceEffect, FlushEffect, At, Home, InCall
<1>6. Acting(p) /\ Only(p) /\ pending' = 0
  BY <1>3, <1>5 DEF FailEffect, ClearEffect
<1>7. ASSUME NEW k \in Calls PROVE proc'[k].pc \in {"none", "done", "over"} \/ k \in nested
  <2>1. CASE k = p
    BY <1>2, <1>3, <2>1 DEF Inv, Formed, WellFormed
  <2>2. CASE k # p
    <3>1. proc'[k] = proc[k]
      BY <1>6, <2>2, Sets DEF Only
    <3> QED
      BY <1>6, <2>2, <3>1, ActsAlone DEF Alive
  <2> QED
    BY <2>1, <2>2
<1> QED
  BY <1>6, <1>7

\* When cancel() returns or raises undisturbed, nothing is pending and no callback goes on
\* but those that called the debouncer: it holds the lock, and has waited for the task.
THEOREM CancelQuietsHolds == Spec => CancelQuiets
<1>1. Inv /\ [Next]_vars =>
        [\A p \in Procs :
          /\ proc[p].op = "cancel" /\ p \notin cancel
          /\ proc'[p].op = "none"
          => /\ pending' = 0
             /\ \A k \in Calls : proc'[k].pc \in {"none", "done", "over"} \/ k \in nested]_vars
  BY Quiets
<1> QED
  BY <1>1, Invariant, PTL DEF Spec, CancelQuiets
=============================================================================
