------------------------------ MODULE Debouncer ------------------------------
(***************************************************************************)
(* The thread debouncers (src/src/eventful/utilities/debounce.py): the     *)
(* decorator, whose timer delivers the event of its own call, and the      *)
(* class, whose timer delivers the pending event it finds.                 *)
(*                                                                         *)
(* Every trigger starts a Timer thread.  cancel() stops a timer only until *)
(* it has fired; a timer that fired reads and writes last_call_time and    *)
(* pending_event without the lock.  Triggers, events and timers are        *)
(* numbered alike; 0 is None.  The callback is left to the module that     *)
(* uses this one: it starts with Deliver and ends with Delivered or        *)
(* Failed.  (A trigger without a callback would only clear.)               *)
(*                                                                         *)
(* One clock that never goes back stands for two of the program: the one   *)
(* of time.time(), which calls and the check of the interval read, and the *)
(* monotonic clock that Timer waits on.  A wall clock that is set back, or *)
(* slewed, between a call and its timer makes the check fail although the  *)
(* timer waited long enough, and strands the event; no state of the model  *)
(* shows it.                                                               *)
(***************************************************************************)
EXTENDS Integers, FiniteSets

CONSTANTS
    Apps,           \* application threads
    Interval,       \* interval
    MaxTriggers     \* bound: triggers of one behaviour

VARIABLES
    now,        \* the clock
    style,      \* the debouncer in use, "decorator" or "class"
    last,       \* last_call_time
    pending,    \* pending_event (of the class)
    timer,      \* timer: the number of the last one, or 0
    timers,     \* the Timer threads
    app,        \* what each application thread does here
    count,      \* triggers so far
    late,       \* history: events that came while a timer or a flush was clearing
    lost,       \* history: events cleared that nobody received
    received,   \* history: the number of callbacks that ended for each event
    failed      \* history: events whose callback raised

history == <<late, lost, received, failed>>

Events == 1..MaxTriggers
NoTimer == [pc |-> "none", time |-> 0, event |-> 0]
Over == [pc |-> "over", time |-> 0, event |-> 0]
NotHere == [pc |-> "none", time |-> 0, event |-> 0]

Init ==
    /\ style \in {"decorator", "class"}
    /\ last = 0
    /\ pending = 0
    /\ timer = 0
    /\ timers = [k \in Events |-> NoTimer]
    /\ app = [a \in Apps |-> NotHere]
    /\ count = 0
    /\ late = {}
    /\ lost = {}
    /\ received = [e \in Events |-> 0]
    /\ failed = {}

-----------------------------------------------------------------------------
\* Timer k may still clear a pending event that it did not deliver.
Clearing(k) == timers[k].pc \in {"testing", "calling", "running", "clearing"}
Flushing == \E a \in Apps : app[a].pc = "flushing"

Goes(k, pc) == timers' = [timers EXCEPT ![k].pc = pc]
Ends(k) == timers' = [timers EXCEPT ![k] = Over]

\* Timer.cancel() on the current timer.
Cancelled == [k \in Events |->
    IF k = timer /\ timers[k].pc = "waiting" THEN Over ELSE timers[k]]

\* A trigger reads the clock ...
Trigger(a) ==
    /\ app[a] = NotHere
    /\ count < MaxTriggers
    /\ count' = count + 1
    /\ app' = [app EXCEPT ![a] = [pc |-> "publishing", time |-> now, event |-> count + 1]]
    /\ UNCHANGED <<style, last, pending, timer, timers, history>>

\* ... and publishes the event (class) or its reading, however old (decorator), before
\* it asks for the lock.
Publish(a) ==
    LET e == app[a].event IN
    /\ app[a].pc = "publishing"
    /\ app' = [app EXCEPT ![a].pc = "locking"]
    /\ IF style = "class"
       THEN pending' = e /\ UNCHANGED last
       ELSE last' = app[a].time /\ UNCHANGED pending
    /\ late' = IF Flushing \/ \E k \in Events : Clearing(k)
               THEN late \union {e} ELSE late
    /\ UNCHANGED <<style, timer, timers, count, lost, received, failed>>

\* Under the lock: the previous timer is cancelled and a new one started.
Schedule(a) ==
    LET e == app[a].event IN
    /\ app[a].pc = "locking"
    /\ ~Flushing
    /\ last' = IF style = "class" THEN app[a].time ELSE last
    /\ timers' = [Cancelled EXCEPT
                    ![e] = [pc |-> "waiting", time |-> now + Interval, event |-> e]]
    /\ timer' = e
    /\ app' = [app EXCEPT ![a] = NotHere]
    /\ UNCHANGED <<style, pending, count, history>>

Cancel(a) ==
    /\ style = "class"
    /\ app[a] = NotHere
    /\ ~Flushing
    /\ timers' = Cancelled
    /\ timer' = 0
    /\ pending' = 0
    /\ UNCHANGED <<style, last, app, count, history>>

\* flush reads the pending event and clears it in two steps that a trigger, which
\* publishes without the lock, can come between.
Flush(a) ==
    /\ style = "class"
    /\ app[a] = NotHere
    /\ ~Flushing
    /\ timers' = Cancelled
    /\ timer' = 0
    /\ app' = [app EXCEPT ![a] = [pc |-> "flushing", time |-> 0, event |-> pending]]
    /\ UNCHANGED <<style, last, pending, count, history>>

\* The event cleared is lost unless it is the one in hand.
Clear(inHand) ==
    /\ pending' = 0
    /\ lost' = lost \union ({pending} \ {0, inHand})

\* Mutant: the lock is kept when nothing is pending.
MutFlushReturns(a) ==
    /\ app[a].pc = "flushing"
    /\ app[a].event # 0
    /\ Clear(app[a].event)
    /\ app' = [app EXCEPT ![a] = NotHere]
    /\ UNCHANGED <<style, last, timer, timers, count, late, received, failed>>

FlushReturns(a) ==
    /\ app[a].pc = "flushing"
    /\ Clear(app[a].event)
    /\ app' = [app EXCEPT ![a] = NotHere]
    /\ UNCHANGED <<style, last, timer, timers, count, late, received, failed>>

-----------------------------------------------------------------------------
\* Timer k was not cancelled in time: delayed_call begins and reads the clock.
Fire(k) ==
    /\ timers[k].pc = "waiting"
    /\ now >= timers[k].time
    /\ timers' = [timers EXCEPT ![k].pc = "fired", ![k].time = now]
    /\ UNCHANGED <<style, last, pending, timer, app, count, history>>

\* Mutant: more than the interval is asked for.
MutIntervalPassed(k) == timers[k].time - last > Interval

IntervalPassed(k) == timers[k].time - last >= Interval

\* Mutant: a call that is not the most recent one any more clears the event, too.
MutCheck(k) ==
    /\ timers[k].pc = "fired"
    /\ IF IntervalPassed(k) /\ style = "class" THEN Goes(k, "testing")
       ELSE IF IntervalPassed(k) THEN Goes(k, "calling") ELSE Ends(k)
    /\ IF ~IntervalPassed(k) /\ style = "class"
       THEN Clear(0) ELSE UNCHANGED <<pending, lost>>
    /\ UNCHANGED <<style, last, timer, app, count, late, received, failed>>

\* Is this still the most recent call?
Check(k) ==
    /\ timers[k].pc = "fired"
    /\ IF IntervalPassed(k)
       THEN Goes(k, IF style = "class" THEN "testing" ELSE "calling")
       ELSE Ends(k)
    /\ UNCHANGED <<style, last, pending, timer, app, count, history>>

\* if callback and self.pending_event
Test(k) ==
    /\ timers[k].pc = "testing"
    /\ Goes(k, IF pending # 0 THEN "calling" ELSE "clearing")
    /\ UNCHANGED <<style, last, pending, timer, app, count, history>>

\* The callback starts; the class reads its pending event once more.
Deliver(k) ==
    /\ timers[k].pc = "calling"
    /\ timers' = [timers EXCEPT ![k].pc = "running",
                    ![k].event = IF style = "class" THEN pending ELSE @]
    /\ UNCHANGED <<style, last, pending, timer, app, count, history>>

Received(k) ==
    received' = [e \in Events |-> received[e] + IF e = timers[k].event THEN 1 ELSE 0]

\* The callback returned.
Delivered(k) ==
    /\ timers[k].pc = "running"
    /\ IF style = "class" THEN Goes(k, "clearing") ELSE Ends(k)
    /\ Received(k)
    /\ UNCHANGED <<style, last, pending, timer, app, count, late, lost, failed>>

\* The callback raised, which ends the thread: the event stays pending.
Failed(k) ==
    /\ timers[k].pc = "running"
    /\ Ends(k)
    /\ Received(k)
    /\ failed' = failed \union {timers[k].event}
    /\ UNCHANGED <<style, last, pending, timer, app, count, late, lost>>

\* Mutant: the delivered event stays pending.
MutTimerClears(k) ==
    /\ timers[k].pc = "clearing"
    /\ Ends(k)
    /\ UNCHANGED <<style, last, pending, timer, app, count, history>>

\* self.pending_event = None
TimerClears(k) ==
    /\ timers[k].pc = "clearing"
    /\ Clear(timers[k].event)
    /\ Ends(k)
    /\ UNCHANGED <<style, last, timer, app, count, late, received, failed>>

-----------------------------------------------------------------------------
Quiet ==
    /\ \A a \in Apps : app[a] = NotHere
    /\ \A k \in Events : timers[k].pc \in {"none", "over"}

\* When nothing is under way any more, nothing is left behind: the class has no
\* pending event that no timer would ever deliver, except one whose callback raised,
\* and the decorator has delivered the event of the last call that started a timer.
\* It takes clocks that agree and do not go back (delayed_call).
NothingStranded ==
    Quiet => /\ pending \in failed \union {0}
             /\ style = "decorator" /\ timer # 0 => received[timer] = 1

\* An event gets lost only if it came in the short time in which a timer that had
\* passed its check, or a flush, was about to clear the pending event.  What cancel()
\* drops is not lost but dropped on request (Debouncer.cancel).
LostOnlyInOverlap == lost \subseteq late

\* A callback gets an event that was received before only while the timer that
\* delivered it has not cleared it yet, or because its callback raised.
TwiceOnlyInOverlap ==
    \A k \in Events :
        /\ Deliver(k) /\ style = "class" /\ pending \notin failed \union {0}
        /\ \A j \in Events \ {k} : timers[j].pc \notin {"running", "clearing"}
        => received[pending] = 0
=============================================================================
