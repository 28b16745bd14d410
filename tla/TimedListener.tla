---------------------------- MODULE TimedListener ----------------------------
(***************************************************************************)
(* A debounced listener whose function is rate limited, the way the two    *)
(* utilities stack as decorators: timer threads of the debouncer call the  *)
(* limiter, and application threads trigger the debouncer and use the same *)
(* limiter object directly.  One clock serves both, and the timers as well *)
(* (see Debouncer).                                                        *)
(***************************************************************************)
EXTENDS Integers, FiniteSets, Sequences

CONSTANTS
    Apps,           \* application threads
    Interval,       \* of the debouncer
    Calls, Period,  \* of the limiter
    Queries,        \* what applications do with the limiter directly
    MaxTriggers,    \* bound: triggers of one behaviour
    MaxOthers,      \* bound: other calls of the applications in one behaviour
    Horizon         \* bound: the clock stops here

ASSUME TimedAssumption ==
    /\ {Interval, Calls, Period, MaxTriggers, MaxOthers, Horizon} \subseteq Nat
    /\ Queries \subseteq {"acquire", "remaining", "reset"}
    /\ Apps \intersect (1..MaxTriggers) = {}

VARIABLES
    now,
    style, last, pending, timer, timers, app, count, late, lost, received, failed,
    callTimes, caller, admitted,
    others          \* cancels, flushes and direct uses of the limiter so far

DB == INSTANCE Debouncer
RL == INSTANCE RateLimit WITH Callers <- Apps \union (1..MaxTriggers)

vars == <<now, style, last, pending, timer, timers, app, count, late, lost, received, failed,
          callTimes, caller, admitted, others>>

DBOnly == UNCHANGED <<now, callTimes, caller, admitted>>
RLOnly == UNCHANGED <<now, style, last, pending, timer, timers, app, count,
                      late, lost, received, failed>>

Init ==
    /\ now = 0
    /\ DB!Init
    /\ RL!Init
    /\ others = 0

Free(a) == app[a] = DB!NotHere /\ caller[a] = RL!Idle

\* A timer started now still fires before the clock stops.
InTime == now + Interval <= Horizon

Tick ==
    /\ now < Horizon
    /\ now + Interval < Horizon \/ \A a \in Apps : app[a].pc \notin {"publishing", "locking"}
    /\ now' = now + 1
    /\ UNCHANGED <<style, last, pending, timer, timers, app, count, late, lost, received, failed,
                   callTimes, caller, admitted, others>>

AppCalls(a) ==
    /\ Free(a)
    /\ \/ InTime /\ DB!Trigger(a) /\ DBOnly /\ UNCHANGED others
       \/ /\ others < MaxOthers
          /\ others' = others + 1
          /\ \/ DBOnly /\ (DB!Cancel(a) \/ DB!Flush(a))
             \/ RLOnly /\ \E op \in Queries : RL!Begin(a, op)

AppSteps(a) ==
    /\ \/ DBOnly /\ (DB!Publish(a) \/ DB!Schedule(a) \/ DB!FlushReturns(a))
       \/ RLOnly /\ (RL!Admit(a) \/ RL!Refuse(a) \/ RL!Query(a))
    /\ UNCHANGED others

\* The callback of timer k is the rate limited function: it starts by reading the
\* clock, and is over when the limiter refuses or the function returns or raises.
TimerSteps(k) ==
    /\ \/ DBOnly /\ (DB!Fire(k) \/ DB!Check(k) \/ DB!Test(k) \/ DB!TimerClears(k))
       \/ DB!Deliver(k) /\ RL!Begin(k, "call") /\ UNCHANGED now
       \/ RLOnly /\ RL!Admit(k)
       \/ DB!Delivered(k) /\ (RL!Refuse(k) \/ RL!FunctionEnds(k)) /\ UNCHANGED now
       \/ DB!Failed(k) /\ RL!FunctionEnds(k) /\ UNCHANGED now
    /\ UNCHANGED others

Next ==
    \/ Tick
    \/ \E a \in Apps : AppCalls(a) \/ AppSteps(a)
    \/ \E k \in 1..MaxTriggers : TimerSteps(k)

Spec == Init /\ [][Next]_vars

\* Time passes, threads run, and the limited function ends.  Applications need not
\* call.
FairSpec ==
    /\ Spec
    /\ WF_vars(Tick)
    /\ \A a \in Apps : WF_vars(AppSteps(a))
    /\ \A k \in 1..MaxTriggers : WF_vars(TimerSteps(k))

-----------------------------------------------------------------------------
\* Invariants and action properties of the two parts (see there), of utilities/
\* debounce.py and utilities/rate_limit.py, in the composed system.
WindowBound == RL!WindowBound
NothingStranded == DB!NothingStranded
LostOnlyInOverlap == DB!LostOnlyInOverlap
TwiceOnlyInOverlap == [][DB!TwiceOnlyInOverlap]_vars

\* Every trigger gets its timer, although it waits for the lock, and every timer of
\* debounce.py ends: stopped, too early, refused by the limiter or with its callback.
Settles == (count > 0) ~> (\A e \in 1..MaxTriggers : e <= count => timers[e].pc = "over")
=============================================================================
