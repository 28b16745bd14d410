------------------------- MODULE TimedListenerProofs -------------------------
(***************************************************************************)
(* Invariants of the debounced and rate limited listener, proved for every *)
(* number of threads and triggers and every interval, limit and period.    *)
(***************************************************************************)
EXTENDS TimedListener, FiniteSetTheorems, SequenceTheorems, TLAPS

Callers == Apps \union (1..MaxTriggers)

-----------------------------------------------------------------------------
(* The limiter.                                                            *)

CallerType == [op : {"none", "call", "acquire", "remaining", "reset", "running"}, at : Nat]

\* A call that was admitted is in the list or older than a period, by the clock.
Listed(i) == i \in callTimes \/ now - admitted[i].at >= Period

\* WindowBound, in terms of the sets of this module.
Window ==
    \A S \in SUBSET DOMAIN admitted :
        Cardinality(S) = Calls + 1 => \E i, j \in S : admitted[j].on - admitted[i].at >= Period

LimiterTypeOK ==
    /\ now \in Nat
    /\ caller \in [Callers -> CallerType]
    /\ admitted \in Seq([at : Nat, on : Nat])
    /\ callTimes \subseteq DOMAIN admitted

LimiterInv ==
    /\ LimiterTypeOK
    /\ \A c \in Callers : caller[c].at <= now
    /\ \A i \in DOMAIN admitted : Listed(i)
    /\ Window

LEMMA Numbers ==
    /\ Interval \in Nat /\ Calls \in Nat /\ Period \in Nat
    /\ MaxTriggers \in Nat /\ MaxOthers \in Nat /\ Horizon \in Nat
  BY TimedAssumption

LEMMA AdmittedFields ==
    ASSUME NEW A \in Seq([at : Nat, on : Nat]), NEW i \in DOMAIN A
    PROVE  A[i].at \in Nat /\ A[i].on \in Nat
<1>1. i \in 1..Len(A)
  BY LenProperties
<1>2. A[i] \in [at : Nat, on : Nat]
  BY <1>1, ElementOfSeq
<1> QED
  BY <1>2

\* The limiter counts as everybody does.
LEMMA SameCardinality == \A S : RL!Cardinality(S) = Cardinality(S)
  BY DEF RL!Cardinality, Cardinality

LEMMA WindowIsBound == Window <=> WindowBound
  BY SameCardinality DEF Window, WindowBound, RL!WindowBound, RL!kSubset

\* The call times that a caller keeps, and those that a decision adds.
LEMMA KeptProperties ==
    ASSUME LimiterInv, NEW c \in Callers
    PROVE  /\ RL!Kept(c) = { i \in callTimes : caller[c].at - admitted[i].at < Period }
           /\ RL!Kept(c) \subseteq DOMAIN admitted
           /\ \A i \in DOMAIN admitted : now - admitted[i].at < Period => i \in RL!Kept(c)
<1>1. RL!Kept(c) = { i \in callTimes : caller[c].at - admitted[i].at < Period }
  BY DEF RL!Kept, RL!InPeriod
<1>2. ASSUME NEW i \in DOMAIN admitted, now - admitted[i].at < Period
      PROVE  i \in RL!Kept(c)
  <2>1. admitted[i].at \in Nat /\ caller[c].at \in Nat /\ caller[c].at <= now /\ now \in Nat
    BY AdmittedFields DEF LimiterInv, LimiterTypeOK, CallerType
  <2>2. i \in callTimes
    BY <1>2, <2>1, Numbers DEF LimiterInv, Listed
  <2>3. caller[c].at - admitted[i].at < Period
    BY <1>2, <2>1, Numbers
  <2> QED
    BY <1>1, <2>2, <2>3
<1> QED
  BY <1>1, <1>2 DEF LimiterInv, LimiterTypeOK

\* What a refusal, a query, or the clock leave behind: nothing new, and nothing gone
\* that is younger than a period.
LEMMA PurgeKeeps ==
    ASSUME LimiterInv, now' \in Nat, now <= now', admitted' = admitted,
           caller' \in [Callers -> CallerType], \A c \in Callers : caller'[c].at <= now',
           callTimes' \subseteq callTimes,
           \A i \in callTimes : now - admitted[i].at < Period => i \in callTimes'
    PROVE  LimiterInv'
<1>1. LimiterTypeOK'
  BY DEF LimiterInv, LimiterTypeOK
<1>2. ASSUME NEW i \in DOMAIN admitted PROVE Listed(i)'
  <2>1. admitted[i].at \in Nat /\ now \in Nat /\ Period \in Nat
    BY Numbers, AdmittedFields DEF LimiterInv, LimiterTypeOK
  <2>2. Listed(i)
    BY DEF LimiterInv
  <2> QED
    BY <2>1, <2>2 DEF Listed
<1>3. Window'
  BY DEF LimiterInv, Window
<1> QED
  BY <1>1, <1>2, <1>3 DEF LimiterInv

\* A caller forgets its reading when it is done.
LEMMA IdleCaller ==
    /\ RL!Idle \in CallerType
    /\ RL!Idle.at = 0
  BY DEF RL!Idle, CallerType

LEMMA BeginLimiter ==
    ASSUME LimiterInv, NEW c \in Callers, NEW o \in {"call", "acquire", "remaining", "reset"},
           RL!Begin(c, o), now' = now
    PROVE  LimiterInv'
<1>1. caller' = [caller EXCEPT ![c] = [op |-> o, at |-> now]]
  BY DEF RL!Begin
<1>2. [op |-> o, at |-> now] \in CallerType /\ now \in Nat
  BY DEF CallerType, LimiterInv, LimiterTypeOK
<1>3. caller' \in [Callers -> CallerType] /\ \A d \in Callers : caller'[d].at <= now'
  BY <1>1, <1>2 DEF LimiterInv, LimiterTypeOK
<1> QED
  BY <1>2, <1>3, PurgeKeeps DEF RL!Begin

\* Refusing, asking and coming to an end.
LEMMA PurgeLimiter ==
    ASSUME LimiterInv, NEW c \in Callers,
           RL!Refuse(c) \/ RL!Query(c) \/ RL!FunctionEnds(c), now' = now
    PROVE  LimiterInv'
<1>1. /\ caller' = [caller EXCEPT ![c] = RL!Idle]
      /\ admitted' = admitted
      /\ callTimes' = callTimes \/ callTimes' = RL!Kept(c)
  BY DEF RL!Refuse, RL!Query, RL!FunctionEnds
<1>2. now \in Nat
  BY DEF LimiterInv, LimiterTypeOK
<1>3. caller' \in [Callers -> CallerType] /\ \A d \in Callers : caller'[d].at <= now'
  BY <1>1, <1>2, IdleCaller DEF LimiterInv, LimiterTypeOK
<1>4. /\ callTimes' \subseteq callTimes
      /\ \A i \in callTimes : now - admitted[i].at < Period => i \in callTimes'
  BY <1>1, KeptProperties DEF LimiterInv, LimiterTypeOK
<1> QED
  BY <1>1, <1>2, <1>3, <1>4, PurgeKeeps

\* The decision.  Calls + 1 calls of which the new one is the last and all the others
\* are younger than a period were all kept, and there was no room.
LEMMA AdmitLimiter ==
    ASSUME LimiterInv, NEW c \in Callers, RL!Admit(c), now' = now
    PROVE  LimiterInv'
<1> DEFINE n == Len(admitted) + 1
           new == [at |-> caller[c].at, on |-> now]
<1>1. /\ Cardinality(RL!Kept(c)) < Calls
      /\ callTimes' = RL!Kept(c) \union {n}
      /\ admitted' = Append(admitted, new)
  BY SameCardinality DEF RL!Admit, RL!HasRoom
<1>2. /\ Len(admitted) \in Nat /\ DOMAIN admitted = 1..Len(admitted)
      /\ now \in Nat /\ Period \in Nat /\ Calls \in Nat
      /\ caller[c] \in CallerType /\ caller[c].at \in Nat /\ caller[c].at <= now
  BY Numbers, LenProperties DEF LimiterInv, LimiterTypeOK, CallerType
<1>3. new \in [at : Nat, on : Nat] /\ new.at = caller[c].at /\ new.on = now
  BY <1>2
<1> HIDE DEF new
<1>4. /\ admitted' \in Seq([at : Nat, on : Nat])
      /\ DOMAIN admitted' = (DOMAIN admitted) \union {n} /\ n \notin DOMAIN admitted
      /\ \A i \in DOMAIN admitted : admitted'[i] = admitted[i]
      /\ admitted'[n] = new
  <2>1. /\ admitted' \in Seq([at : Nat, on : Nat]) /\ Len(admitted') = Len(admitted) + 1
        /\ \A i \in 1..Len(admitted) : admitted'[i] = admitted[i]
        /\ admitted'[n] = new
    BY <1>1, <1>3, AppendProperties DEF LimiterInv, LimiterTypeOK
  <2>2. DOMAIN admitted' = 1..(Len(admitted) + 1)
    BY <2>1, LenProperties
  <2> QED
    BY <1>2, <2>1, <2>2
<1>5. LimiterTypeOK' /\ \A d \in Callers : caller'[d].at <= now'
  <2>1. \E v \in CallerType : v.at <= now /\ caller' = [caller EXCEPT ![c] = v]
    <3> DEFINE o == caller[c]
    <3>1. \/ caller' = [caller EXCEPT ![c] = [o EXCEPT !.op = "running"]]
          \/ caller' = [caller EXCEPT ![c] = RL!Idle]
      BY DEF RL!Admit
    <3>2. o \in CallerType /\ o.at <= now
      BY <1>2
    <3> HIDE DEF o
    <3>3. [o EXCEPT !.op = "running"] \in CallerType /\ [o EXCEPT !.op = "running"].at = o.at
      BY <3>2 DEF CallerType
    <3>4. RL!Idle \in CallerType /\ RL!Idle.at <= now
      BY <1>2, IdleCaller
    <3>5. CASE caller' = [caller EXCEPT ![c] = [o EXCEPT !.op = "running"]]
      BY <3>2, <3>3, <3>5
    <3>6. CASE caller' = [caller EXCEPT ![c] = RL!Idle]
      BY <3>4, <3>6
    <3> QED
      BY <3>1, <3>5, <3>6 DEF o
  <2>2. PICK v \in CallerType : v.at <= now /\ caller' = [caller EXCEPT ![c] = v]
    BY <2>1
  <2>3. callTimes' \subseteq DOMAIN admitted'
    BY <1>1, <1>4, KeptProperties
  <2>4. caller' \in [Callers -> CallerType] /\ \A d \in Callers : caller'[d].at <= now'
    BY <2>2 DEF LimiterInv, LimiterTypeOK
  <2> QED
    BY <1>2, <1>4, <2>3, <2>4 DEF LimiterTypeOK
<1>6. ASSUME NEW i \in DOMAIN admitted' PROVE Listed(i)'
  <2>1. CASE i = n
    BY <1>1, <2>1 DEF Listed
  <2>2. CASE i # n
    <3>1. i \in DOMAIN admitted /\ admitted'[i] = admitted[i] /\ admitted[i].at \in Nat
      BY <1>4, <2>2, AdmittedFields DEF LimiterInv, LimiterTypeOK
    <3>2. now - admitted[i].at < Period => i \in callTimes'
      BY <1>1, <3>1, KeptProperties
    <3> QED
      BY <1>2, <3>1, <3>2 DEF Listed
  <2> QED
    BY <2>1, <2>2
<1>7. Window'
  <2>1. SUFFICES ASSUME NEW S \in SUBSET DOMAIN admitted', Cardinality(S) = Calls + 1
                 PROVE  \E i, j \in S : admitted'[j].on - admitted'[i].at >= Period
    BY DEF Window
  <2>2. CASE n \notin S
    <3>1. S \in SUBSET DOMAIN admitted
      BY <1>4, <2>2
    <3>2. PICK i, j \in S : admitted[j].on - admitted[i].at >= Period
      BY <2>1, <3>1 DEF LimiterInv, Window
    <3> QED
      BY <1>4, <3>1, <3>2
  <2>3. CASE n \in S
    <3>1. SUFFICES ASSUME \A i \in S : admitted'[n].on - admitted'[i].at < Period
                   PROVE  FALSE
      <4>1. ASSUME NEW i \in S, ~(admitted'[n].on - admitted'[i].at < Period)
            PROVE  admitted'[n].on - admitted'[i].at >= Period
        <5>1. admitted'[i].at \in Nat /\ admitted'[n].on \in Nat
          BY <1>4, <2>1, <2>3, AdmittedFields
        <5> QED
          BY <1>2, <4>1, <5>1
      <4> QED
        BY <2>3, <4>1
    <3>2. S \ {n} \subseteq RL!Kept(c)
      <4>1. SUFFICES ASSUME NEW i \in S \ {n} PROVE i \in RL!Kept(c)
        OBVIOUS
      <4>2. i \in DOMAIN admitted /\ admitted'[i] = admitted[i]
        BY <1>4
      <4>3. now - admitted[i].at < Period
        BY <1>3, <1>4, <3>1, <4>2
      <4> QED
        BY <4>2, <4>3, KeptProperties
    <3>3. IsFiniteSet(RL!Kept(c)) /\ IsFiniteSet(S)
      <4>1. IsFiniteSet(DOMAIN admitted)
        <5>1. 1 \in Int /\ Len(admitted) \in Int
          BY <1>2
        <5> QED
          BY <1>2, <5>1, FS_Interval
      <4>2. IsFiniteSet(DOMAIN admitted')
        BY <1>4, <4>1, FS_AddElement
      <4> QED
        BY <4>1, <4>2, KeptProperties, FS_Subset
    <3>4. Cardinality(S \ {n}) = Calls /\ Cardinality(S \ {n}) <= Cardinality(RL!Kept(c))
      <4>1. Cardinality(S \ {n}) = Cardinality(S) - 1
        BY <2>3, <3>3, FS_RemoveElement
      <4>2. Cardinality(S \ {n}) <= Cardinality(RL!Kept(c))
        BY <3>2, <3>3, FS_Subset
      <4> QED
        BY <1>2, <2>1, <4>1, <4>2
    <3>5. Cardinality(RL!Kept(c)) \in Nat
      BY <3>3, FS_CardinalityType
    <3> QED
      BY <1>1, <1>2, <3>4, <3>5
  <2> QED
    BY <2>2, <2>3
<1> QED
  BY <1>5, <1>6, <1>7 DEF LimiterInv

-----------------------------------------------------------------------------
(* The debouncer.                                                          *)

Events == 1..MaxTriggers
TimerPlaces == {"none", "waiting", "fired", "testing", "calling", "running", "clearing", "over"}
TimerType == [pc : TimerPlaces, time : Nat, event : 0..MaxTriggers]
AppType == [pc : {"none", "publishing", "locking", "flushing"}, time : Nat, event : 0..MaxTriggers]

DebouncerTypeOK ==
    /\ now \in Nat
    /\ style \in {"decorator", "class"}
    /\ last \in Nat
    /\ pending \in 0..MaxTriggers
    /\ timer \in 0..MaxTriggers
    /\ timers \in [Events -> TimerType]
    /\ app \in [Apps -> AppType]
    /\ count \in 0..MaxTriggers
    /\ late \subseteq Events
    /\ received \in [Events -> Nat]

\* Clocks are read before now, and numbers are given in order.
Ordered ==
    /\ \A a \in Apps : app[a].time <= now /\ app[a].event <= count
    /\ last <= now
    /\ pending <= count
    /\ \A k \in Events : timers[k].event <= count
    /\ \A k \in Events : k > count => timers[k].pc = "none" /\ received[k] = 0

\* A trigger has a number of its own, and no timer yet ...
Triggering(a) == app[a].pc \in {"publishing", "locking"}
Waiting ==
    /\ \A a \in Apps : Triggering(a) =>
          app[a].event # 0 /\ timers[app[a].event].pc = "none"
    /\ \A a, b \in Apps :
          Triggering(a) /\ Triggering(b) /\ app[a].event = app[b].event => a = b

\* ... and until it publishes its event nobody knows it.
Unpublished ==
    \A a \in Apps : app[a].pc = "publishing" =>
        /\ received[app[a].event] = 0
        /\ pending # app[a].event
        /\ \A k \in Events : timers[k].event # app[a].event

\* The decorator has no pending event, and each event belongs to its timer.
Decorator ==
    style = "decorator" =>
        /\ pending = 0
        /\ \A a \in Apps : app[a].pc # "flushing"
        /\ \A k \in Events :
              /\ timers[k].pc \notin {"testing", "clearing"}
              /\ timers[k].pc \notin {"none", "over"} => timers[k].event = k
              /\ timers[k].pc # "over" => received[k] = 0

\* Whoever is about to clear has the pending event in hand, or a late one will go.
InHand ==
    /\ \A k \in Events : timers[k].pc \in {"running", "clearing"} =>
          pending \in {0, timers[k].event} \union late
    /\ \A a \in Apps : app[a].pc = "flushing" => pending \in {0, app[a].event} \union late
    /\ lost \subseteq late

\* An event that was received is pending only until its timer has cleared it, or for
\* good if its callback raised.
Again ==
    style = "class" /\ pending # 0 /\ received[pending] # 0 =>
        pending \in failed \/ \E k \in Events : timers[k].pc = "clearing"

\* The last timer is late enough to pass its check.
Passes(k) == timers[k].pc \in {"waiting", "fired"} /\ timers[k].time - last >= Interval

\* It, or a thread that is in a call, takes care of the pending event ...
CaredFor ==
    style = "class" /\ pending \notin failed \union {0} =>
        \/ \E a \in Apps : app[a].pc # "none"
        \/ /\ timer # 0
           /\ \/ Passes(timer)
              \/ timers[timer].pc \in {"testing", "calling", "clearing"}
              \/ timers[timer].pc = "running" /\ timers[timer].event = pending

\* ... or of the event of its own.
Delivering ==
    style = "decorator" /\ timer # 0 =>
        \/ \E a \in Apps : app[a].pc = "locking"
        \/ Passes(timer)
        \/ timers[timer].pc \in {"calling", "running"}
        \/ timers[timer].pc = "over" /\ received[timer] = 1

DebouncerInv ==
    /\ DebouncerTypeOK /\ Ordered /\ Waiting /\ Unpublished /\ Decorator
    /\ InHand /\ Again /\ CaredFor /\ Delivering

LEMMA TimerRecords ==
    /\ DB!Over \in TimerType /\ DB!Over.pc = "over" /\ DB!Over.event = 0 /\ DB!Over.time = 0
    /\ DB!NoTimer \in TimerType /\ DB!NoTimer.pc = "none" /\ DB!NoTimer.event = 0
    /\ DB!NotHere \in AppType /\ DB!NotHere.pc = "none" /\ DB!NotHere.event = 0
    /\ DB!NotHere.time = 0
  BY Numbers DEF DB!Over, DB!NoTimer, DB!NotHere, TimerType, TimerPlaces, AppType

LEMMA DebouncerTypes ==
    ASSUME DebouncerTypeOK
    PROVE  /\ timer \in Events \union {0} /\ pending \in Events \union {0}
           /\ now \in Nat /\ last \in Nat /\ count \in Nat
           /\ \A k \in Events : /\ timers[k] \in TimerType /\ received[k] \in Nat
                               /\ timers[k].time \in Nat
                               /\ timers[k].event \in Events \union {0}
           /\ \A a \in Apps : app[a].time \in Nat /\ app[a].event \in Events \union {0}
  BY Numbers DEF DebouncerTypeOK, TimerType, AppType, Events

\* What holds of the numbers after a step of one timer thread.
LEMMA TimerStep ==
    ASSUME DebouncerInv, NEW k \in Events, NEW r \in TimerType,
           timers[k].pc # "none", r.pc # "none", r.event \in {0, pending, timers[k].event},
           timers' = [timers EXCEPT ![k] = r], pending' \in {0, pending},
           received' \in [Events -> Nat],
           \A e \in Events \ {timers[k].event} : received'[e] = received[e],
           UNCHANGED <<now, style, last, timer, app, count, late>>
    PROVE  DebouncerTypeOK' /\ Ordered' /\ Waiting' /\ Unpublished'
<1>1. DebouncerTypeOK'
  <2>1. timers' \in [Events -> TimerType]
    BY DEF DebouncerInv, DebouncerTypeOK
  <2>2. pending' \in 0..MaxTriggers
    BY Numbers DEF DebouncerInv, DebouncerTypeOK
  <2> QED
    BY <2>1, <2>2 DEF DebouncerInv, DebouncerTypeOK
<1>2. timers'[k] = r /\ \A j \in Events \ {k} : timers'[j] = timers[j]
  BY DEF DebouncerInv, DebouncerTypeOK
<1>3. Ordered'
  <2>1. k <= count /\ r.event <= count
    BY Numbers DEF DebouncerInv, DebouncerTypeOK, Ordered, Events
  <2>2. ASSUME NEW j \in Events
        PROVE  timers'[j].event <= count /\ (j > count => timers'[j].pc = "none")
    BY <1>2, <2>1, Numbers DEF DebouncerInv, DebouncerTypeOK, Ordered, Events
  <2>3. ASSUME NEW j \in Events, j > count
        PROVE  received'[j] = 0
    <3>1. timers[k].event <= count /\ timers[k].event \in 0..MaxTriggers /\ count \in 0..MaxTriggers
      BY DEF DebouncerInv, DebouncerTypeOK, Ordered, TimerType
    <3>2. j # timers[k].event
      BY <2>3, <3>1, Numbers DEF Events
    <3> QED
      BY <2>3, <3>2 DEF DebouncerInv, Ordered
  <2>4. pending' <= count'
    BY Numbers DEF DebouncerInv, DebouncerTypeOK, Ordered
  <2> QED
    BY <2>2, <2>3, <2>4 DEF DebouncerInv, Ordered
<1>4. Waiting'
  <2>1. ASSUME NEW a \in Apps, Triggering(a)
        PROVE  app[a].event # 0 /\ timers'[app[a].event].pc = "none"
    <3>1. app[a].event \in Events /\ timers[app[a].event].pc = "none"
      BY <2>1, Numbers DEF DebouncerInv, DebouncerTypeOK, Waiting, AppType, Events
    <3> QED
      BY <1>2, <3>1 DEF Events
  <2> QED
    BY <2>1 DEF DebouncerInv, Waiting, Triggering
<1>5. Unpublished'
  <2>1. ASSUME NEW a \in Apps, app[a].pc = "publishing"
        PROVE  /\ app[a].event # 0 /\ app[a].event \in Events
               /\ received[app[a].event] = 0 /\ pending # app[a].event
               /\ \A j \in Events : timers[j].event # app[a].event
    BY <2>1, DebouncerTypes DEF DebouncerInv, Waiting, Triggering, Unpublished
  <2>2. ASSUME NEW a \in Apps, app[a].pc = "publishing"
        PROVE  /\ received'[app[a].event] = 0 /\ pending' # app[a].event
               /\ \A j \in Events : timers'[j].event # app[a].event
    BY <1>2, <2>1, <2>2
  <2> QED
    BY <2>2 DEF Unpublished
<1> QED
  BY <1>1, <1>3, <1>4, <1>5

LEMMA FireKeeps ==
    ASSUME DebouncerInv, NEW k \in Events, DB!Fire(k), UNCHANGED now
    PROVE  DebouncerInv'
<1>1. PICK r \in TimerType :
          /\ timers' = [timers EXCEPT ![k] = r]
          /\ r.pc = "fired" /\ r.event = timers[k].event /\ r.time = now
  <2> DEFINE t == timers[k]
             r == [t EXCEPT !.pc = "fired", !.time = now]
  <2>1. t \in TimerType /\ now \in Nat
    BY DEF DebouncerInv, DebouncerTypeOK
  <2>2. timers' = [timers EXCEPT ![k] = r]
    BY DEF DB!Fire
  <2> HIDE DEF t
  <2>3. r \in TimerType /\ r.pc = "fired" /\ r.event = t.event /\ r.time = now
    BY <2>1 DEF TimerType, TimerPlaces
  <2> QED
    BY <2>2, <2>3 DEF t
<1>2. /\ timers[k].pc = "waiting" /\ now >= timers[k].time
      /\ UNCHANGED <<style, last, pending, timer, app, count, late, lost, received, failed>>
  BY DEF DB!Fire, DB!history
<1>3. timers'[k] = r /\ \A j \in Events \ {k} : timers'[j] = timers[j]
  BY <1>1 DEF DebouncerInv, DebouncerTypeOK
<1>5. DebouncerTypeOK' /\ Ordered' /\ Waiting' /\ Unpublished'
  <2>1. r.event \in {0, pending, timers[k].event} /\ received' \in [Events -> Nat]
    BY <1>1, <1>2 DEF DebouncerInv, DebouncerTypeOK
  <2> QED
    BY <1>1, <1>2, <2>1, TimerStep
<1>6. Decorator'
  BY <1>1, <1>2, <1>3 DEF DebouncerInv, Decorator
<1>7. InHand'
  BY <1>1, <1>2, <1>3 DEF DebouncerInv, InHand
<1>8. Again'
  BY <1>1, <1>2, <1>3 DEF DebouncerInv, Again
<1>4. \A j \in Events : Passes(j) => Passes(j)'
  BY <1>1, <1>2, <1>3, DebouncerTypes, Numbers DEF DebouncerInv, Passes
<1>9. timer \in Events \union {0}
  BY DebouncerTypes DEF DebouncerInv
<1>10. CaredFor'
  BY <1>1, <1>2, <1>3, <1>4, <1>9 DEF DebouncerInv, CaredFor
<1>11. Delivering'
  BY <1>1, <1>2, <1>3, <1>4, <1>9 DEF DebouncerInv, Delivering
<1> QED
  BY <1>5, <1>6, <1>7, <1>8, <1>10, <1>11 DEF DebouncerInv

\* Check and Test: a timer that goes on, or is over because a later call was made.
LEMMA GoesKeeps ==
    ASSUME DebouncerInv, NEW k \in Events, DB!Check(k) \/ DB!Test(k), UNCHANGED now
    PROVE  DebouncerInv'
<1>1. UNCHANGED <<style, last, pending, timer, app, count, late, lost, received, failed>>
  BY DEF DB!Check, DB!Test, DB!history
<1>2. PICK r \in TimerType :
          /\ timers' = [timers EXCEPT ![k] = r]
          /\ \/ r.event = timers[k].event
             \/ r.event = 0 /\ r.pc = "over"
          /\ \/ /\ timers[k].pc = "fired" /\ timers[k].time - last >= Interval
                /\ r.pc = IF style = "class" THEN "testing" ELSE "calling"
             \/ timers[k].pc = "fired" /\ ~Passes(k) /\ r.pc = "over"
             \/ timers[k].pc = "testing" /\ r.pc = IF pending # 0 THEN "calling" ELSE "clearing"
  <2> DEFINE t == timers[k]
             r(pc) == [t EXCEPT !.pc = pc]
             checked == IF style = "class" THEN "testing" ELSE "calling"
             tested == IF pending # 0 THEN "calling" ELSE "clearing"
  <2>1. t \in TimerType
    BY DebouncerTypes DEF DebouncerInv
  <2>2. \/ /\ t.pc = "fired" /\ t.time - last >= Interval
           /\ timers' = [timers EXCEPT ![k] = r(checked)]
        \/ /\ t.pc = "fired" /\ ~(t.time - last >= Interval)
           /\ timers' = [timers EXCEPT ![k] = DB!Over]
        \/ /\ t.pc = "testing"
           /\ timers' = [timers EXCEPT ![k] = r(tested)]
    BY DEF DB!Check, DB!Test, DB!Goes, DB!Ends, DB!IntervalPassed
  <2>3. Passes(k) => t.time - last >= Interval
    BY DEF Passes
  <2> HIDE DEF t
  <2>4. ASSUME NEW pc \in {"testing", "calling", "clearing"}
        PROVE  r(pc) \in TimerType /\ r(pc).pc = pc /\ r(pc).event = t.event
    BY <2>1 DEF TimerType, TimerPlaces
  <2> HIDE DEF r
  <2> DEFINE moved(pc) == /\ r(pc) \in TimerType /\ r(pc).pc = pc /\ r(pc).event = t.event
  <2>5. moved(checked) /\ moved(tested)
    BY <2>4
  <2> HIDE DEF checked, tested
  <2>6. CASE /\ t.pc = "fired" /\ t.time - last >= Interval
             /\ timers' = [timers EXCEPT ![k] = r(checked)]
    BY <2>5, <2>6 DEF t, checked
  <2>7. CASE /\ t.pc = "fired" /\ ~(t.time - last >= Interval)
             /\ timers' = [timers EXCEPT ![k] = DB!Over]
    BY <2>3, <2>7, TimerRecords DEF t
  <2>8. CASE /\ t.pc = "testing"
             /\ timers' = [timers EXCEPT ![k] = r(tested)]
    BY <2>5, <2>8 DEF t, tested
  <2> QED
    BY <2>2, <2>6, <2>7, <2>8
<1>3. timers'[k] = r /\ \A j \in Events \ {k} : timers'[j] = timers[j]
  BY <1>2 DEF DebouncerInv, DebouncerTypeOK
<1>4. DebouncerTypeOK' /\ Ordered' /\ Waiting' /\ Unpublished'
  <2>1. r.event \in {0, pending, timers[k].event} /\ received' \in [Events -> Nat]
    BY <1>1, <1>2 DEF DebouncerInv, DebouncerTypeOK
  <2>2. timers[k].pc # "none" /\ r.pc # "none"
    BY <1>2
  <2> QED
    BY <1>1, <1>2, <2>1, <2>2, TimerStep
<1>5. Decorator'
  BY <1>1, <1>2, <1>3 DEF DebouncerInv, Decorator
<1>6. InHand'
  BY <1>1, <1>2, <1>3 DEF DebouncerInv, InHand
<1>7. Again'
  BY <1>1, <1>2, <1>3 DEF DebouncerInv, Again
<1>8. \A j \in Events \ {k} : Passes(j) => Passes(j)'
  BY <1>1, <1>3 DEF Passes
<1>9. timer \in Events \union {0}
  BY DebouncerTypes DEF DebouncerInv
<1>10. CaredFor'
  BY <1>1, <1>2, <1>3, <1>8, <1>9 DEF DebouncerInv, CaredFor, Passes
<1>11. Delivering'
  BY <1>1, <1>2, <1>3, <1>8, <1>9 DEF DebouncerInv, Delivering, Decorator, Passes
<1> QED
  BY <1>4, <1>5, <1>6, <1>7, <1>10, <1>11 DEF DebouncerInv

\* The callback starts with the event that is pending, or with the timer's own.
LEMMA DeliverKeeps ==
    ASSUME DebouncerInv, NEW k \in Events, DB!Deliver(k), UNCHANGED now
    PROVE  DebouncerInv'
<1>1. /\ UNCHANGED <<style, last, pending, timer, app, count, late, lost, received, failed>>
      /\ timers[k].pc = "calling"
  BY DEF DB!Deliver, DB!history
<1>2. PICK r \in TimerType :
          /\ timers' = [timers EXCEPT ![k] = r]
          /\ r.pc = "running"
          /\ r.event = IF style = "class" THEN pending ELSE timers[k].event
  <2> DEFINE t == timers[k]
             e == IF style = "class" THEN pending ELSE t.event
             r == [t EXCEPT !.pc = "running", !.event = e]
  <2>1. t \in TimerType /\ t.event \in 0..MaxTriggers /\ pending \in 0..MaxTriggers
    BY DEF DebouncerInv, DebouncerTypeOK, TimerType
  <2>2. timers' = [timers EXCEPT ![k] = r]
    BY DEF DB!Deliver
  <2>3. e \in 0..MaxTriggers
    BY <2>1
  <2> HIDE DEF t, e
  <2>4. r \in TimerType /\ r.pc = "running" /\ r.event = e
    BY <2>1, <2>3 DEF TimerType, TimerPlaces
  <2> QED
    BY <2>2, <2>4 DEF t, e
<1>3. timers'[k] = r /\ \A j \in Events \ {k} : timers'[j] = timers[j]
  BY <1>2 DEF DebouncerInv, DebouncerTypeOK
<1>4. DebouncerTypeOK' /\ Ordered' /\ Waiting' /\ Unpublished'
  <2>1. r.event \in {0, pending, timers[k].event} /\ received' \in [Events -> Nat]
    BY <1>1, <1>2 DEF DebouncerInv, DebouncerTypeOK
  <2> QED
    BY <1>1, <1>2, <2>1, TimerStep
<1>5. Decorator'
  BY <1>1, <1>2, <1>3 DEF DebouncerInv, Decorator
<1>6. InHand'
  BY <1>1, <1>2, <1>3 DEF DebouncerInv, InHand, Decorator, DebouncerTypeOK
<1>7. Again'
  BY <1>1, <1>2, <1>3 DEF DebouncerInv, Again
<1>8. \A j \in Events \ {k} : Passes(j) => Passes(j)'
  BY <1>1, <1>3 DEF Passes
<1>9. timer \in Events \union {0} /\ style \in {"decorator", "class"}
  BY DebouncerTypes DEF DebouncerInv, DebouncerTypeOK
<1>10. CaredFor'
  BY <1>1, <1>2, <1>3, <1>8, <1>9 DEF DebouncerInv, CaredFor, Passes
<1>11. Delivering'
  BY <1>1, <1>2, <1>3, <1>8, <1>9 DEF DebouncerInv, Delivering, Passes
<1> QED
  BY <1>4, <1>5, <1>6, <1>7, <1>10, <1>11 DEF DebouncerInv

\* The callback ends.  What it received counts, whether it returned or raised.
LEMMA CallbackKeeps ==
    ASSUME DebouncerInv, NEW k \in Events, DB!Delivered(k) \/ DB!Failed(k), UNCHANGED now
    PROVE  DebouncerInv'
<1> DEFINE e == timers[k].event
<1>1. /\ UNCHANGED <<style, last, pending, timer, app, count, late, lost>>
      /\ timers[k].pc = "running"
      /\ received' = [j \in Events |-> received[j] + IF j = e THEN 1 ELSE 0]
      /\ failed' = failed \/ failed' = failed \union {e}
      /\ \/ DB!Delivered(k) /\ UNCHANGED failed
         \/ DB!Failed(k) /\ failed' = failed \union {e}
  BY DEF DB!Delivered, DB!Failed, DB!Received, DB!Events, Events
<1>2. PICK r \in TimerType :
          /\ timers' = [timers EXCEPT ![k] = r]
          /\ \/ r.pc = "clearing" /\ r.event = e /\ style = "class"
             \/ r.pc = "over" /\ r.event = 0 /\ (style = "decorator" \/ e \in failed')
  <2>1. DB!Over \in TimerType /\ DB!Over.pc = "over" /\ DB!Over.event = 0
    BY TimerRecords
  <2>2. CASE DB!Failed(k)
    BY <2>1, <2>2 DEF DB!Failed, DB!Ends
  <2>3. CASE DB!Delivered(k) /\ style = "decorator"
    BY <2>1, <2>3 DEF DB!Delivered, DB!Ends
  <2>4. CASE DB!Delivered(k) /\ style = "class"
    <3> DEFINE t == timers[k]
               r == [t EXCEPT !.pc = "clearing"]
    <3>1. timers' = [timers EXCEPT ![k] = r] /\ t \in TimerType
      BY <2>4, DebouncerTypes DEF DebouncerInv, DB!Delivered, DB!Goes
    <3> HIDE DEF t
    <3>2. r \in TimerType /\ r.pc = "clearing" /\ r.event = t.event
      BY <3>1 DEF TimerType, TimerPlaces
    <3> QED
      BY <2>4, <3>1, <3>2 DEF t
  <2> QED
    BY <1>1, <2>2, <2>3, <2>4 DEF DebouncerInv, DebouncerTypeOK
<1>3. timers'[k] = r /\ \A j \in Events \ {k} : timers'[j] = timers[j]
  BY <1>2 DEF DebouncerInv, DebouncerTypeOK
<1>4. /\ received' \in [Events -> Nat]
      /\ \A j \in Events \ {e} : received'[j] = received[j]
      /\ \A j \in Events : j = e => received'[j] = received[j] + 1
  BY <1>1, DebouncerTypes DEF DebouncerInv
<1>5. DebouncerTypeOK' /\ Ordered' /\ Waiting' /\ Unpublished'
  <2>1. r.event \in {0, pending, timers[k].event} /\ r.pc # "none"
    BY <1>2
  <2> QED
    BY <1>1, <1>2, <1>4, <2>1, TimerStep
<1>6. Decorator'
  <2>1. style = "decorator" => e = k
    BY <1>1 DEF DebouncerInv, Decorator
  <2> QED
    BY <1>1, <1>2, <1>3, <1>4, <2>1 DEF DebouncerInv, Decorator
<1>7. InHand'
  BY <1>1, <1>2, <1>3 DEF DebouncerInv, InHand
<1>8. Again'
  <2>1. pending \in Events \union {0}
    BY DebouncerTypes DEF DebouncerInv
  <2>2. CASE pending = e
    BY <1>1, <1>2, <1>3, <2>2 DEF Again
  <2>3. CASE pending # e
    <3>1. \A j \in Events : timers[j].pc = "clearing" => timers'[j].pc = "clearing"
      BY <1>1, <1>3
    <3> QED
      BY <1>1, <1>4, <2>1, <2>3, <3>1 DEF DebouncerInv, Again
  <2> QED
    BY <2>2, <2>3
<1>9. \A j \in Events \ {k} : Passes(j) => Passes(j)'
  BY <1>1, <1>3 DEF Passes
<1>10. timer \in Events \union {0} /\ style \in {"decorator", "class"}
  BY DebouncerTypes DEF DebouncerInv, DebouncerTypeOK
<1>11. CaredFor'
  BY <1>1, <1>2, <1>3, <1>9, <1>10 DEF DebouncerInv, CaredFor, Passes
<1>12. Delivering'
  <2>1. SUFFICES ASSUME style = "decorator", timer # 0
                 PROVE  \/ \E a \in Apps : app[a].pc = "locking"
                        \/ Passes(timer)'
                        \/ timers'[timer].pc \in {"calling", "running"}
                        \/ timers'[timer].pc = "over" /\ received'[timer] = 1
    BY <1>1 DEF Delivering
  <2>2. e = k /\ received[k] = 0 /\ timers'[k].pc = "over" /\ received'[k] = 1
    BY <1>1, <1>2, <1>3, <1>4, <2>1 DEF DebouncerInv, Decorator
  <2>3. CASE timer = k
    BY <2>2, <2>3
  <2>4. CASE timer # k
    <3>1. timer \in Events \ {k} /\ timer \in Events \ {e}
      BY <1>10, <2>1, <2>2, <2>4
    <3>2. timers'[timer] = timers[timer] /\ received'[timer] = received[timer]
      BY <1>3, <1>4, <3>1
    <3>3. Passes(timer) => Passes(timer)'
      BY <1>1, <3>2 DEF Passes
    <3> QED
      BY <2>1, <3>2, <3>3 DEF DebouncerInv, Delivering
  <2> QED
    BY <2>3, <2>4
<1> QED
  BY <1>5, <1>6, <1>7, <1>8, <1>11, <1>12 DEF DebouncerInv

\* The timer clears what it finds.
LEMMA ClearsKeeps ==
    ASSUME DebouncerInv, NEW k \in Events, DB!TimerClears(k), UNCHANGED now
    PROVE  DebouncerInv'
<1>1. /\ UNCHANGED <<style, last, timer, app, count, late, received, failed>>
      /\ timers[k].pc = "clearing"
      /\ pending' = 0
      /\ lost' = lost \union ({pending} \ {0, timers[k].event})
      /\ timers' = [timers EXCEPT ![k] = DB!Over]
  BY DEF DB!TimerClears, DB!Clear, DB!Ends
<1>2. timers'[k] = DB!Over /\ \A j \in Events \ {k} : timers'[j] = timers[j]
  BY <1>1 DEF DebouncerInv, DebouncerTypeOK
<1>3. DebouncerTypeOK' /\ Ordered' /\ Waiting' /\ Unpublished'
  <2>1. DB!Over.event = 0 /\ received' \in [Events -> Nat]
    BY <1>1, TimerRecords DEF DebouncerInv, DebouncerTypeOK
  <2> QED
    BY <1>1, <2>1, TimerRecords, TimerStep
<1>4. style = "class"
  BY <1>1 DEF DebouncerInv, DebouncerTypeOK, Decorator
<1>5. Decorator' /\ Again' /\ CaredFor' /\ Delivering'
  BY <1>1, <1>4 DEF Decorator, Again, CaredFor, Delivering
<1>6. InHand'
  BY <1>1, <1>2, TimerRecords DEF DebouncerInv, InHand
<1> QED
  BY <1>3, <1>5, <1>6 DEF DebouncerInv

-----------------------------------------------------------------------------
(* The application threads.                                                *)

\* A new event has a number that no thread and no timer knows.
LEMMA TriggerKeeps ==
    ASSUME DebouncerInv, NEW a \in Apps, DB!Trigger(a), UNCHANGED now
    PROVE  DebouncerInv'
<1> DEFINE e == count + 1
           new == [pc |-> "publishing", time |-> now, event |-> e]
<1>1. /\ UNCHANGED <<style, last, pending, timer, timers, late, lost, received, failed>>
      /\ app[a] = DB!NotHere
      /\ count < MaxTriggers
      /\ count' = e
      /\ app' = [app EXCEPT ![a] = new]
  BY DEF DB!Trigger, DB!history
<1>2. count \in Nat /\ e \in Events /\ e \in Nat /\ e > count /\ now \in Nat
  BY <1>1, DebouncerTypes, Numbers DEF DebouncerInv, DebouncerTypeOK, Events
<1>3. new \in AppType /\ new.pc = "publishing" /\ new.time = now /\ new.event = e
  BY <1>2, Numbers DEF AppType, Events
<1> HIDE DEF new
<1>4. app'[a] = new /\ \A b \in Apps \ {a} : app'[b] = app[b]
  BY <1>1 DEF DebouncerInv, DebouncerTypeOK
<1>5. DebouncerTypeOK'
  <2>1. app' \in [Apps -> AppType]
    BY <1>1, <1>3 DEF DebouncerInv, DebouncerTypeOK
  <2>2. count' \in 0..MaxTriggers
    BY <1>1, <1>2, Numbers DEF Events
  <2> QED
    BY <1>1, <2>1, <2>2 DEF DebouncerInv, DebouncerTypeOK
<1>6. Ordered'
  <2>1. now <= now /\ e <= e /\ \A n \in Events \union {0} : n <= count => n <= e
    BY <1>2, Numbers DEF Events
  <2>2. \A b \in Apps : app'[b].time <= now' /\ app'[b].event <= count'
    <3>1. \A b \in Apps : app[b].time <= now /\ app[b].event <= e
      BY <2>1, DebouncerTypes DEF DebouncerInv, Ordered
    <3> QED
      BY <1>1, <1>3, <1>4, <2>1, <3>1
  <2>3. last' <= now' /\ pending' <= count'
    BY <1>1, <2>1, DebouncerTypes DEF DebouncerInv, Ordered
  <2>4. \A k \in Events : timers'[k].event <= count'
    <3>1. \A k \in Events : timers[k].event <= e
      BY <2>1, DebouncerTypes DEF DebouncerInv, Ordered
    <3> QED
      BY <1>1, <3>1
  <2>5. \A k \in Events : k > count' => timers'[k].pc = "none" /\ received'[k] = 0
    BY <1>1, <1>2, Numbers DEF DebouncerInv, Ordered, Events
  <2> QED
    BY <2>2, <2>3, <2>4, <2>5 DEF Ordered
<1>7. Waiting'
  <2>1. \A b \in Apps : app[b].event # e
    BY <1>2, DebouncerTypes DEF DebouncerInv, Ordered
  <2>2. timers[e].pc = "none" /\ e # 0
    BY <1>2 DEF DebouncerInv, Ordered
  <2>3. \A b \in Apps \ {a} : Triggering(b)' <=> Triggering(b)
    BY <1>4 DEF Triggering
  <2> QED
    BY <1>1, <1>3, <1>4, <2>1, <2>2, <2>3 DEF DebouncerInv, Waiting
<1>8. Unpublished'
  <2>1. received[e] = 0 /\ pending # e /\ \A k \in Events : timers[k].event # e
    BY <1>2, DebouncerTypes DEF DebouncerInv, Ordered
  <2> QED
    BY <1>1, <1>3, <1>4, <2>1 DEF DebouncerInv, Unpublished
<1>9. Decorator' /\ InHand' /\ Again'
  <2>1. ASSUME NEW b \in Apps, app'[b].pc = "flushing"
        PROVE  app'[b] = app[b]
    BY <1>3, <1>4, <2>1
  <2>2. Decorator'
    BY <1>1, <2>1 DEF DebouncerInv, Decorator
  <2>3. InHand'
    BY <1>1, <2>1 DEF DebouncerInv, InHand
  <2> QED
    BY <1>1, <2>2, <2>3 DEF DebouncerInv, Again
<1>10. CaredFor'
  BY <1>3, <1>4 DEF CaredFor
<1>11. Delivering'
  <2>1. ASSUME NEW b \in Apps, app[b].pc = "locking"
        PROVE  app'[b].pc = "locking"
    BY <1>1, <1>4, <2>1, TimerRecords
  <2> QED
    BY <1>1, <2>1 DEF DebouncerInv, Delivering, Passes
<1> QED
  BY <1>5, <1>6, <1>7, <1>8, <1>9, <1>10, <1>11 DEF DebouncerInv

\* An event is published before its trigger has the lock.
LEMMA PublishKeeps ==
    ASSUME DebouncerInv, NEW a \in Apps, DB!Publish(a), UNCHANGED now
    PROVE  DebouncerInv'
<1> DEFINE e == app[a].event
           new == [app[a] EXCEPT !.pc = "locking"]
<1>1. /\ UNCHANGED <<style, timer, timers, count, lost, received, failed>>
      /\ app[a].pc = "publishing"
      /\ app' = [app EXCEPT ![a] = new]
      /\ style = "class" => pending' = e /\ last' = last
      /\ style = "decorator" => last' = app[a].time /\ pending' = pending
      /\ late' \in {late, late \union {e}}
      /\ (\E b \in Apps : app[b].pc = "flushing")
            \/ (\E k \in Events : timers[k].pc \in {"running", "clearing"})
         => late' = late \union {e}
  BY DEF DB!Publish, DB!Flushing, DB!Clearing, DB!Events, Events
<1>2. /\ Triggering(a)
      /\ e \in Events /\ e <= count /\ timers[e].pc = "none" /\ received[e] = 0
      /\ app[a].time \in Nat /\ app[a].time <= now
      /\ style \in {"decorator", "class"}
  BY <1>1, DebouncerTypes
  DEF DebouncerInv, DebouncerTypeOK, Waiting, Triggering, Unpublished, Ordered
<1>3. new \in AppType /\ new.pc = "locking" /\ new.time = app[a].time /\ new.event = e
  <2> DEFINE here == app[a]
  <2>1. here \in AppType
    BY DEF DebouncerInv, DebouncerTypeOK
  <2> HIDE DEF here
  <2>2. LET there == [here EXCEPT !.pc = "locking"] IN
        there \in AppType /\ there.pc = "locking" /\ there.time = here.time
        /\ there.event = here.event
    BY <2>1 DEF AppType
  <2> QED
    BY <2>2 DEF here
<1> HIDE DEF new
<1>4. app'[a] = new /\ \A b \in Apps \ {a} : app'[b] = app[b]
  BY <1>1 DEF DebouncerInv, DebouncerTypeOK
<1>5. /\ late \subseteq late' /\ late' \subseteq Events
      /\ pending' \in {pending, e} /\ last' \in {last, app[a].time}
  BY <1>1, <1>2 DEF DebouncerInv, DebouncerTypeOK
<1>6. DebouncerTypeOK'
  <2>1. app' \in [Apps -> AppType]
    BY <1>1, <1>3 DEF DebouncerInv, DebouncerTypeOK
  <2>2. pending' \in 0..MaxTriggers /\ last' \in Nat
    BY <1>2, <1>5, Numbers DEF DebouncerInv, DebouncerTypeOK, Events
  <2> QED
    BY <1>1, <1>5, <2>1, <2>2 DEF DebouncerInv, DebouncerTypeOK
<1>7. Ordered'
  <2>1. \A b \in Apps : app'[b].time <= now' /\ app'[b].event <= count'
    BY <1>1, <1>2, <1>3, <1>4 DEF DebouncerInv, Ordered
  <2>2. last' <= now' /\ pending' <= count'
    BY <1>1, <1>2, <1>5 DEF DebouncerInv, Ordered
  <2> QED
    BY <1>1, <2>1, <2>2 DEF DebouncerInv, Ordered
<1>8. Waiting' /\ Unpublished'
  <2>1. \A b \in Apps : app'[b].event = app[b].event /\ (Triggering(b)' => Triggering(b))
    BY <1>2, <1>3, <1>4 DEF Triggering
  <2>2. Waiting'
    BY <1>1, <2>1 DEF DebouncerInv, Waiting
  <2>3. ASSUME NEW b \in Apps, app'[b].pc = "publishing"
        PROVE  app[b].pc = "publishing" /\ app[b].event # e
    <3>1. b # a /\ app[b].pc = "publishing"
      BY <1>3, <1>4, <2>3
    <3> QED
      BY <1>2, <3>1 DEF DebouncerInv, Waiting, Triggering
  <2>4. Unpublished'
    BY <1>1, <1>5, <2>1, <2>3 DEF DebouncerInv, Unpublished
  <2> QED
    BY <2>2, <2>4
<1>9. Decorator'
  <2>1. style = "decorator" => \A b \in Apps : app'[b].pc # "flushing"
    BY <1>3, <1>4 DEF DebouncerInv, Decorator
  <2> QED
    BY <1>1, <2>1 DEF DebouncerInv, Decorator
<1>10. InHand'
  <2>1. ASSUME NEW k \in Events, timers'[k].pc \in {"running", "clearing"}
        PROVE  pending' \in {0, timers'[k].event} \union late'
    <3>1. late' = late \union {e}
      BY <1>1, <2>1
    <3> QED
      BY <1>1, <1>5, <2>1, <3>1 DEF DebouncerInv, InHand
  <2>2. ASSUME NEW b \in Apps, app'[b].pc = "flushing"
        PROVE  pending' \in {0, app'[b].event} \union late'
    <3>1. app'[b] = app[b]
      BY <1>3, <1>4, <2>2
    <3>2. late' = late \union {e}
      BY <1>1, <2>2, <3>1
    <3> QED
      BY <1>5, <2>2, <3>1, <3>2 DEF DebouncerInv, InHand
  <2>3. lost' \subseteq late'
    BY <1>1, <1>5 DEF DebouncerInv, InHand
  <2> QED
    BY <2>1, <2>2, <2>3 DEF InHand
<1>11. Again'
  BY <1>1, <1>2 DEF Again
<1>12. CaredFor' /\ Delivering'
  BY <1>3, <1>4 DEF CaredFor, Delivering
<1> QED
  BY <1>6, <1>7, <1>8, <1>9, <1>10, <1>11, <1>12 DEF DebouncerInv

\* What the current timer is worth after Timer.cancel().
LEMMA CancelledTimers ==
    ASSUME DebouncerInv
    PROVE  /\ DB!Cancelled \in [Events -> TimerType]
           /\ \A k \in Events : /\ DB!Cancelled[k] \in {timers[k], DB!Over}
                                /\ timers[k].pc # "waiting" => DB!Cancelled[k] = timers[k]
                                /\ timers[k].pc # "none" => DB!Cancelled[k].pc # "none"
<1>1. DB!Cancelled = [k \in Events |->
         IF k = timer /\ timers[k].pc = "waiting" THEN DB!Over ELSE timers[k]]
  BY DEF DB!Cancelled, DB!Events, Events
<1>2. \A k \in Events : DB!Cancelled[k] \in {timers[k], DB!Over} /\ timers[k] \in TimerType
  BY <1>1, DebouncerTypes DEF DebouncerInv
<1> QED
  BY <1>1, <1>2, TimerRecords

\* A timer that starts now was called an interval after what was read before now.
LEMMA LateEnough ==
    \A n, i, l \in Nat : l <= n => \A t : t = n + i => t - l >= i
  OBVIOUS

\* The lock is taken, the old timer stopped and the new one started.
LEMMA ScheduleKeeps ==
    ASSUME DebouncerInv, NEW a \in Apps, DB!Schedule(a), UNCHANGED now
    PROVE  DebouncerInv'
<1> DEFINE e == app[a].event
           new == [pc |-> "waiting", time |-> now + Interval, event |-> e]
<1>1. /\ UNCHANGED <<style, pending, count, late, lost, received, failed>>
      /\ app[a].pc = "locking"
      /\ last' = IF style = "class" THEN app[a].time ELSE last
      /\ timers' = [DB!Cancelled EXCEPT ![e] = new]
      /\ timer' = e
      /\ app' = [app EXCEPT ![a] = DB!NotHere]
  BY DEF DB!Schedule, DB!history
<1>2. /\ e \in Events /\ e <= count /\ timers[e].pc = "none"
      /\ app[a].time \in Nat /\ app[a].time <= now /\ last \in Nat /\ last <= now /\ now \in Nat
      /\ style \in {"class", "decorator"}
  BY <1>1, DebouncerTypes DEF DebouncerInv, DebouncerTypeOK, Waiting, Triggering, Ordered
<1>3. /\ new \in TimerType /\ new.pc = "waiting" /\ new.event = e
      /\ new.time = now + Interval /\ now + Interval \in Nat
  BY <1>2, Numbers DEF TimerType, TimerPlaces, Events
<1> HIDE DEF new
<1>4. /\ timers' \in [Events -> TimerType] /\ timers'[e] = new
      /\ \A k \in Events \ {e} : /\ timers'[k] \in {timers[k], DB!Over}
                                 /\ timers[k].pc # "waiting" => timers'[k] = timers[k]
                                 /\ timers[k].pc # "none" => timers'[k].pc # "none"
  BY <1>1, <1>2, <1>3, CancelledTimers
<1>5. app'[a] = DB!NotHere /\ \A b \in Apps \ {a} : app'[b] = app[b]
  BY <1>1 DEF DebouncerInv, DebouncerTypeOK
<1>6. DebouncerTypeOK'
  <2>1. app' \in [Apps -> AppType]
    BY <1>1, TimerRecords DEF DebouncerInv, DebouncerTypeOK
  <2>2. timer' \in 0..MaxTriggers /\ last' \in Nat
    BY <1>1, <1>2, Numbers DEF Events
  <2> QED
    BY <1>1, <1>4, <2>1, <2>2 DEF DebouncerInv, DebouncerTypeOK
<1>7. Ordered'
  <2>1. \A b \in Apps : app'[b].time <= now' /\ app'[b].event <= count'
    BY <1>1, <1>2, <1>5, TimerRecords, DebouncerTypes DEF DebouncerInv, Ordered
  <2>2. last' <= now' /\ pending' <= count'
    BY <1>1, <1>2 DEF DebouncerInv, Ordered
  <2>3. \A k \in Events : timers'[k].event <= count'
    BY <1>1, <1>2, <1>3, <1>4, TimerRecords, DebouncerTypes DEF DebouncerInv, Ordered
  <2>4. ASSUME NEW k \in Events, k > count'
        PROVE  timers'[k].pc = "none" /\ received'[k] = 0
    <3>1. k # e
      BY <1>1, <1>2, <2>4, DebouncerTypes, Numbers DEF DebouncerInv, Events
    <3> QED
      BY <1>1, <1>4, <2>4, <3>1 DEF DebouncerInv, Ordered
  <2> QED
    BY <2>1, <2>2, <2>3, <2>4 DEF Ordered
<1>8. Waiting' /\ Unpublished'
  <2>1. ASSUME NEW b \in Apps, Triggering(b)'
        PROVE  /\ b # a /\ app'[b] = app[b] /\ Triggering(b)
               /\ app[b].event # 0 /\ app[b].event # e /\ timers[app[b].event].pc = "none"
    <3>1. b # a /\ app'[b] = app[b]
      BY <1>5, <2>1, TimerRecords DEF Triggering
    <3>2. Triggering(a) /\ Triggering(b)
      BY <1>1, <2>1, <3>1 DEF Triggering
    <3> QED
      BY <3>1, <3>2 DEF DebouncerInv, Waiting
  <2>2. ASSUME NEW b \in Apps, Triggering(b)'
        PROVE  timers'[app'[b].event].pc = "none"
    BY <1>4, <2>1, <2>2, DebouncerTypes DEF DebouncerInv
  <2>3. Waiting'
    BY <2>1, <2>2 DEF DebouncerInv, Waiting
  <2>4. ASSUME NEW b \in Apps, app'[b].pc = "publishing", NEW k \in Events
        PROVE  timers'[k].event # app[b].event
    <3>1. app[b].pc = "publishing" /\ app[b].event # 0 /\ app[b].event # e
      BY <2>1, <2>4 DEF Triggering
    <3>2. timers[k].event # app[b].event
      BY <3>1 DEF DebouncerInv, Unpublished
    <3> QED
      BY <1>3, <1>4, <3>1, <3>2, TimerRecords
  <2>5. Unpublished'
    BY <1>1, <2>1, <2>4 DEF DebouncerInv, Unpublished, Triggering
  <2> QED
    BY <2>3, <2>5
<1>9. Decorator'
  <2>1. SUFFICES ASSUME style = "decorator" PROVE Decorator'
    BY <1>1 DEF Decorator
  <2>2. \A b \in Apps : app'[b].pc # "flushing"
    BY <1>5, <2>1, TimerRecords DEF DebouncerInv, Decorator
  <2>3. ASSUME NEW k \in Events
        PROVE  /\ timers'[k].pc \notin {"testing", "clearing"}
               /\ timers'[k].pc \notin {"none", "over"} => timers'[k].event = k
               /\ timers'[k].pc # "over" => received'[k] = 0
    BY <1>1, <1>2, <1>3, <1>4, <2>1, TimerRecords DEF DebouncerInv, Decorator
  <2> QED
    BY <1>1, <2>1, <2>2, <2>3 DEF DebouncerInv, Decorator
<1>10. InHand'
  <2>1. ASSUME NEW k \in Events, timers'[k].pc \in {"running", "clearing"}
        PROVE  timers'[k] = timers[k]
    BY <1>3, <1>4, <2>1, TimerRecords
  <2> QED
    BY <1>1, <1>5, <2>1, TimerRecords DEF DebouncerInv, InHand
<1>11. Again'
  <2>1. ASSUME NEW k \in Events, timers[k].pc = "clearing"
        PROVE  timers'[k].pc = "clearing"
    BY <1>2, <1>4, <2>1
  <2> QED
    BY <1>1, <2>1 DEF DebouncerInv, Again
<1>12. Passes(timer)' /\ timer' # 0
  <2>1. last' \in Nat /\ last' <= now
    BY <1>1, <1>2
  <2>2. e # 0
    BY <1>2 DEF Events
  <2>3. timers'[timer'] = new /\ timer' # 0
    BY <1>1, <1>4, <2>2
  <2>4. new.time - last' >= Interval
    BY <1>2, <1>3, <2>1, Numbers, LateEnough
  <2> QED
    BY <1>3, <2>3, <2>4 DEF Passes
<1>13. CaredFor' /\ Delivering'
  BY <1>12 DEF CaredFor, Delivering
<1> QED
  BY <1>6, <1>7, <1>8, <1>9, <1>10, <1>11, <1>13 DEF DebouncerInv

\* cancel(), and flush() up to its reading, stop the timer.
LEMMA StopKeeps ==
    ASSUME DebouncerInv, NEW a \in Apps, DB!Cancel(a) \/ DB!Flush(a), UNCHANGED now
    PROVE  DebouncerInv'
<1>1. /\ UNCHANGED <<style, last, count, late, lost, received, failed>>
      /\ style = "class"
      /\ timers' = DB!Cancelled
      /\ timer' = 0
  BY DEF DB!Cancel, DB!Flush, DB!history
<1>2. /\ timers' \in [Events -> TimerType]
      /\ \A k \in Events : /\ timers'[k] \in {timers[k], DB!Over}
                           /\ timers[k].pc # "waiting" => timers'[k] = timers[k]
  BY <1>1, CancelledTimers
<1>3. PICK r \in AppType :
          /\ app' = [app EXCEPT ![a] = r]
          /\ r.time = 0 /\ r.event <= count
          /\ \/ pending' = 0 /\ app' = app
             \/ pending' = pending /\ r.event = pending /\ r.pc = "flushing"
  <2>1. CASE DB!Cancel(a)
    <3>1. app' = [app EXCEPT ![a] = DB!NotHere] /\ app' = app /\ pending' = 0
      BY <2>1 DEF DB!Cancel, DebouncerInv, DebouncerTypeOK
    <3>2. DB!NotHere.event <= count
      BY TimerRecords, DebouncerTypes DEF DebouncerInv
    <3> QED
      BY <3>1, <3>2, TimerRecords
  <2>2. CASE DB!Flush(a)
    <3> DEFINE r == [pc |-> "flushing", time |-> 0, event |-> pending]
    <3>1. app' = [app EXCEPT ![a] = r] /\ pending' = pending
      BY <2>2 DEF DB!Flush
    <3>2. r \in AppType /\ r.time = 0 /\ r.event = pending /\ r.pc = "flushing"
      BY DEF DebouncerInv, DebouncerTypeOK, AppType
    <3>3. pending <= count
      BY DEF DebouncerInv, Ordered
    <3> HIDE DEF r
    <3>4. r.event <= count
      BY <3>2, <3>3
    <3> QED
      BY <3>1, <3>2, <3>4
  <2> QED
    BY <2>1, <2>2
<1>4. app'[a] = r /\ \A b \in Apps \ {a} : app'[b] = app[b]
  BY <1>3 DEF DebouncerInv, DebouncerTypeOK
<1>5. DebouncerTypeOK'
  <2>1. pending' \in 0..MaxTriggers /\ timer' \in 0..MaxTriggers
    BY <1>1, <1>3, Numbers DEF DebouncerInv, DebouncerTypeOK
  <2>2. app' \in [Apps -> AppType]
    BY <1>3 DEF DebouncerInv, DebouncerTypeOK
  <2> QED
    BY <1>1, <1>2, <2>1, <2>2 DEF DebouncerInv, DebouncerTypeOK
<1>6. Ordered'
  <2>1. \A b \in Apps : app'[b].time <= now' /\ app'[b].event <= count'
    <3>1. r.time <= now
      BY <1>3, DebouncerTypes DEF DebouncerInv
    <3> QED
      BY <1>1, <1>3, <1>4, <3>1 DEF DebouncerInv, Ordered
  <2>2. 0 <= count /\ pending' <= count'
    BY <1>1, <1>3, DebouncerTypes DEF DebouncerInv, Ordered
  <2>3. \A k \in Events : timers'[k].event <= count'
    BY <1>1, <1>2, <2>2, TimerRecords DEF DebouncerInv, Ordered
  <2>4. \A k \in Events : k > count' => timers'[k].pc = "none" /\ received'[k] = 0
    BY <1>1, <1>2 DEF DebouncerInv, Ordered
  <2> QED
    BY <1>1, <2>1, <2>2, <2>3, <2>4 DEF DebouncerInv, Ordered
<1>7. Waiting' /\ Unpublished'
  <2>1. ASSUME NEW b \in Apps, Triggering(b)'
        PROVE  /\ app'[b] = app[b] /\ Triggering(b) /\ app[b].event \in Events
               /\ timers[app[b].event].pc = "none"
    <3>1. app'[b] = app[b]
      BY <1>3, <1>4, <2>1 DEF Triggering
    <3> QED
      BY <2>1, <3>1, DebouncerTypes DEF DebouncerInv, Waiting, Triggering
  <2>2. Waiting'
    BY <1>2, <2>1 DEF DebouncerInv, Waiting
  <2>3. ASSUME NEW b \in Apps, app'[b].pc = "publishing", NEW k \in Events
        PROVE  timers'[k].event # app[b].event
    <3>1. app[b].pc = "publishing" /\ app[b].event \in Events
      BY <2>1, <2>3 DEF Triggering
    <3> QED
      BY <1>2, <3>1, TimerRecords DEF DebouncerInv, Unpublished, Events
  <2>4. Unpublished'
    BY <1>1, <1>3, <2>1, <2>3 DEF DebouncerInv, Unpublished, Triggering, Events
  <2> QED
    BY <2>2, <2>4
<1>8. InHand'
  <2>1. ASSUME NEW k \in Events, timers'[k].pc \in {"running", "clearing"}
        PROVE  timers'[k] = timers[k]
    BY <1>2, <2>1, TimerRecords
  <2>2. ASSUME NEW k \in Events, timers'[k].pc \in {"running", "clearing"}
        PROVE  pending' \in {0, timers'[k].event} \union late'
    BY <1>1, <1>3, <2>1, <2>2 DEF DebouncerInv, InHand
  <2>3. ASSUME NEW b \in Apps, app'[b].pc = "flushing"
        PROVE  pending' \in {0, app'[b].event} \union late'
    BY <1>1, <1>3, <1>4, <2>3 DEF DebouncerInv, InHand
  <2> QED
    BY <1>1, <2>2, <2>3 DEF DebouncerInv, InHand
<1>9. Again'
  <2>1. ASSUME NEW k \in Events, timers[k].pc = "clearing"
        PROVE  timers'[k].pc = "clearing"
    BY <1>2, <2>1
  <2> QED
    BY <1>1, <1>3, <2>1 DEF DebouncerInv, Again
<1>10. Decorator' /\ Delivering' /\ CaredFor'
  BY <1>1, <1>3, <1>4 DEF Decorator, Delivering, CaredFor
<1> QED
  BY <1>5, <1>6, <1>7, <1>8, <1>9, <1>10 DEF DebouncerInv

\* flush() clears what it finds.
LEMMA FlushReturnsKeeps ==
    ASSUME DebouncerInv, NEW a \in Apps, DB!FlushReturns(a), UNCHANGED now
    PROVE  DebouncerInv'
<1>1. /\ UNCHANGED <<style, last, timer, timers, count, late, received, failed>>
      /\ app[a].pc = "flushing"
      /\ pending' = 0
      /\ lost' = lost \union ({pending} \ {0, app[a].event})
      /\ app' = [app EXCEPT ![a] = DB!NotHere]
  BY DEF DB!FlushReturns, DB!Clear
<1>2. app'[a] = DB!NotHere /\ \A b \in Apps \ {a} : app'[b] = app[b]
  BY <1>1 DEF DebouncerInv, DebouncerTypeOK
<1>3. style = "class"
  BY <1>1 DEF DebouncerInv, DebouncerTypeOK, Decorator
<1>4. DebouncerTypeOK'
  <2>1. app' \in [Apps -> AppType]
    BY <1>1, TimerRecords DEF DebouncerInv, DebouncerTypeOK
  <2> QED
    BY <1>1, <2>1, Numbers DEF DebouncerInv, DebouncerTypeOK
<1>5. Ordered'
  <2>1. 0 <= count /\ 0 <= now
    BY DebouncerTypes DEF DebouncerInv
  <2> QED
    BY <1>1, <1>2, <2>1, TimerRecords DEF DebouncerInv, Ordered
<1>6. Waiting' /\ Unpublished'
  <2>1. ASSUME NEW b \in Apps, Triggering(b)'
        PROVE  app'[b] = app[b] /\ Triggering(b) /\ app[b].event # 0
    BY <1>2, <2>1, TimerRecords DEF DebouncerInv, Waiting, Triggering
  <2> QED
    BY <1>1, <2>1 DEF DebouncerInv, Waiting, Unpublished, Triggering
<1>7. InHand'
  BY <1>1, <1>2, TimerRecords DEF DebouncerInv, InHand
<1>8. Decorator' /\ Again' /\ CaredFor' /\ Delivering'
  BY <1>1, <1>3 DEF Decorator, Again, CaredFor, Delivering
<1> QED
  BY <1>4, <1>5, <1>6, <1>7, <1>8 DEF DebouncerInv

\* Time only makes what is past longer ago.
LEMMA TickKeeps ==
    ASSUME DebouncerInv, LimiterInv, Tick
    PROVE  DebouncerInv' /\ LimiterInv'
<1>1. /\ now' = now + 1 /\ now \in Nat /\ now' \in Nat /\ now <= now'
      /\ UNCHANGED <<style, last, pending, timer, timers, app, count, late, lost,
                     received, failed, callTimes, caller, admitted>>
  BY DEF Tick, DebouncerInv, DebouncerTypeOK
<1>2. DebouncerTypeOK' /\ Waiting' /\ Unpublished' /\ Decorator' /\ InHand' /\ Again'
  BY <1>1 DEF DebouncerInv, DebouncerTypeOK, Waiting, Triggering, Unpublished, Decorator,
              InHand, Again
<1>3. Ordered'
  <2>1. \A n \in Nat : n <= now => n <= now'
    BY <1>1
  <2> QED
    BY <1>1, <2>1, DebouncerTypes DEF DebouncerInv, Ordered
<1>4. CaredFor' /\ Delivering'
  BY <1>1 DEF DebouncerInv, CaredFor, Delivering, Passes
<1>5. \A c \in Callers : caller'[c].at <= now'
  BY <1>1 DEF LimiterInv, LimiterTypeOK, CallerType
<1> QED
  BY <1>1, <1>2, <1>3, <1>4, <1>5, PurgeKeeps DEF DebouncerInv, LimiterInv, LimiterTypeOK

-----------------------------------------------------------------------------
(* The composed system.                                                    *)

Inv == LimiterInv /\ DebouncerInv

LEMMA InitInv == Init => Inv
<1> SUFFICES ASSUME Init PROVE Inv
  OBVIOUS
<1>1. /\ now = 0 /\ style \in {"decorator", "class"} /\ last = 0 /\ pending = 0 /\ timer = 0
      /\ timers = [k \in Events |-> DB!NoTimer] /\ app = [a \in Apps |-> DB!NotHere]
      /\ count = 0 /\ late = {} /\ lost = {} /\ failed = {}
      /\ received = [e \in Events |-> 0]
  BY DEF Init, DB!Init, DB!Events, Events
<1>2. callTimes = {} /\ admitted = << >> /\ caller = [c \in Callers |-> RL!Idle]
  BY DEF Init, RL!Init, Callers
<1>3. LimiterInv
  <2>1. admitted \in Seq([at : Nat, on : Nat]) /\ DOMAIN admitted = {}
    BY <1>2
  <2>2. caller \in [Callers -> CallerType] /\ \A c \in Callers : caller[c].at <= now
    BY <1>1, <1>2, IdleCaller
  <2>3. Window
    <3>1. ASSUME NEW S \in SUBSET {} PROVE Cardinality(S) = 0
      BY FS_EmptySet
    <3> QED
      BY <2>1, <3>1, Numbers DEF Window
  <2> QED
    BY <1>1, <1>2, <2>1, <2>2, <2>3 DEF LimiterInv, LimiterTypeOK
<1>4. DebouncerInv
  <2>1. DebouncerTypeOK
    BY <1>1, TimerRecords, Numbers DEF DebouncerTypeOK
  <2>2. Ordered
    BY <1>1, TimerRecords, Numbers DEF Ordered
  <2> QED
    BY <1>1, <2>1, <2>2, TimerRecords
    DEF DebouncerInv, Waiting, Triggering, Unpublished, Decorator, InHand, Again,
        CaredFor, Delivering
<1> QED
  BY <1>3, <1>4 DEF Inv

\* The two parts keep apart.
LEMMA LimiterAlone ==
    ASSUME LimiterInv, UNCHANGED <<now, callTimes, caller, admitted>>
    PROVE  LimiterInv'
  BY DEF LimiterInv, LimiterTypeOK, Listed, Window

LEMMA DebouncerAlone ==
    ASSUME DebouncerInv,
           UNCHANGED <<now, style, last, pending, timer, timers, app, count,
                       late, lost, received, failed>>
    PROVE  DebouncerInv'
  BY DEF DebouncerInv, DebouncerTypeOK, Ordered, Waiting, Triggering, Unpublished,
         Decorator, InHand, Again, CaredFor, Delivering, Passes

LEMMA NextInv == Inv /\ [Next]_vars => Inv'
<1> SUFFICES ASSUME Inv, [Next]_vars PROVE Inv'
  OBVIOUS
<1> USE DEF Inv
<1>1. CASE Tick
  BY <1>1, TickKeeps
<1>2. ASSUME NEW a \in Apps, AppCalls(a) PROVE Inv'
  <2>1. a \in Callers
    BY DEF Callers
  <2>2. CASE DBOnly /\ DB!Trigger(a)
    BY <2>2, TriggerKeeps, LimiterAlone DEF DBOnly
  <2>3. CASE DBOnly /\ (DB!Cancel(a) \/ DB!Flush(a))
    BY <2>3, StopKeeps, LimiterAlone DEF DBOnly
  <2>4. ASSUME NEW op \in Queries, RLOnly, RL!Begin(a, op) PROVE Inv'
    <3>1. op \in {"call", "acquire", "remaining", "reset"}
      BY TimedAssumption
    <3> QED
      BY <2>1, <2>4, <3>1, BeginLimiter, DebouncerAlone DEF RLOnly
  <2> QED
    BY <1>2, <2>2, <2>3, <2>4 DEF AppCalls
<1>3. ASSUME NEW a \in Apps, AppSteps(a) PROVE Inv'
  <2>1. a \in Callers
    BY DEF Callers
  <2>2. CASE DBOnly /\ DB!Schedule(a)
    BY <2>2, ScheduleKeeps, LimiterAlone DEF DBOnly
  <2>3. CASE DBOnly /\ DB!FlushReturns(a)
    BY <2>3, FlushReturnsKeeps, LimiterAlone DEF DBOnly
  <2>4. CASE RLOnly /\ RL!Admit(a)
    BY <2>1, <2>4, AdmitLimiter, DebouncerAlone DEF RLOnly
  <2>5. CASE RLOnly /\ (RL!Refuse(a) \/ RL!Query(a))
    BY <2>1, <2>5, PurgeLimiter, DebouncerAlone DEF RLOnly
  <2>6. CASE DBOnly /\ DB!Publish(a)
    BY <2>6, PublishKeeps, LimiterAlone DEF DBOnly
  <2> QED
    BY <1>3, <2>2, <2>3, <2>4, <2>5, <2>6 DEF AppSteps
<1>4. ASSUME NEW k \in 1..MaxTriggers, TimerSteps(k) PROVE Inv'
  <2>1. k \in Callers /\ k \in Events
    BY DEF Callers, Events
  <2>2. CASE DBOnly /\ DB!Fire(k)
    BY <2>1, <2>2, FireKeeps, LimiterAlone DEF DBOnly
  <2>3. CASE DBOnly /\ (DB!Check(k) \/ DB!Test(k))
    BY <2>1, <2>3, GoesKeeps, LimiterAlone DEF DBOnly
  <2>4. CASE DBOnly /\ DB!TimerClears(k)
    BY <2>1, <2>4, ClearsKeeps, LimiterAlone DEF DBOnly
  <2>5. CASE DB!Deliver(k) /\ RL!Begin(k, "call") /\ UNCHANGED now
    BY <2>1, <2>5, DeliverKeeps, BeginLimiter
  <2>6. CASE RLOnly /\ RL!Admit(k)
    BY <2>1, <2>6, AdmitLimiter, DebouncerAlone DEF RLOnly
  <2>7. CASE /\ DB!Delivered(k) \/ DB!Failed(k)
             /\ RL!Refuse(k) \/ RL!FunctionEnds(k)
             /\ UNCHANGED now
    BY <2>1, <2>7, CallbackKeeps, PurgeLimiter
  <2> QED
    BY <1>4, <2>2, <2>3, <2>4, <2>5, <2>6, <2>7 DEF TimerSteps
<1>5. CASE UNCHANGED vars
  BY <1>5, LimiterAlone, DebouncerAlone DEF vars
<1> QED
  BY <1>1, <1>2, <1>3, <1>4, <1>5 DEF Next

LEMMA Invariant == Spec => []Inv
<1>1. Init => Inv
  BY InitInv
<1>2. Inv /\ [Next]_vars => Inv'
  BY NextInv
<1> QED
  BY <1>1, <1>2, PTL DEF Spec

\* The limiter of utilities/rate_limit.py admits at most "calls" calls in a period:
\* of any Calls + 1 admitted calls two decisions are a period apart, by the clock
\* that each caller read before it took the lock.
THEOREM WindowBoundHolds == Spec => []WindowBound
<1>1. Inv => WindowBound
  BY WindowIsBound DEF Inv, LimiterInv
<1> QED
  BY <1>1, Invariant, PTL

\* When all timers and calls of utilities/debounce.py are over, the class has no
\* pending event that no timer will deliver, except one whose callback raised, and
\* the decorator delivered the event of its last timer.
THEOREM NothingStrandedHolds == Spec => []NothingStranded
<1>1. Inv => NothingStranded
  <2> SUFFICES ASSUME DebouncerInv, DB!Quiet
               PROVE  /\ pending \in failed \union {0}
                      /\ style = "decorator" /\ timer # 0 => received[timer] = 1
    BY DEF Inv, NothingStranded, DB!NothingStranded
  <2>1. /\ \A a \in Apps : app[a].pc = "none"
        /\ \A k \in Events : timers[k].pc \in {"none", "over"}
    BY TimerRecords DEF DB!Quiet, DB!Events, Events
  <2>2. timer \in Events \union {0} /\ style \in {"decorator", "class"}
    BY DebouncerTypes DEF DebouncerInv, DebouncerTypeOK
  <2>3. CASE style = "class"
    BY <2>1, <2>2, <2>3 DEF DebouncerInv, CaredFor, Passes
  <2>4. CASE style = "decorator"
    <3>1. pending = 0
      BY <2>4 DEF DebouncerInv, Decorator
    <3> QED
      BY <2>1, <2>2, <2>4, <3>1 DEF DebouncerInv, Delivering, Passes
  <2> QED
    BY <2>2, <2>3, <2>4
<1> QED
  BY <1>1, Invariant, PTL

\* An event of the class of utilities/debounce.py that nobody received is one that
\* came while a timer or a flush was about to clear what it had read before.
THEOREM LostOnlyInOverlapHolds == Spec => []LostOnlyInOverlap
<1>1. Inv => LostOnlyInOverlap
  BY DEF Inv, DebouncerInv, InHand, LostOnlyInOverlap, DB!LostOnlyInOverlap
<1> QED
  BY <1>1, Invariant, PTL

\* A step that starts a callback of the class passes an event that was received
\* before only if the timer that delivered it is still to clear it, or its callback
\* raised.
THEOREM TwiceOnlyInOverlapHolds == Spec => TwiceOnlyInOverlap
<1>1. Inv => DB!TwiceOnlyInOverlap
  <2> SUFFICES ASSUME DebouncerInv, NEW k \in Events,
                      DB!Deliver(k), style = "class", pending \notin failed \union {0},
                      \A j \in Events \ {k} : timers[j].pc \notin {"running", "clearing"}
               PROVE  received[pending] = 0
    BY DEF Inv, DB!TwiceOnlyInOverlap, DB!Events, Events
  <2>1. timers[k].pc = "calling"
    BY DEF DB!Deliver
  <2>2. \A j \in Events : timers[j].pc # "clearing"
    BY <2>1
  <2> QED
    BY <2>2 DEF DebouncerInv, Again
<1> QED
  BY <1>1, Invariant, PTL DEF TwiceOnlyInOverlap
=============================================================================
