------------------------ MODULE RedisTransportProofs ------------------------
(***************************************************************************)
(* Invariants of the Redis transport, proved for every number of tasks,    *)
(* consumers, calls and faults.                                            *)
(***************************************************************************)
EXTENDS RedisTransport, FiniteSetTheorems, TLAPS

-----------------------------------------------------------------------------
(* The inductive invariant.                                                *)

OnConsumer == Steps \ {"idle", "transport", "gather", "client"}
Iterating == {"poll", "reading", "yielded", "finally"}

\* What the step of p says about its call and its consumer.
ProcOK(p) ==
    /\ proc[p].pc \in OnConsumer => proc[p].cons \in Consumers /\ state[proc[p].cons] # "none"
    /\ proc[p].iter => proc[p].pc \in Iterating \union {"subscribe", "subscribing"}
    /\ proc[p].pc \in Iterating => proc[p].iter
    /\ proc[p].iter => proc[p].cons \in consuming
    /\ proc[p].pc = "subscribing" => state[proc[p].cons] = "open"
    /\ proc[p].pc \in {"unsubscribe", "aclose"} => state[proc[p].cons] = "closed"

\* The task of gather() for consumer c does nothing but close c, and exists only in a
\* close of the transport.
GatherOK(c) ==
    /\ proc[c].pc \in {"idle", "close", "unsubscribe", "aclose"}
    /\ proc[c].pc # "idle" => closed /\ proc[c].cons = c

\* Two iterators are on two consumers.
Exclusive ==
    \A p, q \in Procs :
        proc[p].iter /\ proc[q].iter /\ proc[p].cons = proc[q].cons => p = q

\* Only a cancellation leaves _consuming set without an iterator.
Consumed == \A c \in consuming \ cut : \E p \in Procs : proc[p].iter /\ proc[p].cons = c

\* An open consumer is known to the transport, only an open one has a Pub/Sub object,
\* and its subscription is that object's, unless a failed cleanup left it.
OpenOK(c) ==
    /\ state[c] = "open" => c \in live
    /\ c \in pubsub => state[c] = "open"
    /\ state[c] = "open" /\ c \in subs => c \in pubsub \/ c \in cut
    /\ c \in live \union subs => state[c] # "none"
    /\ c \in live \union subs /\ state[c] = "closed" => Closing(c) \/ c \in cut

\* One task at most gathers; when it does, whatever is open is about to be closed by
\* a task of its own, and when it is done nothing is open.
TransportOK ==
    /\ \A p, q \in Procs : At(p, "gather") /\ At(q, "gather") => p = q
    /\ \A p \in Procs : At(p, "gather") =>
          closed /\ \A c \in Consumers : state[c] = "open" => At(c, "close")
    /\ ended => closed /\ \A c \in Consumers : state[c] # "open"

Inv ==
    /\ TypeOK
    /\ \A p \in Procs : ProcOK(p)
    /\ \A c \in Consumers : GatherOK(c) /\ OpenOK(c)
    /\ Exclusive
    /\ Consumed
    /\ TransportOK

-----------------------------------------------------------------------------
(* Steps of one task.                                                      *)

ProcType == [pc : Steps, cons : Consumers \union {"none"}, iter : BOOLEAN]

Rec(pc, c, iter) == [pc |-> pc, cons |-> c, iter |-> iter]

\* A record of a task is its three fields.
LEMMA RecProperties ==
    ASSUME NEW pc \in Steps, NEW c \in Consumers \union {"none"}, NEW iter \in BOOLEAN
    PROVE  /\ Rec(pc, c, iter) \in ProcType
           /\ Rec(pc, c, iter).pc = pc
           /\ Rec(pc, c, iter).cons = c
           /\ Rec(pc, c, iter).iter = iter
  BY DEF Rec, ProcType

LEMMA ProcFields ==
    ASSUME TypeOK, NEW p \in Procs
    PROVE  /\ proc[p].pc \in Steps
           /\ proc[p].cons \in Consumers \union {"none"}
           /\ proc[p].iter \in BOOLEAN
  BY DEF TypeOK

\* Task p steps to a record with these fields.
StepsTo(p, r, pc, c, iter) ==
    /\ proc' = [proc EXCEPT ![p] = r]
    /\ r.pc = pc
    /\ r.cons = c
    /\ r.iter = iter

\* Going on changes the step only, ...
LEMMA GoesRec ==
    ASSUME TypeOK, NEW p \in Procs, NEW pc \in Steps, Goes(p, pc)
    PROVE  \E r \in ProcType : StepsTo(p, r, pc, proc[p].cons, proc[p].iter)
<1> DEFINE r == proc[p]
           n == Rec(pc, r.cons, r.iter)
<1>1. r \in [pc : Steps, cons : Consumers \union {"none"}, iter : BOOLEAN]
  BY DEF TypeOK
<1>2. proc' = [proc EXCEPT ![p] = [r EXCEPT !.pc = pc]]
  BY DEF Goes
<1>3. n \in ProcType /\ n.pc = pc /\ n.cons = proc[p].cons /\ n.iter = proc[p].iter
  <2>1. proc[p].cons \in Consumers \union {"none"} /\ proc[p].iter \in BOOLEAN
    BY ProcFields
  <2> QED
    BY <2>1, RecProperties
<1>4. [r EXCEPT !.pc = pc] = n
  <2> HIDE DEF r
  <2> QED
    BY <1>1 DEF Rec
<1>5. proc' = [proc EXCEPT ![p] = n]
  BY <1>2, <1>4
<1> HIDE DEF n, r
<1> QED
  BY <1>3, <1>5 DEF StepsTo

\* ... an end forgets the call, ...
LEMMA EndsRec ==
    ASSUME TypeOK, NEW p \in Procs, Ends(p)
    PROVE  \E r \in ProcType : StepsTo(p, r, "idle", "none", FALSE)
<1>1. proc' = [proc EXCEPT ![p] = NoProc]
  BY DEF Ends
<1>2. NoProc \in ProcType /\ NoProc.pc = "idle" /\ NoProc.cons = "none" /\ NoProc.iter = FALSE
  BY DEF NoProc, ProcType, Steps
<1> QED
  BY <1>1, <1>2 DEF StepsTo

\* ... and a failure leads out of an iterator or ends the call.
LEMMA FailsRec ==
    ASSUME TypeOK, NEW p \in Procs, Fails(p)
    PROVE  \/ proc[p].iter /\ \E r \in ProcType : StepsTo(p, r, "finally", proc[p].cons, proc[p].iter)
           \/ ~proc[p].iter /\ \E r \in ProcType : StepsTo(p, r, "idle", "none", FALSE)
<1>1. "finally" \in Steps
  BY DEF Steps
<1>2. proc[p].iter => Goes(p, "finally")
  BY DEF Fails
<1>3. ~proc[p].iter => Ends(p)
  BY DEF Fails
<1> QED
  BY <1>1, <1>2, <1>3, GoesRec, EndsRec

LEMMA SubscribedRec ==
    ASSUME TypeOK, NEW p \in Procs, Subscribed(p)
    PROVE  \/ proc[p].iter /\ \E r \in ProcType : StepsTo(p, r, "poll", proc[p].cons, proc[p].iter)
           \/ ~proc[p].iter /\ \E r \in ProcType : StepsTo(p, r, "idle", "none", FALSE)
<1>1. "poll" \in Steps
  BY DEF Steps
<1>2. proc[p].iter => Goes(p, "poll")
  BY DEF Subscribed
<1>3. ~proc[p].iter => Ends(p)
  BY DEF Subscribed
<1> QED
  BY <1>1, <1>2, <1>3, GoesRec, EndsRec

\* What a step of p to r may do without looking at anything but r: it does not begin
\* to iterate, to close or to gather, and ends neither an iterator nor a close of its
\* own unless the consumer is counted among those cut short.
Harmless(p, r) ==
    /\ r.pc \in OnConsumer => r.cons \in Consumers /\ state[r.cons] # "none"
    /\ r.iter => /\ proc[p].iter /\ r.cons = proc[p].cons
                 /\ r.pc \in Iterating \union {"subscribe", "subscribing"}
    /\ r.pc \in Iterating => r.iter
    /\ r.pc = "subscribing" => state[r.cons] = "open"
    /\ r.pc \in {"unsubscribe", "aclose"} => state[r.cons] = "closed"
    /\ r.pc # "gather"
    /\ p \in Consumers =>
          /\ r.pc \in {"idle", "close", "unsubscribe", "aclose"}
          /\ r.pc # "idle" => proc[p].pc # "idle" /\ r.cons = p
          /\ proc[p].pc = "close" => r.pc = "close" \/ state[p] # "open"
    /\ proc[p].iter => r.iter \/ proc[p].cons \in cut'
    /\ proc[p].pc \in {"unsubscribe", "aclose"} =>
          \/ r.pc \in {"unsubscribe", "aclose"} /\ r.cons = proc[p].cons
          \/ proc[p].cons \in cut'

LEMMA TaskStep ==
    ASSUME Inv, NEW p \in Procs, NEW r \in ProcType, Harmless(p, r),
           proc' = [proc EXCEPT ![p] = r],
           UNCHANGED <<state, consuming, pubsub, live, closed>>,
           ended' \in BOOLEAN, ended' => closed /\ \A c \in Consumers : state[c] # "open",
           \/ subs' \subseteq subs
           \/ /\ subs' \subseteq subs \union {proc[p].cons}
              /\ proc[p].cons \in cut' /\ state[proc[p].cons] # "none",
           cut \subseteq cut', cut' \subseteq Consumers,
           calls' \in 0..MaxCalls, faults' \in 0..MaxFaults
    PROVE  Inv'
<1>1. /\ proc'[p] = r
      /\ \A q \in Procs : q # p => proc'[q] = proc[q]
  BY DEF Inv, TypeOK
<1>2. TypeOK'
  BY DEF Inv, TypeOK, ProcType
<1>3. ASSUME NEW q \in Procs PROVE ProcOK(q)'
  <2>1. CASE q = p
    BY <1>1, <2>1 DEF Inv, ProcOK, Harmless
  <2>2. CASE q # p
    BY <1>1, <2>2 DEF Inv, ProcOK
  <2> QED
    BY <2>1, <2>2
<1>4. ASSUME NEW c \in Consumers PROVE GatherOK(c)'
  BY <1>1 DEF Inv, GatherOK, Harmless, Procs
<1>5. ASSUME NEW c \in Consumers PROVE OpenOK(c)'
  <2>1. Closing(c) => Closing(c)' \/ c \in cut'
    BY <1>1 DEF Closing, Harmless
  <2> QED
    BY <2>1 DEF Inv, OpenOK
<1>6. Exclusive'
  BY <1>1 DEF Inv, Exclusive, Harmless
<1>7. Consumed'
  BY <1>1 DEF Inv, Consumed, Harmless
<1>8. TransportOK'
  <2>1. \A q \in Procs : At(q, "gather")' => At(q, "gather")
    BY <1>1 DEF At, Harmless
  <2>2. \A c \in Consumers : At(c, "close") /\ state[c] = "open" => At(c, "close")'
    BY <1>1 DEF At, Harmless, Procs
  <2> QED
    BY <2>1, <2>2 DEF Inv, TransportOK
<1> QED
  BY <1>2, <1>3, <1>4, <1>5, <1>6, <1>7, <1>8 DEF Inv

\* A step of p that changes at most p and the bounds: the record it leads to.
Quiet == UNCHANGED <<state, consuming, pubsub, live, closed, subs, ended>>

\* A failed subscription changes nothing else, or leaves what it left to the server.
LeftBehind(c) ==
    /\ UNCHANGED <<state, consuming, pubsub, live, closed, ended>>
    /\ \/ UNCHANGED <<subs, cut>>
       \/ subs' = subs \union {c} /\ cut' = cut \union {c}

LEMMA BoundsKept ==
    ASSUME Inv, UNCHANGED bounds
    PROVE  calls' \in 0..MaxCalls /\ faults' \in 0..MaxFaults
  BY DEF Inv, TypeOK, bounds

LEMMA FaultBounded ==
    ASSUME Inv, Fault
    PROVE  calls' \in 0..MaxCalls /\ faults' \in 0..MaxFaults
  BY RedisAssumption DEF Inv, TypeOK, Fault

\* A call begins in a task that is idle.
LEMMA BeginsInv ==
    ASSUME Inv, NEW t \in Tasks, NEW pc \in {"subscribe", "consume", "close", "transport"},
           NEW c \in Consumers \union {"none"},
           pc # "transport" => c \in Consumers /\ state[c] # "none",
           Begins(t, pc, c, FALSE)
    PROVE  Inv'
<1> DEFINE r == Rec(pc, c, FALSE)
<1>1. r \in ProcType /\ r.pc = pc /\ r.cons = c /\ r.iter = FALSE
  BY DEF Rec, ProcType, Steps
<1>2. /\ proc' = [proc EXCEPT ![t] = r]
      /\ UNCHANGED <<state, consuming, pubsub, live, closed, subs, cut, ended>>
      /\ proc[t].pc = "idle"
      /\ calls' \in 0..MaxCalls /\ faults' \in 0..MaxFaults
  BY RedisAssumption DEF Begins, At, Rec, Inv, TypeOK
<1> HIDE DEF r
<1>3. t \in Procs /\ t \notin Consumers /\ cut \subseteq Consumers
  BY RedisAssumption DEF Procs, Inv, TypeOK
<1>4. Harmless(t, r)
  <2>1. ~proc[t].iter
    BY <1>2, <1>3 DEF Inv, ProcOK, Iterating
  <2> QED
    BY <1>1, <1>2, <1>3, <2>1 DEF Harmless, OnConsumer, Iterating
<1> QED
  BY <1>1, <1>2, <1>3, <1>4, TaskStep DEF Inv, TypeOK, TransportOK

LEMMA AppCallInv ==
    ASSUME Inv, NEW t \in Tasks, AppCall(t)
    PROVE  Inv'
<1>1. CASE \E c \in Consumers :
             state[c] # "none" /\ (Subscribe(t, c) \/ Consume(t, c) \/ Close(t, c))
  BY <1>1, BeginsInv DEF Subscribe, Consume, Close
<1>2. CASE CloseTransport(t)
  BY <1>2, BeginsInv DEF CloseTransport
<1> QED
  BY <1>1, <1>2 DEF AppCall

\* The task that steps is at one of the steps on a consumer; only close steps are
\* taken by the tasks of gather().
LEMMA OnConsumerStep ==
    ASSUME Inv, NEW p \in Procs, proc[p].pc \in OnConsumer
    PROVE  /\ proc[p].cons \in Consumers
           /\ state[proc[p].cons] \in {"open", "closed"}
           /\ proc[p].pc \notin {"close", "unsubscribe", "aclose"} => p \notin Consumers
           /\ proc[p].pc \in {"close", "unsubscribe", "aclose", "consume"} => ~proc[p].iter
           /\ p \in Consumers => proc[p].cons = p /\ closed
  BY DEF Inv, TypeOK, ProcOK, GatherOK, OnConsumer, Iterating

\* A failure leads out of an iterator or ends the call.
LEMMA FailureInv ==
    ASSUME Inv, NEW p \in Procs, proc[p].pc \in {"subscribe", "subscribing"}, Fails(p),
           LeftBehind(proc[p].cons), calls' \in 0..MaxCalls, faults' \in 0..MaxFaults
    PROVE  Inv'
<1> DEFINE c == proc[p].cons
<1>1. c \in Consumers /\ state[c] \in {"open", "closed"} /\ p \notin Consumers
  BY OnConsumerStep DEF OnConsumer, Steps
<1>2. PICK r \in ProcType :
         \/ proc[p].iter /\ StepsTo(p, r, "finally", c, proc[p].iter)
         \/ ~proc[p].iter /\ StepsTo(p, r, "idle", "none", FALSE)
  BY FailsRec DEF Inv
<1>3. Harmless(p, r)
  BY <1>1, <1>2 DEF Harmless, Iterating, OnConsumer, StepsTo
<1>4. proc' = [proc EXCEPT ![p] = r]
  BY <1>2 DEF StepsTo
<1>5. /\ \/ subs' \subseteq subs
         \/ subs' \subseteq subs \union {c} /\ c \in cut' /\ state[c] # "none"
      /\ cut \subseteq cut' /\ cut' \subseteq Consumers
  BY <1>1 DEF LeftBehind, Inv, TypeOK
<1>6. UNCHANGED <<state, consuming, pubsub, live, closed, ended>>
  BY DEF LeftBehind
<1> QED
  BY <1>3, <1>4, <1>5, <1>6, TaskStep DEF Inv, TypeOK, TransportOK

\* An iterator goes to another of its steps.
LEMMA IteratingInv ==
    ASSUME Inv, NEW p \in Procs, proc[p].iter, NEW pc \in Iterating, Goes(p, pc), Quiet,
           cut' = cut, calls' \in 0..MaxCalls, faults' \in 0..MaxFaults
    PROVE  Inv'
<1> DEFINE c == proc[p].cons
<1>1. proc[p].pc \in Iterating \union {"subscribe", "subscribing"}
  BY DEF Inv, ProcOK
<1>2. c \in Consumers /\ state[c] \in {"open", "closed"} /\ p \notin Consumers
  BY <1>1, OnConsumerStep DEF OnConsumer, Steps, Iterating
<1>3. pc \in Steps /\ TypeOK
  BY DEF Inv, Steps, Iterating
<1>4. PICK r \in ProcType : StepsTo(p, r, pc, c, proc[p].iter)
  BY <1>3, GoesRec
<1>5. Harmless(p, r)
  BY <1>1, <1>2, <1>4 DEF Harmless, Iterating, OnConsumer, StepsTo
<1>6. proc' = [proc EXCEPT ![p] = r]
  BY <1>4 DEF StepsTo
<1> QED
  BY <1>5, <1>6, TaskStep DEF Quiet, Inv, TypeOK, TransportOK

LEMMA NeedsPubsubInv ==
    ASSUME Inv, NEW p \in Procs, NeedsPubsub(p)
    PROVE  Inv'
<1> DEFINE c == proc[p].cons
<1>1. /\ proc[p].pc = "subscribe" /\ Quiet /\ cut' = cut
      /\ calls' \in 0..MaxCalls /\ faults' \in 0..MaxFaults
  BY BoundsKept DEF NeedsPubsub, At, Quiet
<1>2. c \in Consumers /\ state[c] \in {"open", "closed"} /\ p \notin Consumers
  BY <1>1, OnConsumerStep DEF OnConsumer, Steps
<1>3. CASE state[c] = "closed"
  BY <1>1, <1>3, FailureInv DEF NeedsPubsub, Quiet, LeftBehind
<1>4. CASE state[c] # "closed" /\ c \in pubsub
  <2>1. PICK r \in ProcType :
           \/ proc[p].iter /\ StepsTo(p, r, "poll", c, proc[p].iter)
           \/ ~proc[p].iter /\ StepsTo(p, r, "idle", "none", FALSE)
    BY <1>4, SubscribedRec DEF NeedsPubsub, Inv
  <2>2. Harmless(p, r)
    BY <1>1, <1>2, <2>1 DEF Harmless, Iterating, OnConsumer, StepsTo
  <2>3. proc' = [proc EXCEPT ![p] = r]
    BY <2>1 DEF StepsTo
  <2> QED
    BY <1>1, <2>2, <2>3, TaskStep DEF Quiet, Inv, TypeOK, TransportOK
<1>5. CASE state[c] # "closed" /\ c \notin pubsub
  <2>1. Goes(p, "subscribing") /\ "subscribing" \in Steps /\ TypeOK
    BY <1>5 DEF NeedsPubsub, Inv, Steps
  <2>2. PICK r \in ProcType : StepsTo(p, r, "subscribing", c, proc[p].iter)
    BY <2>1, GoesRec
  <2>3. Harmless(p, r)
    BY <1>1, <1>2, <1>5, <2>2 DEF Harmless, Iterating, OnConsumer, StepsTo
  <2>4. proc' = [proc EXCEPT ![p] = r]
    BY <2>2 DEF StepsTo
  <2> QED
    BY <1>1, <2>3, <2>4, TaskStep DEF Quiet, Inv, TypeOK, TransportOK
<1> QED
  BY <1>3, <1>4, <1>5

\* The steps of a running iterator, and failed requests.
LEMMA IteratorInv ==
    ASSUME Inv, NEW p \in Procs,
           Poll(p) \/ Read(p) \/ ReadFails(p) \/ Resume(p) \/ SubscribeFails(p)
    PROVE  Inv'
<1>1. CASE SubscribeFails(p)
  BY <1>1, FailureInv, FaultBounded DEF SubscribeFails, At, LeftBehind
<1>2. CASE ReadFails(p)
  <2>1. proc[p].iter
    BY <1>2 DEF ReadFails, At, Inv, ProcOK, Iterating
  <2> QED
    BY <1>2, <2>1, IteratingInv, FaultBounded DEF ReadFails, At, Quiet, Iterating
<1>3. CASE Poll(p) \/ Read(p) \/ Resume(p)
  <2>1. proc[p].iter
    BY <1>3 DEF Poll, Read, Resume, At, Inv, ProcOK, Iterating
  <2>2. /\ Quiet /\ cut' = cut
        /\ calls' \in 0..MaxCalls /\ faults' \in 0..MaxFaults
    BY <1>3, BoundsKept DEF Poll, Read, Resume, Quiet
  <2>3. \E pc \in Iterating : Goes(p, pc)
    BY <1>3 DEF Poll, Read, Resume, Iterating
  <2> QED
    BY <2>1, <2>2, <2>3, IteratingInv
<1> QED
  BY <1>1, <1>2, <1>3

-----------------------------------------------------------------------------
(* Steps that change a consumer.                                           *)

\* A consumer is created open.
LEMMA ConsumerInv ==
    ASSUME Inv, NEW c \in Consumers, Consumer(c)
    PROVE  Inv'
<1>1. /\ ~closed /\ state[c] = "none"
      /\ state' = [state EXCEPT ![c] = "open"]
      /\ live' = live \union {c}
      /\ UNCHANGED <<proc, consuming, pubsub, closed, subs, cut, ended, calls, faults>>
  BY DEF Consumer, bounds
<1>2. /\ state'[c] = "open"
      /\ \A d \in Consumers : d # c => state'[d] = state[d]
  BY <1>1 DEF Inv, TypeOK
<1>3. TypeOK'
  BY <1>1 DEF Inv, TypeOK
<1>4. ASSUME NEW q \in Procs PROVE ProcOK(q)'
  <2>1. ProcOK(q) /\ proc'[q] = proc[q] /\ consuming' = consuming
    BY <1>1 DEF Inv
  <2>2. proc[q].pc \in OnConsumer => proc[q].cons # c
    BY <1>1, <2>1 DEF ProcOK
  <2> QED
    BY <1>2, <2>1, <2>2 DEF ProcOK, OnConsumer, Steps
<1>5. ASSUME NEW d \in Consumers PROVE GatherOK(d)'
  BY <1>1 DEF Inv, GatherOK
<1>6. ASSUME NEW d \in Consumers PROVE OpenOK(d)'
  <2>1. OpenOK(d) /\ OpenOK(c) /\ Closing(d)' = Closing(d)
    BY <1>1 DEF Inv, Closing
  <2> QED
    BY <1>1, <1>2, <2>1 DEF OpenOK
<1>7. Exclusive' /\ Consumed'
  BY <1>1 DEF Inv, Exclusive, Consumed
<1>8. TransportOK'
  BY <1>1 DEF Inv, TransportOK, At
<1> QED
  BY <1>3, <1>4, <1>5, <1>6, <1>7, <1>8 DEF Inv

\* An iterator takes its consumer, which no other one has, or is refused.
LEMMA StartConsumingInv ==
    ASSUME Inv, NEW p \in Procs, StartConsuming(p)
    PROVE  Inv'
<1> DEFINE c == proc[p].cons
<1>1. /\ proc[p].pc = "consume"
      /\ UNCHANGED <<state, pubsub, live, closed, subs, cut, ended>>
      /\ calls' \in 0..MaxCalls /\ faults' \in 0..MaxFaults
  BY BoundsKept DEF StartConsuming, At
<1>2. c \in Consumers /\ state[c] \in {"open", "closed"} /\ p \notin Consumers /\ ~proc[p].iter
  BY <1>1, OnConsumerStep DEF OnConsumer, Steps
<1>3. CASE Refused(c)
  <2>1. Ends(p) /\ consuming' = consuming /\ TypeOK
    BY <1>3 DEF StartConsuming, Inv
  <2>2. PICK r \in ProcType : StepsTo(p, r, "idle", "none", FALSE)
    BY <2>1, EndsRec
  <2>3. Harmless(p, r)
    BY <1>1, <1>2, <2>2 DEF Harmless, Iterating, OnConsumer, StepsTo
  <2>4. proc' = [proc EXCEPT ![p] = r]
    BY <2>2 DEF StepsTo
  <2> QED
    BY <1>1, <2>1, <2>3, <2>4, TaskStep DEF Inv, TypeOK, TransportOK
<1>4. CASE ~Refused(c)
  <2> DEFINE pc == IF closed THEN "finally" ELSE "subscribe"
             r == Rec(pc, c, TRUE)
  <2>1. /\ state[c] = "open" /\ c \notin consuming
        /\ consuming' = consuming \union {c}
        /\ proc' = [proc EXCEPT ![p] = r]
    BY <1>2, <1>4 DEF StartConsuming, Refused, Rec
  <2>2. pc \in {"finally", "subscribe"} /\ pc \in Steps
    BY DEF Steps
  <2> HIDE DEF pc
  <2>3. r \in ProcType /\ r.pc = pc /\ r.cons = c /\ r.iter = TRUE
    BY <1>2, <2>2 DEF Rec, ProcType
  <2> HIDE DEF r
  <2>6. /\ proc'[p] = r
        /\ \A q \in Procs : q # p => proc'[q] = proc[q]
    BY <2>1 DEF Inv, TypeOK
  <2>7. TypeOK'
    BY <1>1, <1>2, <2>1, <2>3 DEF Inv, TypeOK, ProcType
  <2>8. ASSUME NEW q \in Procs PROVE ProcOK(q)'
    <3>1. CASE q = p
      BY <1>1, <1>2, <2>1, <2>2, <2>3, <2>6, <3>1 DEF ProcOK, Iterating
    <3>2. CASE q # p
      BY <1>1, <2>1, <2>6, <3>2 DEF Inv, ProcOK
    <3> QED
      BY <3>1, <3>2
  <2>9. ASSUME NEW d \in Consumers PROVE GatherOK(d)'
    BY <1>1, <1>2, <2>6 DEF Inv, GatherOK, Procs
  <2>10. ASSUME NEW d \in Consumers PROVE OpenOK(d)'
    <3>1. Closing(d) => Closing(d)'
      BY <1>1, <2>6 DEF Closing
    <3> QED
      BY <1>1, <3>1 DEF Inv, OpenOK
  <2>11. Exclusive'
    <3>1. \A q \in Procs : q # p /\ proc'[q].iter => proc'[q].cons # c
      BY <2>1, <2>6 DEF Inv, ProcOK
    <3> QED
      BY <2>3, <2>6, <3>1 DEF Inv, Exclusive
  <2>12. Consumed'
    BY <1>1, <1>2, <2>1, <2>3, <2>6 DEF Inv, Consumed
  <2>13. TransportOK'
    <3>1. \A q \in Procs : At(q, "gather")' => At(q, "gather")
      BY <2>2, <2>3, <2>6 DEF At
    <3>2. \A d \in Consumers : At(d, "close") => At(d, "close")'
      BY <1>2, <2>6 DEF At, Procs
    <3> QED
      BY <1>1, <3>1, <3>2 DEF Inv, TransportOK
  <2> QED
    BY <2>7, <2>8, <2>9, <2>10, <2>11, <2>12, <2>13 DEF Inv
<1> QED
  BY <1>3, <1>4

\* The request that subscribes completes under the lock, for an open consumer.
LEMMA SubscribeRequestInv ==
    ASSUME Inv, NEW p \in Procs, SubscribeRequest(p)
    PROVE  Inv'
<1> DEFINE c == proc[p].cons
<1>1. /\ proc[p].pc = "subscribing"
      /\ subs' = subs \union {c} /\ pubsub' = pubsub \union {c}
      /\ UNCHANGED <<state, consuming, live, closed, cut, ended>>
      /\ calls' \in 0..MaxCalls /\ faults' \in 0..MaxFaults
  BY BoundsKept DEF SubscribeRequest, At
<1>2. c \in Consumers /\ state[c] = "open" /\ p \notin Consumers
  BY <1>1, OnConsumerStep DEF OnConsumer, Steps, Inv, ProcOK
<1>3. PICK r \in ProcType :
         \/ proc[p].iter /\ StepsTo(p, r, "poll", c, proc[p].iter)
         \/ ~proc[p].iter /\ StepsTo(p, r, "idle", "none", FALSE)
  BY SubscribedRec DEF SubscribeRequest, Inv
<1>4. /\ proc'[p] = r
      /\ \A q \in Procs : q # p => proc'[q] = proc[q]
  BY <1>3 DEF Inv, TypeOK, StepsTo
<1>5. TypeOK'
  BY <1>1, <1>2, <1>3 DEF Inv, TypeOK, ProcType, StepsTo
<1>6. ASSUME NEW q \in Procs PROVE ProcOK(q)'
  <2>1. CASE q = p
    BY <1>1, <1>2, <1>3, <1>4, <2>1 DEF Inv, ProcOK, StepsTo, Iterating, OnConsumer
  <2>2. CASE q # p
    BY <1>1, <1>4, <2>2 DEF Inv, ProcOK
  <2> QED
    BY <2>1, <2>2
<1>7. ASSUME NEW d \in Consumers PROVE GatherOK(d)'
  BY <1>1, <1>2, <1>4 DEF Inv, GatherOK, Procs
<1>8. ASSUME NEW d \in Consumers PROVE OpenOK(d)'
  <2>1. Closing(d) => Closing(d)'
    BY <1>1, <1>4 DEF Closing
  <2>2. OpenOK(d) /\ OpenOK(c)
    BY <1>2 DEF Inv
  <2> QED
    BY <1>1, <1>2, <2>1, <2>2 DEF OpenOK
<1>9. Exclusive'
  BY <1>3, <1>4 DEF Inv, Exclusive, StepsTo
<1>10. Consumed'
  BY <1>1, <1>3, <1>4 DEF Inv, Consumed, StepsTo
<1>11. TransportOK'
  <2>1. \A q \in Procs : At(q, "gather")' => At(q, "gather")
    BY <1>3, <1>4 DEF At, StepsTo
  <2>2. \A d \in Consumers : At(d, "close") => At(d, "close")'
    BY <1>2, <1>4 DEF At, Procs
  <2> QED
    BY <1>1, <2>1, <2>2 DEF Inv, TransportOK
<1> QED
  BY <1>5, <1>6, <1>7, <1>8, <1>9, <1>10, <1>11 DEF Inv

\* The finally of an iterator gives its consumer back.
LEMMA FinallyInv ==
    ASSUME Inv, NEW p \in Procs, Finally(p)
    PROVE  Inv'
<1> DEFINE c == proc[p].cons
           r == Rec("close", c, FALSE)
<1>1. /\ proc[p].pc = "finally"
      /\ proc' = [proc EXCEPT ![p] = r]
      /\ consuming' = consuming \ {c}
      /\ UNCHANGED <<state, pubsub, live, closed, subs, cut, ended>>
      /\ calls' \in 0..MaxCalls /\ faults' \in 0..MaxFaults
  BY BoundsKept DEF Finally, At, Rec
<1>2. c \in Consumers /\ state[c] \in {"open", "closed"} /\ p \notin Consumers /\ proc[p].iter
  BY <1>1, OnConsumerStep DEF OnConsumer, Steps, Inv, ProcOK, Iterating
<1>3. r \in ProcType /\ r.pc = "close" /\ r.cons = c /\ r.iter = FALSE
  BY <1>2 DEF Rec, ProcType, Steps
<1> HIDE DEF r
<1>4. /\ proc'[p] = r
      /\ \A q \in Procs : q # p => proc'[q] = proc[q]
  BY <1>1 DEF Inv, TypeOK
<1>5. TypeOK'
  BY <1>1, <1>2, <1>3 DEF Inv, TypeOK, ProcType
<1>6. ASSUME NEW q \in Procs PROVE ProcOK(q)'
  <2>1. CASE q = p
    BY <1>1, <1>2, <1>3, <1>4, <2>1 DEF ProcOK, Iterating
  <2>2. CASE q # p
    <3>1. proc[q].iter => proc[q].cons # c
      BY <1>2, <2>2 DEF Inv, Exclusive
    <3> QED
      BY <1>1, <1>4, <2>2, <3>1 DEF Inv, ProcOK
  <2> QED
    BY <2>1, <2>2
<1>7. ASSUME NEW d \in Consumers PROVE GatherOK(d)'
  BY <1>1, <1>2, <1>4 DEF Inv, GatherOK, Procs
<1>8. ASSUME NEW d \in Consumers PROVE OpenOK(d)'
  <2>1. Closing(d) => Closing(d)'
    BY <1>1, <1>4 DEF Closing
  <2> QED
    BY <1>1, <2>1 DEF Inv, OpenOK
<1>9. Exclusive'
  BY <1>3, <1>4 DEF Inv, Exclusive
<1>10. Consumed'
  BY <1>1, <1>4 DEF Inv, Consumed
<1>11. TransportOK'
  <2>1. \A q \in Procs : At(q, "gather")' => At(q, "gather")
    BY <1>3, <1>4 DEF At
  <2>2. \A d \in Consumers : At(d, "close") => At(d, "close")'
    BY <1>2, <1>4 DEF At, Procs
  <2> QED
    BY <1>1, <2>1, <2>2 DEF Inv, TransportOK
<1> QED
  BY <1>5, <1>6, <1>7, <1>8, <1>9, <1>10, <1>11 DEF Inv

\* A close marks its consumer; nobody is inside the request that subscribes, and the
\* consumer is forgotten or its Pub/Sub object is closed next.
LEMMA MarkClosedInv ==
    ASSUME Inv, NEW p \in Procs, MarkClosed(p)
    PROVE  Inv'
<1> DEFINE c == proc[p].cons
<1>1. /\ proc[p].pc = "close"
      /\ \A q \in Procs : proc[q].pc = "subscribing" => proc[q].cons # c
      /\ UNCHANGED <<consuming, closed, subs, cut, ended>>
      /\ calls' \in 0..MaxCalls /\ faults' \in 0..MaxFaults
      /\ TypeOK
  BY BoundsKept DEF MarkClosed, At, LockFree, Inv
<1>2. /\ c \in Consumers /\ state[c] \in {"open", "closed"} /\ ~proc[p].iter
      /\ p \in Consumers => p = c /\ closed
  BY <1>1, OnConsumerStep DEF OnConsumer, Steps
<1>3. CASE state[c] = "closed"
  <2>1. Ends(p) /\ UNCHANGED <<state, pubsub, live>>
    BY <1>3 DEF MarkClosed
  <2>2. PICK r \in ProcType : StepsTo(p, r, "idle", "none", FALSE)
    BY <1>1, <2>1, EndsRec
  <2>3. Harmless(p, r)
    BY <1>1, <1>2, <1>3, <2>2 DEF Harmless, Iterating, OnConsumer, StepsTo
  <2>4. proc' = [proc EXCEPT ![p] = r]
    BY <2>2 DEF StepsTo
  <2> QED
    BY <1>1, <2>1, <2>3, <2>4, TaskStep DEF Inv, TypeOK, TransportOK
<1>4. CASE state[c] = "open"
  <2>1. /\ state' = [state EXCEPT ![c] = "closed"]
        /\ pubsub' = pubsub \ {c}
        /\ c \in pubsub => Goes(p, "unsubscribe") /\ live' = live
        /\ c \notin pubsub => Ends(p) /\ live' = live \ {c}
    BY <1>4 DEF MarkClosed
  <2>2. \/ /\ c \in pubsub /\ live' = live
           /\ \E r \in ProcType : StepsTo(p, r, "unsubscribe", c, FALSE)
        \/ /\ c \notin pubsub /\ live' = live \ {c}
           /\ \E r \in ProcType : StepsTo(p, r, "idle", "none", FALSE)
    <3>1. "unsubscribe" \in Steps /\ proc[p].iter = FALSE
      BY <1>1, <1>2, ProcFields DEF Steps
    <3> QED
      BY <1>1, <2>1, <3>1, GoesRec, EndsRec
  <2>3. PICK r \in ProcType :
           \/ c \in pubsub /\ live' = live /\ StepsTo(p, r, "unsubscribe", c, FALSE)
           \/ c \notin pubsub /\ live' = live \ {c} /\ StepsTo(p, r, "idle", "none", FALSE)
    BY <2>2
  <2>4. /\ proc'[p] = r
        /\ \A q \in Procs : q # p => proc'[q] = proc[q]
        /\ state'[c] = "closed"
        /\ \A d \in Consumers : d # c => state'[d] = state[d]
    BY <1>2, <2>1, <2>3 DEF Inv, TypeOK, StepsTo
  <2>5. TypeOK'
    BY <1>1, <1>2, <2>1, <2>3 DEF Inv, TypeOK, ProcType, StepsTo
  <2>6. ASSUME NEW q \in Procs PROVE ProcOK(q)'
    <3>1. CASE q = p
      BY <1>1, <1>2, <2>3, <2>4, <3>1 DEF ProcOK, Iterating, OnConsumer, StepsTo
    <3>2. CASE q # p
      BY <1>1, <2>4, <3>2 DEF Inv, ProcOK, OnConsumer, Steps
    <3> QED
      BY <3>1, <3>2
  <2>7. ASSUME NEW d \in Consumers PROVE GatherOK(d)'
    BY <1>1, <1>2, <2>3, <2>4 DEF Inv, GatherOK, Procs, StepsTo
  <2>8. ASSUME NEW d \in Consumers PROVE OpenOK(d)'
    <3>1. OpenOK(d)
      BY DEF Inv
    <3>2. Closing(d) => Closing(d)'
      BY <1>1, <2>4 DEF Closing
    <3>3. CASE d = c
      <4>1. c \in pubsub => Closing(d)'
        BY <2>3, <2>4, <3>3 DEF Closing, StepsTo
      <4>2. c \notin pubsub => d \notin live' \union subs' \/ d \in cut'
        BY <1>1, <1>4, <2>3, <3>1, <3>3 DEF OpenOK
      <4> QED
        BY <2>1, <2>4, <3>3, <4>1, <4>2 DEF OpenOK
    <3>4. CASE d # c
      BY <1>1, <2>1, <2>3, <2>4, <3>1, <3>2, <3>4 DEF OpenOK
    <3> QED
      BY <3>3, <3>4
  <2>9. Exclusive'
    BY <2>3, <2>4 DEF Inv, Exclusive, StepsTo
  <2>10. Consumed'
    BY <1>1, <1>2, <2>3, <2>4 DEF Inv, Consumed, StepsTo
  <2>11. TransportOK'
    <3>1. \A q \in Procs : At(q, "gather")' => At(q, "gather")
      BY <2>3, <2>4 DEF At, StepsTo
    <3>2. \A d \in Consumers : At(d, "close") /\ d # c => At(d, "close")'
      BY <1>2, <2>4 DEF At, Procs
    <3> QED
      BY <1>1, <2>4, <3>1, <3>2 DEF Inv, TransportOK
  <2> QED
    BY <2>5, <2>6, <2>7, <2>8, <2>9, <2>10, <2>11 DEF Inv
<1> QED
  BY <1>2, <1>3, <1>4

LEMMA UnsubscribeInv ==
    ASSUME Inv, NEW p \in Procs, Unsubscribe(p)
    PROVE  Inv'
<1> DEFINE c == proc[p].cons
<1>1. /\ proc[p].pc = "unsubscribe"
      /\ UNCHANGED <<state, consuming, pubsub, live, closed, cut, ended>>
      /\ subs' \subseteq subs
      /\ Goes(p, "aclose") /\ "aclose" \in Steps /\ TypeOK
  BY DEF Unsubscribe, Released, At, Steps, Inv
<1>2. calls' \in 0..MaxCalls /\ faults' \in 0..MaxFaults
  BY BoundsKept, FaultBounded DEF Unsubscribe
<1>3. /\ c \in Consumers /\ state[c] = "closed" /\ ~proc[p].iter
      /\ p \in Consumers => p = c /\ closed
  BY <1>1, OnConsumerStep DEF OnConsumer, Steps, Inv, ProcOK
<1>4. PICK r \in ProcType : StepsTo(p, r, "aclose", c, proc[p].iter)
  BY <1>1, GoesRec
<1>5. Harmless(p, r)
  BY <1>1, <1>3, <1>4 DEF Harmless, Iterating, OnConsumer, StepsTo
<1>6. proc' = [proc EXCEPT ![p] = r]
  BY <1>4 DEF StepsTo
<1> QED
  BY <1>1, <1>2, <1>5, <1>6, TaskStep DEF Inv, TypeOK, TransportOK

\* The end of a close forgets the consumer; what it leaves on the server is counted.
LEMMA ACloseInv ==
    ASSUME Inv, NEW p \in Procs, AClose(p)
    PROVE  Inv'
<1> DEFINE c == proc[p].cons
<1>1. /\ proc[p].pc = "aclose"
      /\ live' = live \ {c}
      /\ UNCHANGED <<state, consuming, pubsub, closed, ended>>
      /\ Ends(p) /\ TypeOK
  BY DEF AClose, At, Inv
<1>2. /\ calls' \in 0..MaxCalls /\ faults' \in 0..MaxFaults
      /\ subs' \subseteq subs /\ cut \subseteq cut' /\ cut' \subseteq Consumers
      /\ c \in subs' => c \in cut'
  <2>1. calls' \in 0..MaxCalls /\ faults' \in 0..MaxFaults
    BY BoundsKept, FaultBounded DEF AClose, bounds
  <2>2. \/ subs' = subs \ {c} /\ cut' = cut
        \/ c \in cut /\ subs' = subs /\ cut' = cut
        \/ cut' = cut \union (subs \intersect {c}) /\ subs' = subs
    BY DEF AClose, Released
  <2> QED
    BY <1>1, <2>1, <2>2 DEF TypeOK
<1>3. /\ c \in Consumers /\ state[c] = "closed" /\ ~proc[p].iter
      /\ p \in Consumers => p = c /\ closed
  BY <1>1, OnConsumerStep DEF OnConsumer, Steps, Inv, ProcOK
<1>4. PICK r \in ProcType : StepsTo(p, r, "idle", "none", FALSE)
  BY <1>1, EndsRec
<1>5. /\ proc'[p] = r
      /\ \A q \in Procs : q # p => proc'[q] = proc[q]
  BY <1>4 DEF Inv, TypeOK, StepsTo
<1>6. TypeOK'
  BY <1>1, <1>2, <1>4 DEF TypeOK, ProcType, StepsTo
<1>7. ASSUME NEW q \in Procs PROVE ProcOK(q)'
  <2>1. CASE q = p
    BY <1>4, <1>5, <2>1 DEF ProcOK, Iterating, OnConsumer, StepsTo
  <2>2. CASE q # p
    BY <1>1, <1>5, <2>2 DEF Inv, ProcOK
  <2> QED
    BY <2>1, <2>2
<1>8. ASSUME NEW d \in Consumers PROVE GatherOK(d)'
  BY <1>1, <1>4, <1>5 DEF Inv, GatherOK, Procs, StepsTo
<1>9. ASSUME NEW d \in Consumers PROVE OpenOK(d)'
  <2>1. d # c /\ Closing(d) => Closing(d)'
    BY <1>5 DEF Closing
  <2>2. OpenOK(d)
    BY DEF Inv
  <2> QED
    BY <1>1, <1>2, <1>3, <2>1, <2>2 DEF OpenOK
<1>10. Exclusive'
  BY <1>4, <1>5 DEF Inv, Exclusive, StepsTo
<1>11. Consumed'
  BY <1>1, <1>2, <1>3, <1>4, <1>5 DEF Inv, Consumed, StepsTo
<1>12. TransportOK'
  <2>1. \A q \in Procs : At(q, "gather")' => At(q, "gather")
    BY <1>4, <1>5 DEF At, StepsTo
  <2>2. \A d \in Consumers : At(d, "close") => At(d, "close")'
    BY <1>1, <1>5 DEF At, Procs
  <2> QED
    BY <1>1, <2>1, <2>2 DEF Inv, TransportOK
<1> QED
  BY <1>6, <1>7, <1>8, <1>9, <1>10, <1>11, <1>12 DEF Inv

-----------------------------------------------------------------------------
(* The transport's close, and cancellations.                               *)

\* The first close gives every consumer it knows a task that closes it.
LEMMA StartGatherInv ==
    ASSUME Inv, NEW t \in Procs, StartGather(t)
    PROVE  Inv'
<1>1. /\ proc[t].pc = "transport"
      /\ closed' = TRUE
      /\ UNCHANGED <<state, consuming, pubsub, live, subs, cut, ended>>
      /\ calls' \in 0..MaxCalls /\ faults' \in 0..MaxFaults
      /\ TypeOK
  BY BoundsKept DEF StartGather, At, Inv
<1>2. t \notin Consumers /\ ~proc[t].iter
  BY <1>1 DEF Inv, GatherOK, ProcOK, Iterating
<1>3. CASE closed
  <2>1. Ends(t) /\ closed' = closed
    BY <1>1, <1>3 DEF StartGather, Ends, TypeOK
  <2>2. PICK r \in ProcType : StepsTo(t, r, "idle", "none", FALSE)
    BY <1>1, <2>1, EndsRec
  <2>3. Harmless(t, r)
    BY <1>1, <1>2, <2>2 DEF Harmless, Iterating, OnConsumer, StepsTo
  <2>4. proc' = [proc EXCEPT ![t] = r]
    BY <2>2 DEF StepsTo
  <2> QED
    BY <1>1, <2>1, <2>3, <2>4, TaskStep DEF Inv, TypeOK, TransportOK
<1>4. CASE ~closed
  <2>1. /\ proc'[t] = Rec("gather", "none", FALSE)
        /\ \A q \in Procs : q # t /\ q \in live => proc'[q] = Rec("close", q, FALSE)
        /\ \A q \in Procs : q # t /\ q \notin live => proc'[q] = proc[q]
    BY <1>4 DEF StartGather, Rec
  <2>2. /\ proc'[t].pc = "gather" /\ ~proc'[t].iter
        /\ \A q \in Procs : q # t /\ q \in live =>
              proc'[q].pc = "close" /\ proc'[q].cons = q /\ ~proc'[q].iter
    <3>1. \A c : /\ Rec("gather", c, FALSE).pc = "gather"
                 /\ Rec("gather", c, FALSE).iter = FALSE
                 /\ Rec("close", c, FALSE).pc = "close"
                 /\ Rec("close", c, FALSE).cons = c
                 /\ Rec("close", c, FALSE).iter = FALSE
      BY DEF Rec
    <3> QED
      BY <2>1, <3>1
  <2>3. /\ \A c \in Consumers : proc[c].pc = "idle" /\ ~proc[c].iter /\ c \in Procs
        /\ \A q \in Procs : proc[q].pc # "gather"
        /\ live \subseteq Consumers /\ ~ended
        /\ \A c \in Consumers : state[c] = "open" => c \in live
        /\ \A c \in live : state[c] # "none"
    BY <1>4 DEF Inv, TypeOK, GatherOK, ProcOK, OpenOK, TransportOK, Procs, At, Iterating
  <2>4. TypeOK'
    <3>1. proc' = [q \in Procs |-> IF q = t THEN Rec("gather", "none", FALSE)
                                   ELSE IF q \in live THEN Rec("close", q, FALSE)
                                   ELSE proc[q]]
      BY <1>4 DEF StartGather, Rec
    <3>2. Rec("gather", "none", FALSE) \in ProcType
      BY DEF Rec, ProcType, Steps
    <3>3. \A q \in live : Rec("close", q, FALSE) \in ProcType
      BY <2>3 DEF Rec, ProcType, Steps
    <3>4. \A q \in Procs : proc[q] \in ProcType
      BY <1>1 DEF TypeOK, ProcType
    <3>5. proc' \in [Procs -> ProcType]
      BY <3>1, <3>2, <3>3, <3>4
    <3> QED
      BY <1>1, <3>5 DEF TypeOK, ProcType
  <2>5. ASSUME NEW q \in Procs PROVE ProcOK(q)'
    <3>1. CASE q = t
      BY <2>2, <3>1 DEF ProcOK, Iterating, OnConsumer
    <3>2. CASE q # t /\ q \in live
      BY <1>1, <2>2, <2>3, <3>2 DEF ProcOK, Iterating, OnConsumer
    <3>3. CASE q # t /\ q \notin live
      BY <1>1, <2>1, <3>3 DEF Inv, ProcOK
    <3> QED
      BY <3>1, <3>2, <3>3
  <2>6. ASSUME NEW c \in Consumers PROVE GatherOK(c)'
    <3>1. c \in Procs /\ c # t
      BY <1>2 DEF Procs
    <3> QED
      BY <1>1, <2>1, <2>2, <2>3, <3>1 DEF GatherOK
  <2>7. ASSUME NEW c \in Consumers PROVE OpenOK(c)'
    <3>1. Closing(c) => Closing(c)'
      BY <1>1, <2>1, <2>3 DEF Closing
    <3> QED
      BY <1>1, <3>1 DEF Inv, OpenOK
  <2>8. \A q \in Procs : proc'[q].iter => q # t /\ proc'[q] = proc[q]
    BY <2>1, <2>2
  <2>9. Exclusive'
    BY <2>8 DEF Inv, Exclusive
  <2>10. Consumed'
    <3>1. \A q \in Procs : proc[q].iter => proc'[q] = proc[q]
      BY <1>2, <2>1, <2>3
    <3> QED
      BY <1>1, <3>1 DEF Inv, Consumed
  <2>11. TransportOK'
    <3>1. \A q \in Procs : At(q, "gather")' => q = t
      BY <2>1, <2>2, <2>3 DEF At
    <3>2. \A c \in Consumers : state[c] = "open" => At(c, "close")'
      BY <1>2, <2>2, <2>3 DEF At
    <3> QED
      BY <1>1, <2>3, <3>1, <3>2 DEF TransportOK
  <2> QED
    BY <2>4, <2>5, <2>6, <2>7, <2>9, <2>10, <2>11 DEF Inv
<1> QED
  BY <1>3, <1>4

\* gather() is over when all the tasks that close a consumer are.
LEMMA GatheredInv ==
    ASSUME Inv, NEW t \in Procs, Gathered(t)
    PROVE  Inv'
<1>1. /\ proc[t].pc = "gather"
      /\ \A c \in Consumers : proc[c].pc = "idle"
      /\ UNCHANGED <<state, consuming, pubsub, live, closed, subs, cut>>
      /\ calls' \in 0..MaxCalls /\ faults' \in 0..MaxFaults
      /\ Goes(t, "client") /\ "client" \in Steps /\ TypeOK
  BY BoundsKept DEF Gathered, At, Steps, Inv
<1>2. t \notin Consumers /\ ~proc[t].iter
  BY <1>1 DEF Inv, GatherOK, ProcOK, Iterating
<1>3. ended' = TRUE /\ closed /\ \A c \in Consumers : state[c] # "open"
  BY <1>1 DEF Gathered, Inv, TransportOK, At
<1>4. PICK r \in ProcType : StepsTo(t, r, "client", proc[t].cons, proc[t].iter)
  BY <1>1, GoesRec
<1>5. Harmless(t, r)
  BY <1>1, <1>2, <1>4 DEF Harmless, Iterating, OnConsumer, StepsTo
<1>6. proc' = [proc EXCEPT ![t] = r]
  BY <1>4 DEF StepsTo
<1> QED
  BY <1>1, <1>3, <1>5, <1>6, TaskStep DEF TypeOK

LEMMA CloseClientInv ==
    ASSUME Inv, NEW t \in Procs, CloseClient(t)
    PROVE  Inv'
<1>1. /\ proc[t].pc = "client"
      /\ UNCHANGED <<state, consuming, pubsub, live, closed, cut, ended>>
      /\ subs' \subseteq subs
      /\ Ends(t) /\ TypeOK
  BY DEF CloseClient, At, Inv
<1>2. calls' \in 0..MaxCalls /\ faults' \in 0..MaxFaults
  BY BoundsKept, FaultBounded DEF CloseClient
<1>3. t \notin Consumers /\ ~proc[t].iter
  BY <1>1 DEF Inv, GatherOK, ProcOK, Iterating
<1>4. PICK r \in ProcType : StepsTo(t, r, "idle", "none", FALSE)
  BY <1>1, EndsRec
<1>5. Harmless(t, r)
  BY <1>1, <1>3, <1>4 DEF Harmless, Iterating, OnConsumer, StepsTo
<1>6. proc' = [proc EXCEPT ![t] = r]
  BY <1>4 DEF StepsTo
<1> QED
  BY <1>1, <1>2, <1>5, <1>6, TaskStep DEF Inv, TypeOK, TransportOK

\* A cancellation ends the call; where that leaves an iterator or a close undone, the
\* consumer is counted.
LEMMA CancelInv ==
    ASSUME Inv, NEW t \in Tasks, Cancel(t)
    PROVE  Inv'
<1> DEFINE c == proc[t].cons
<1>1. /\ t \in Procs /\ t \notin Consumers /\ TypeOK
      /\ proc[t].pc \in {"subscribe", "consume", "finally", "close", "unsubscribe", "aclose"}
      /\ UNCHANGED <<state, consuming, pubsub, live, closed, subs, ended>>
      /\ calls' \in 0..MaxCalls /\ faults' \in 0..MaxFaults
  BY FaultBounded, RedisAssumption DEF Cancel, Procs, Inv
<1>2. c \in Consumers
  BY <1>1, OnConsumerStep DEF OnConsumer, Steps
<1>3. CASE proc[t].pc = "subscribe"
  <2>1. Fails(t) /\ cut' = cut
    BY <1>3 DEF Cancel, At
  <2> QED
    BY <1>1, <1>3, <2>1, FailureInv DEF Quiet, LeftBehind
<1>4. CASE proc[t].pc # "subscribe"
  <2>1. /\ Ends(t)
        /\ cut \subseteq cut' /\ cut' \subseteq Consumers
        /\ proc[t].pc \in {"finally", "unsubscribe", "aclose"} => c \in cut'
    BY <1>1, <1>2, <1>4 DEF Cancel, At, TypeOK
  <2>2. PICK r \in ProcType : StepsTo(t, r, "idle", "none", FALSE)
    BY <1>1, <2>1, EndsRec
  <2>3. proc[t].iter => proc[t].pc = "finally"
    BY <1>1, <1>4 DEF Inv, ProcOK, Iterating
  <2>4. Harmless(t, r)
    BY <1>1, <2>1, <2>2, <2>3 DEF Harmless, Iterating, OnConsumer, StepsTo
  <2>5. proc' = [proc EXCEPT ![t] = r]
    BY <2>2 DEF StepsTo
  <2> QED
    BY <1>1, <2>1, <2>4, <2>5, TaskStep DEF Inv, TypeOK, TransportOK
<1> QED
  BY <1>3, <1>4

\* Cancelling gather() ends every task that closes a consumer.
LEMMA CancelGatherInv ==
    ASSUME Inv, NEW t \in Tasks, CancelGather(t)
    PROVE  Inv'
<1>1. /\ t \in Procs /\ t \notin Consumers /\ TypeOK
      /\ proc[t].pc = "gather"
      /\ proc' = [p \in Procs |-> IF p = t \/ p \in Consumers THEN NoProc ELSE proc[p]]
      /\ cut' = cut \union { c \in Consumers : proc[c].pc \in {"unsubscribe", "aclose"} }
      /\ UNCHANGED <<state, consuming, pubsub, live, closed, subs, ended>>
      /\ calls' \in 0..MaxCalls /\ faults' \in 0..MaxFaults
  BY FaultBounded, RedisAssumption DEF CancelGather, Procs, Inv, At
<1>2. NoProc \in ProcType /\ NoProc.pc = "idle" /\ ~NoProc.iter
  BY DEF NoProc, ProcType, Steps
<1>3. /\ \A q \in Procs : q = t \/ q \in Consumers => proc'[q].pc = "idle" /\ ~proc'[q].iter
      /\ \A q \in Procs : q # t /\ q \notin Consumers => proc'[q] = proc[q]
  BY <1>1, <1>2
<1>4. \A q \in Procs : proc[q].iter => q # t /\ q \notin Consumers /\ proc'[q] = proc[q]
  BY <1>1, <1>3 DEF Inv, ProcOK, GatherOK, Iterating
<1>5. TypeOK'
  <2>1. \A q \in Procs : proc[q] \in ProcType
    BY <1>1 DEF TypeOK, ProcType
  <2>2. proc' \in [Procs -> ProcType]
    BY <1>1, <1>2, <2>1
  <2> QED
    BY <1>1, <2>2 DEF TypeOK, ProcType
<1>6. ASSUME NEW q \in Procs PROVE ProcOK(q)'
  <2>1. CASE q = t \/ q \in Consumers
    BY <1>3, <2>1 DEF ProcOK, Iterating, OnConsumer
  <2>2. CASE q # t /\ q \notin Consumers
    BY <1>1, <1>3, <2>2 DEF Inv, ProcOK
  <2> QED
    BY <2>1, <2>2
<1>7. ASSUME NEW c \in Consumers PROVE GatherOK(c)'
  BY <1>3 DEF GatherOK, Procs
<1>8. ASSUME NEW c \in Consumers PROVE OpenOK(c)'
  <2>1. Closing(c) => Closing(c)' \/ c \in cut'
    <3>1. SUFFICES ASSUME NEW q \in Procs, proc[q].cons = c,
                          proc[q].pc \in {"unsubscribe", "aclose"}
                   PROVE  Closing(c)' \/ c \in cut'
      BY DEF Closing
    <3>2. CASE q \in Consumers
      <4>1. q = c
        BY <3>1, <3>2 DEF Inv, GatherOK
      <4> QED
        BY <1>1, <3>1, <4>1
    <3>3. CASE q \notin Consumers
      <4>1. q # t /\ proc'[q] = proc[q]
        BY <1>1, <1>3, <3>1, <3>3
      <4> QED
        BY <3>1, <4>1 DEF Closing
    <3> QED
      BY <3>2, <3>3
  <2> QED
    BY <1>1, <2>1 DEF Inv, OpenOK
<1>9. Exclusive'
  BY <1>3 DEF Inv, Exclusive
<1>10. Consumed'
  BY <1>1, <1>4 DEF Inv, Consumed
<1>11. TransportOK'
  <2>1. \A q \in Procs : ~At(q, "gather")'
    BY <1>1, <1>3 DEF Inv, TransportOK, At
  <2> QED
    BY <1>1, <2>1 DEF Inv, TransportOK
<1> QED
  BY <1>5, <1>6, <1>7, <1>8, <1>9, <1>10, <1>11 DEF Inv

-----------------------------------------------------------------------------
(* The theorems.                                                           *)

LEMMA InitInv == Init => Inv
<1>1. SUFFICES ASSUME Init PROVE Inv
  OBVIOUS
<1>2. NoProc \in ProcType /\ NoProc.pc = "idle" /\ ~NoProc.iter
  BY DEF NoProc, ProcType, Steps
<1>3. \A p \in Procs : proc[p].pc = "idle" /\ ~proc[p].iter
  BY <1>1, <1>2 DEF Init
<1>4. TypeOK
  <2>1. proc = [p \in Procs |-> NoProc]
    BY <1>1 DEF Init
  <2>2. proc \in [Procs -> ProcType]
    BY <1>2, <2>1
  <2>3. state \in [Consumers -> {"none", "open", "closed"}]
    BY <1>1 DEF Init
  <2>4. closed \in BOOLEAN /\ ended \in BOOLEAN
    BY <1>1 DEF Init
  <2>5. calls \in 0..MaxCalls /\ faults \in 0..MaxFaults
    BY <1>1, RedisAssumption DEF Init
  <2>6. consuming = {} /\ pubsub = {} /\ live = {} /\ subs = {} /\ cut = {}
    BY <1>1 DEF Init
  <2> QED
    BY <2>2, <2>3, <2>4, <2>5, <2>6 DEF TypeOK, ProcType
<1>5. \A p \in Procs : ProcOK(p)
  BY <1>3 DEF ProcOK, OnConsumer, Iterating
<1>6. \A c \in Consumers : GatherOK(c) /\ OpenOK(c)
  BY <1>1, <1>3 DEF Init, GatherOK, OpenOK, Procs
<1>7. Exclusive /\ Consumed /\ TransportOK
  BY <1>1, <1>3 DEF Init, Exclusive, Consumed, TransportOK, At
<1> QED
  BY <1>4, <1>5, <1>6, <1>7 DEF Inv

LEMMA NextInv == Inv /\ [Next]_vars => Inv'
<1>1. SUFFICES ASSUME Inv, [Next]_vars PROVE Inv'
  OBVIOUS
<1>2. ASSUME NEW p \in Procs, Step(p) PROVE Inv'
  BY <1>1, <1>2, StartConsumingInv, NeedsPubsubInv, SubscribeRequestInv, IteratorInv, FinallyInv,
     MarkClosedInv, UnsubscribeInv, ACloseInv, StartGatherInv, GatheredInv, CloseClientInv DEF Step
<1>3. CASE UNCHANGED vars
  BY <1>1, <1>3 DEF vars, Inv, TypeOK, ProcOK, GatherOK, OpenOK, Closing, Exclusive, Consumed,
                    TransportOK, At
<1> QED
  BY <1>1, <1>2, <1>3, ConsumerInv, AppCallInv, CancelInv, CancelGatherInv, IteratorInv DEF Next

LEMMA Invariance == Spec => []Inv
  BY InitInv, NextInv, PTL DEF Spec

\* The variables of the transport keep their types.
THEOREM TypeCorrect == Spec => []TypeOK
<1>1. Inv => TypeOK
  BY DEF Inv
<1> QED
  BY <1>1, Invariance, PTL

\* A consumer never has two active iterators, for any interleaving of subscribing,
\* iterating, closing, failing and being cancelled (consume() and its finally in
\* redis.py), and is free again when its iterator ended.
THEOREM OneIteratorHolds == Spec => []OneIterator
<1>1. Inv => OneIterator
  <2>1. SUFFICES ASSUME Inv, NEW c \in Consumers
                 PROVE  /\ Cardinality(Iterators(c)) <= 1
                        /\ c \in consuming \ cut => Iterators(c) # {}
    BY DEF OneIterator
  <2>2. c \in consuming \ cut => Iterators(c) # {}
    BY <2>1 DEF Inv, Consumed, Iterators
  <2>3. CASE Iterators(c) = {}
    BY <2>2, <2>3, FS_EmptySet
  <2>4. CASE Iterators(c) # {}
    <3>1. PICK p \in Procs : p \in Iterators(c)
      BY <2>4 DEF Iterators
    <3>2. Iterators(c) = {p}
      BY <2>1, <3>1 DEF Inv, Exclusive, Iterators
    <3> QED
      BY <2>2, <3>2, FS_Singleton
  <2> QED
    BY <2>3, <2>4
<1> QED
  BY <1>1, Invariance, PTL

\* A closed consumer leaves nothing behind, on the server or in the transport, unless
\* its cleanup was cancelled or failed (RedisConsumer.close).
THEOREM ClosedLeavesNothingHolds == Spec => []ClosedLeavesNothing
<1>1. Inv => ClosedLeavesNothing
  BY DEF Inv, TypeOK, OpenOK, ClosedLeavesNothing
<1> QED
  BY <1>1, Invariance, PTL

\* Once the transport's close has got past its consumers none of them is open, has a
\* Pub/Sub object, or will be created (RedisTransport.close and .consumer).
THEOREM ClosedTogetherHolds == Spec => []ClosedTogether
<1>1. Inv => ClosedTogether
  BY DEF Inv, TypeOK, OpenOK, TransportOK, ClosedTogether
<1> QED
  BY <1>1, Invariance, PTL
=============================================================================
