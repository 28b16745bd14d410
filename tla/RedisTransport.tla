--------------------------- MODULE RedisTransport ---------------------------
(***************************************************************************)
(* The Redis transport (src/src/eventful/transports/redis.py): the life of *)
(* consumers, their iterators and their subscriptions, and of the          *)
(* transport that owns them.  Tasks of one event loop interleave at every  *)
(* await and can be cancelled there.                                       *)
(*                                                                         *)
(* The client and the server are external: a request succeeds, fails or is *)
(* cancelled, and the server keeps a subscription until unsubscribe, the   *)
(* end of the Pub/Sub connection or the end of the client.  A poll returns *)
(* a message, nothing or an error.  Publishing is one request that leaves  *)
(* no state here.  asyncio's locks are first come, first served; the model *)
(* lets any waiting task go first.                                         *)
(***************************************************************************)
EXTENDS Integers, FiniteSets

CONSTANTS
    Tasks,      \* application tasks
    Consumers,  \* consumers; the task of gather() that closes c is named c, too
    MaxCalls,   \* bound: calls of one behaviour
    MaxFaults   \* bound: failed requests and cancellations

ASSUME RedisAssumption ==
    /\ Tasks \intersect Consumers = {}
    /\ MaxCalls \in Nat
    /\ MaxFaults \in Nat

VARIABLES
    proc,       \* what each task does: step, consumer, in an iterator or not
    state,      \* each consumer: not created, "open" or "closed" (_closed)
    consuming,  \* consumers with _consuming set
    pubsub,     \* consumers with a _pubsub
    live,       \* _consumers of the transport
    closed,     \* _closed of the transport
    subs,       \* the server: consumers with a subscription
    cut,        \* history: consumers whose cleanup was cancelled or failed
    ended,      \* history: the transport's close got past its consumers
    calls,      \* calls so far
    faults      \* faults so far

vars == <<proc, state, consuming, pubsub, live, closed, subs, cut, ended, calls, faults>>
bounds == <<calls, faults>>

Procs == Tasks \union Consumers
NoProc == [pc |-> "idle", cons |-> "none", iter |-> FALSE]

Init ==
    /\ proc = [p \in Procs |-> NoProc]
    /\ state = [c \in Consumers |-> "none"]
    /\ consuming = {}
    /\ pubsub = {}
    /\ live = {}
    /\ closed = FALSE
    /\ subs = {}
    /\ cut = {}
    /\ ended = FALSE
    /\ calls = 0
    /\ faults = 0

At(p, pc) == proc[p].pc = pc
Goes(p, pc) == proc' = [proc EXCEPT ![p].pc = pc]
Ends(p) == proc' = [proc EXCEPT ![p] = NoProc]

\* A call inside consume() that fails leads to the iterator's finally.
Fails(p) == IF proc[p].iter THEN Goes(p, "finally") ELSE Ends(p)

\* The lifecycle lock of c is only held across the subscribe request.
LockFree(c) == \A p \in Procs : ~(At(p, "subscribing") /\ proc[p].cons = c)

Fault ==
    /\ faults < MaxFaults
    /\ faults' = faults + 1
    /\ UNCHANGED calls

-----------------------------------------------------------------------------
Begins(t, pc, c, iter) ==
    /\ At(t, "idle")
    /\ calls < MaxCalls
    /\ calls' = calls + 1
    /\ proc' = [proc EXCEPT ![t] = [pc |-> pc, cons |-> c, iter |-> iter]]
    /\ UNCHANGED <<state, consuming, pubsub, live, closed, subs, cut, ended, faults>>

\* Mutant: consumers of a closed transport.
MutConsumer(c) ==
    /\ state[c] = "none"
    /\ state' = [state EXCEPT ![c] = "open"]
    /\ live' = live \union {c}
    /\ UNCHANGED <<proc, consuming, pubsub, closed, subs, cut, ended, bounds>>

Consumer(c) ==
    /\ ~closed
    /\ state[c] = "none"
    /\ state' = [state EXCEPT ![c] = "open"]
    /\ live' = live \union {c}
    /\ UNCHANGED <<proc, consuming, pubsub, closed, subs, cut, ended, bounds>>

\* _subscribe asks for an open transport before it waits for the lock.
Subscribe(t, c) == ~closed /\ Begins(t, "subscribe", c, FALSE)
Consume(t, c) == Begins(t, "consume", c, FALSE)
Close(t, c) == Begins(t, "close", c, FALSE)
CloseTransport(t) == Begins(t, "transport", "none", FALSE)

\* Mutant: a second iterator is not refused.
MutRefused(c) == state[c] = "closed"

Refused(c) == state[c] = "closed" \/ c \in consuming

\* consume() takes the consumer, and asks for an open transport.
StartConsuming(p) ==
    LET c == proc[p].cons IN
    /\ At(p, "consume")
    /\ LockFree(c)
    /\ IF Refused(c)
       THEN Ends(p) /\ UNCHANGED consuming
       ELSE /\ consuming' = consuming \union {c}
            /\ proc' = [proc EXCEPT ![p] = [pc |-> IF closed THEN "finally" ELSE "subscribe",
                                            cons |-> c, iter |-> TRUE]]
    /\ UNCHANGED <<state, pubsub, live, closed, subs, cut, ended, bounds>>

Subscribed(p) == IF proc[p].iter THEN Goes(p, "poll") ELSE Ends(p)

\* Mutant: the consumer may have been closed while the task waited for the lock.
MutNeedsPubsub(p) ==
    /\ At(p, "subscribe")
    /\ LockFree(proc[p].cons)
    /\ IF proc[p].cons \in pubsub THEN Subscribed(p) ELSE Goes(p, "subscribing")
    /\ UNCHANGED <<state, consuming, pubsub, live, closed, subs, cut, ended, bounds>>

NeedsPubsub(p) ==
    LET c == proc[p].cons IN
    /\ At(p, "subscribe")
    /\ LockFree(c)
    /\ IF state[c] = "closed" THEN Fails(p)
       ELSE IF c \in pubsub THEN Subscribed(p) ELSE Goes(p, "subscribing")
    /\ UNCHANGED <<state, consuming, pubsub, live, closed, subs, cut, ended, bounds>>

SubscribeRequest(p) ==
    LET c == proc[p].cons IN
    /\ At(p, "subscribing")
    /\ subs' = subs \union {c}
    /\ pubsub' = pubsub \union {c}
    /\ Subscribed(p)
    /\ UNCHANGED <<state, consuming, live, closed, cut, ended, bounds>>

\* A failure or cancellation of the request: the shielded aclose() of the Pub/Sub
\* object takes back whatever the server has done, or fails as well and leaves a
\* subscription that belongs to nobody.
SubscribeFails(p) ==
    LET c == proc[p].cons IN
    /\ At(p, "subscribing")
    /\ Fault
    /\ Fails(p)
    /\ \/ UNCHANGED <<subs, cut>>
       \/ subs' = subs \union {c} /\ cut' = cut \union {c}
    /\ UNCHANGED <<state, consuming, pubsub, live, closed, ended>>

-----------------------------------------------------------------------------
\* Mutant: the iterator does not look whether its consumer was closed.
MutPoll(p) ==
    /\ At(p, "poll")
    /\ Goes(p, "reading")
    /\ UNCHANGED <<state, consuming, pubsub, live, closed, subs, cut, ended, bounds>>

\* while not self._closed
Poll(p) ==
    /\ At(p, "poll")
    /\ Goes(p, IF state[proc[p].cons] = "closed" THEN "finally" ELSE "reading")
    /\ UNCHANGED <<state, consuming, pubsub, live, closed, subs, cut, ended, bounds>>

\* A message that arrives is yielded even if the consumer was closed meanwhile.
Read(p) ==
    /\ At(p, "reading")
    /\ Goes(p, "yielded") \/ Goes(p, "poll")
    /\ UNCHANGED <<state, consuming, pubsub, live, closed, subs, cut, ended, bounds>>

\* A read fails, or a payload is malformed, or the task is cancelled.
ReadFails(p) ==
    /\ At(p, "reading")
    /\ Fault
    /\ Goes(p, "finally")
    /\ UNCHANGED <<state, consuming, pubsub, live, closed, subs, cut, ended>>

\* The consumer of the iterator asks for the next event or closes the iterator.
Resume(p) ==
    /\ At(p, "yielded")
    /\ Goes(p, "poll") \/ Goes(p, "finally")
    /\ UNCHANGED <<state, consuming, pubsub, live, closed, subs, cut, ended, bounds>>

Finally(p) ==
    LET c == proc[p].cons IN
    /\ At(p, "finally")
    /\ LockFree(c)
    /\ consuming' = consuming \ {c}
    /\ proc' = [proc EXCEPT ![p] = [pc |-> "close", cons |-> c, iter |-> FALSE]]
    /\ UNCHANGED <<state, pubsub, live, closed, subs, cut, ended, bounds>>

-----------------------------------------------------------------------------
\* close() of a consumer marks it under the lock and works on its Pub/Sub object
\* without.
MarkClosed(p) ==
    LET c == proc[p].cons IN
    /\ At(p, "close")
    /\ LockFree(c)
    /\ IF state[c] = "closed"
       THEN Ends(p) /\ UNCHANGED <<state, pubsub, live>>
       ELSE /\ state' = [state EXCEPT ![c] = "closed"]
            /\ pubsub' = pubsub \ {c}
            /\ IF c \in pubsub THEN Goes(p, "unsubscribe") /\ UNCHANGED live
               ELSE Ends(p) /\ live' = live \ {c}
    /\ UNCHANGED <<consuming, closed, subs, cut, ended, bounds>>

\* The Pub/Sub object of c is unsubscribed or closed, which does not end a
\* subscription that an earlier cleanup may have left.
Released(c) == subs' = subs \ {c} \/ (c \in cut /\ UNCHANGED subs)

Unsubscribe(p) ==
    /\ At(p, "unsubscribe")
    /\ Goes(p, "aclose")
    /\ \/ Released(proc[p].cons) /\ UNCHANGED bounds
       \/ Fault /\ UNCHANGED subs
    /\ UNCHANGED <<state, consuming, pubsub, live, closed, cut, ended>>

AClose(p) ==
    LET c == proc[p].cons IN
    /\ At(p, "aclose")
    /\ Ends(p)
    /\ live' = live \ {c}
    /\ \/ Released(c) /\ UNCHANGED <<bounds, cut>>
       \/ Fault /\ cut' = cut \union (subs \intersect {c}) /\ UNCHANGED subs
    /\ UNCHANGED <<state, consuming, pubsub, closed, ended>>

-----------------------------------------------------------------------------
\* close() of the transport: the first one closes the consumers it knows, each in a
\* task of gather(), then the client.
StartGather(t) ==
    /\ At(t, "transport")
    /\ closed' = TRUE
    /\ proc' = IF closed THEN [proc EXCEPT ![t] = NoProc]
               ELSE [p \in Procs |->
                        IF p = t THEN [pc |-> "gather", cons |-> "none", iter |-> FALSE]
                        ELSE IF p \in live THEN [pc |-> "close", cons |-> p, iter |-> FALSE]
                        ELSE proc[p]]
    /\ UNCHANGED <<state, consuming, pubsub, live, subs, cut, ended, bounds>>

Gathered(t) ==
    /\ At(t, "gather")
    /\ \A c \in Consumers : At(c, "idle")
    /\ Goes(t, "client")
    /\ ended' = TRUE
    /\ UNCHANGED <<state, consuming, pubsub, live, closed, subs, cut, bounds>>

\* The owned client goes with all its connections.
CloseClient(t) ==
    /\ At(t, "client")
    /\ Ends(t)
    /\ \/ subs' = {} /\ UNCHANGED bounds
       \/ Fault /\ UNCHANGED subs
    /\ UNCHANGED <<state, consuming, pubsub, live, closed, cut, ended>>

-----------------------------------------------------------------------------
\* Cancellation of t at an await where it leaves cleanup undone: waiting for a lock,
\* or inside a close.
Cancel(t) ==
    LET c == proc[t].cons IN
    /\ proc[t].pc \in {"subscribe", "consume", "finally", "close", "unsubscribe", "aclose"}
    /\ Fault
    /\ IF At(t, "subscribe") THEN Fails(t) ELSE Ends(t)
    /\ cut' = IF proc[t].pc \in {"finally", "unsubscribe", "aclose"} THEN cut \union {c} ELSE cut
    /\ UNCHANGED <<state, consuming, pubsub, live, closed, subs, ended>>

\* Cancellation in gather() cancels the tasks that close the consumers.
CancelGather(t) ==
    /\ At(t, "gather")
    /\ Fault
    /\ proc' = [p \in Procs |-> IF p = t \/ p \in Consumers THEN NoProc ELSE proc[p]]
    /\ cut' = cut \union { c \in Consumers : proc[c].pc \in {"unsubscribe", "aclose"} }
    /\ UNCHANGED <<state, consuming, pubsub, live, closed, subs, ended>>

AppCall(t) ==
    \/ \E c \in Consumers :
        state[c] # "none" /\ (Subscribe(t, c) \/ Consume(t, c) \/ Close(t, c))
    \/ CloseTransport(t)

Step(p) ==
    \/ StartConsuming(p) \/ NeedsPubsub(p) \/ SubscribeRequest(p)
    \/ Poll(p) \/ Read(p) \/ Resume(p) \/ Finally(p)
    \/ MarkClosed(p) \/ Unsubscribe(p) \/ AClose(p)
    \/ StartGather(p) \/ Gathered(p) \/ CloseClient(p)

Next ==
    \/ \E c \in Consumers : Consumer(c)
    \/ \E t \in Tasks : AppCall(t) \/ Cancel(t) \/ CancelGather(t)
    \/ \E p \in Procs : Step(p) \/ SubscribeFails(p) \/ ReadFails(p)

Spec == Init /\ [][Next]_vars

\* The event loop runs every task that can go on, requests are answered, polls time
\* out, and the consumers of iterators come back for the next event.
FairSpec == Spec /\ \A p \in Procs : WF_vars(Step(p))

-----------------------------------------------------------------------------
\* Where a task can be: in no call, in a call on a consumer, with or without an
\* iterator, or in the transport's close.
Steps == {"idle", "subscribe", "subscribing", "consume", "poll", "reading", "yielded",
          "finally", "close", "unsubscribe", "aclose", "transport", "gather", "client"}

\* The variables keep their types (RedisConsumer, RedisTransport).
TypeOK ==
    /\ proc \in [Procs -> [pc : Steps, cons : Consumers \union {"none"}, iter : BOOLEAN]]
    /\ state \in [Consumers -> {"none", "open", "closed"}]
    /\ consuming \subseteq Consumers
    /\ pubsub \subseteq Consumers
    /\ live \subseteq Consumers
    /\ closed \in BOOLEAN
    /\ subs \subseteq Consumers
    /\ cut \subseteq Consumers
    /\ ended \in BOOLEAN
    /\ calls \in 0..MaxCalls
    /\ faults \in 0..MaxFaults

Iterators(c) == { p \in Procs : proc[p].iter /\ proc[p].cons = c }

\* A consumer has at most one active iterator, whatever subscribes, ends and closes
\* around it, and can be iterated again or is closed when that ended, unless a
\* cancellation came between the iterator and the lock.
OneIterator ==
    \A c \in Consumers :
        /\ Cardinality(Iterators(c)) <= 1
        /\ c \in consuming \ cut => Iterators(c) # {}

Closing(c) == \E p \in Procs : proc[p].cons = c /\ proc[p].pc \in {"unsubscribe", "aclose"}

\* A closed consumer leaves no subscription on the server and no reference in the
\* transport, except while a close is at work on it or when its cleanup was cancelled
\* or failed.
ClosedLeavesNothing ==
    \A c \in subs \union live : state[c] = "closed" => Closing(c) \/ c \in cut

\* When the transport's close has got past its consumers, every consumer there is has
\* been closed, and none will be created.
ClosedTogether == ended => \A c \in Consumers : state[c] \in {"none", "closed"} /\ c \notin pubsub

\* Once a consumer is closed its iterator ends, wherever in a poll, a yield or a
\* subscription it was (RedisConsumer.consume).
IteratorsEnd ==
    \A p \in Tasks :
        (proc[p].iter /\ state[proc[p].cons] = "closed") ~> ~proc[p].iter
=============================================================================
