------------------------------ MODULE EventBus ------------------------------
(***************************************************************************)
(* The event bus (src/src/eventful/bus.py with router.py, dispatch.py and  *)
(* listener.py): registration, routing and the dispatch loop, run by       *)
(* several threads.  Code that runs under the bus's lock is one action;    *)
(* the application's callbacks run between actions, without the lock, and  *)
(* may call the bus again.  Each thread owns a stack of dispatches: the    *)
(* topmost is the innermost nested emission.                               *)
(*                                                                         *)
(* A registration (a Listener object) is a member of Regs, registered at   *)
(* most once, for every call of register builds a fresh object.  Payloads, *)
(* results and logging are left out.                                       *)
(***************************************************************************)
EXTENDS Topics, FiniteSets, SequencesExt

CONSTANTS
    Threads,
    Regs,               \* the Listener objects that may be registered
    Events,             \* the Event objects that may be emitted
    Funcs,              \* the callables behind the registrations
    Patterns,           \* the topic patterns in use
    TypeOf,             \* [Events -> paths]: event.type
    Valid,              \* the events the schema registry accepts
    TopicOf,            \* [Regs -> Patterns]
    FuncOf,             \* [Regs -> Funcs]: registered.func
    Priority,           \* [Regs -> Int]: config.priority
    Once,               \* the registrations with config.once
    Accepts,            \* [Regs -> SUBSET Events]: Listener.matches is true
    FilterRaises,       \* [Regs -> SUBSET Events]: config.filter_fn raises
    Kind,               \* [Funcs -> Kinds]
    AsyncMiddleware,    \* some middleware is declared async
    EnablePriorities,   \* config.enable_priorities
    PropagationEnabled, \* config.propagation_enabled
    Handlers,           \* what the error handlers do that the application sets
    Emissions,          \* the ways the application emits
    MaxDepth,           \* bound: nested dispatches of one thread
    MaxEmits            \* bound: emissions of one behaviour

\* "sync" returns a value, "async" is declared with async def, "dyn" is a plain
\* function that returns an awaitable.
Kinds == {"sync", "async", "dyn"}

\* emit(e), emit(e, async_=True), emit_sync(e) (or emit(e, async_=False)), and
\* emit_async(e).
AllEmissions == {"emit", "emitTrue", "emitSync", "emitAsync"}

\* What a callback can raise.  "cancel" is CancelledError, which no "except
\* Exception" catches; "async" is AsyncDispatchRequired; "none" is the TypeError
\* of calling an error handler that was None by the time it was called.
Raisable == {"error", "stop"}
Exceptions == Raisable \union {"async", "cancel", "none"}

ASSUME BusAssumption ==
    /\ Patterns \subseteq Seq(Segments)
    /\ TypeOf \in [Events -> Seq(Segments)]
    /\ TopicOf \in [Regs -> Patterns]
    /\ FuncOf \in [Regs -> Funcs]
    /\ Priority \in [Regs -> Int]
    /\ Kind \in [Funcs -> Kinds]
    /\ Once \subseteq Regs
    /\ Valid \subseteq Events
    /\ "unset" \in Handlers
    /\ Handlers \subseteq {"unset", "returns"} \union Raisable
    /\ Emissions \subseteq AllEmissions
    /\ AsyncMiddleware \in BOOLEAN
    /\ EnablePriorities \in BOOLEAN
    /\ PropagationEnabled \in BOOLEAN
    /\ MaxDepth \in Nat
    /\ MaxEmits \in Nat

VARIABLES
    listeners,  \* EventBus._listeners
    exact,      \* Router._listeners
    wild,       \* Router._wildcard_listeners
    handler,    \* EventBus._error_handler: what calling it does
    stopped,    \* Event._propagation_stopped: the threads that have set it
    stack,      \* the dispatches of each thread, innermost last
    pending,    \* coroutines that emit() returned, not yet awaited
    emits,      \* emissions so far (MaxEmits bounds it)
    registered, \* history: the registrations in the order they were made
    claims      \* history: how often each once-registration was claimed

busVars == <<listeners, exact, wild, registered>>
vars == <<listeners, exact, wild, handler, stopped, stack, pending, emits,
          registered, claims>>

\* A dispatch: the loop of _emit_sync or _emit_async over one snapshot.
Frames ==
    [ ev   : Events,
      mode : {"sync", "async"},
      snap : Seq(Regs),     \* dispatch_order(listeners)
      next : Nat \ {0},     \* the loop's position in snap
      pc   : {"loop", "claim", "running", "handling", "calling", "done", "raising"},
      exc  : Exceptions \union {"null"},
      cut  : BOOLEAN,       \* propagation ended the loop early
      due  : SUBSET Regs,   \* history: the matching registrations at emission
      ran  : SUBSET Nat ]   \* history: the positions whose callback was started

Coroutines == [ev : Events, snap : Seq(Regs), due : SUBSET Regs]

-----------------------------------------------------------------------------
(* Routing.                                                                *)

IsRegistered(r) == Contains(listeners[TopicOf[r]], r)

\* Router.get_listeners before the listeners' own criteria: the exact index
\* first, then the wildcard index.
Candidates(e) ==
    (IF TypeOf[e] \in Patterns THEN exact[TypeOf[e]] ELSE <<>>) \o wild

Selected(e) ==
    { r \in ToSet(Candidates(e)) :
        /\ Matches(TypeOf[e], TopicOf[r])
        /\ e \in Accepts[r] }

\* _validate_event passes and no filter raises: otherwise the exception leaves
\* emit before anything happened.
Routable(e) ==
    /\ e \in Valid
    /\ \A r \in ToSet(Candidates(e)) :
          Matches(TypeOf[e], TopicOf[r]) => e \notin FilterRaises[r]

Precedes(s, a, b) ==
    \E m, n \in DOMAIN s : m < n /\ s[m] = a /\ s[n] = b

\* Mutant: the sort is ascending.
MutGoesBeforeAscending(c, a, b) ==
    Priority[a] < Priority[b] \/ (Priority[a] = Priority[b] /\ Precedes(c, a, b))

\* sorted(..., key=priority, reverse=True) is stable.
GoesBefore(c, a, b) ==
    \/ EnablePriorities /\ Priority[a] > Priority[b]
    \/ /\ EnablePriorities => Priority[a] = Priority[b]
       /\ Precedes(c, a, b)

\* Dispatcher.dispatch_order of _listener_snapshot: the one sequence of the
\* selected registrations in dispatch order (a set of one element).
Snapshots(e) ==
    LET c == Candidates(e)
    IN { q \in UNION { [1..n -> Selected(e)] : n \in 0..Len(c) } :
            /\ ToSet(q) = Selected(e)
            /\ \A m, n \in DOMAIN q : m < n => GoesBefore(c, q[m], q[n]) }

\* History: the registrations that should receive e, from the bus's own index.
Due(e) ==
    { r \in Regs : /\ IsRegistered(r)
                   /\ Matches(TypeOf[e], TopicOf[r])
                   /\ e \in Accepts[r] }

-----------------------------------------------------------------------------
(* The stack of dispatches of a thread.                                    *)

Top(t) == Last(stack[t])

Replace(s, f) == [s EXCEPT ![Len(s)] = f]

SetTop(t, f) == stack' = [stack EXCEPT ![t] = Replace(@, f)]

\* A step that changes nothing but the innermost dispatch.
Becomes(t, f) ==
    /\ SetTop(t, f)
    /\ UNCHANGED <<busVars, handler, stopped, pending, emits, claims>>

Push(t, f) == stack' = [stack EXCEPT ![t] = Append(@, f)]

AtPc(t, pc) == stack[t] # <<>> /\ Top(t).pc = pc

\* Application code is running on t: outside every dispatch or in a callback.
InApp(t) == stack[t] = <<>> \/ AtPc(t, "running")

Current(f) == f.snap[f.next]

\* The callback's result is an awaitable.
ReturnsAwaitable(f) == AsyncMiddleware \/ Kind[FuncOf[Current(f)]] # "sync"

\* The callback is a coroutine that an async dispatch awaits.
Awaiting(t) ==
    AtPc(t, "running") /\ Top(t).mode = "async" /\ ReturnsAwaitable(Top(t))

CanAwait(t) == stack[t] = <<>> \/ Awaiting(t)

NewFrame(e, mode, q, due) ==
    [ev |-> e, mode |-> mode, snap |-> q, next |-> 1, pc |-> "loop", exc |-> "null",
     cut |-> FALSE, due |-> due, ran |-> {}]

\* The loop takes the next listener.
Advance(f) == [f EXCEPT !.next = @ + 1, !.pc = "loop"]

Failed(f, exc) == [f EXCEPT !.pc = "raising", !.exc = exc]

Finished(f, cut) == [f EXCEPT !.pc = "done", !.cut = cut]

\* The except clauses around the callback of f.
Thrown(f, exc) ==
    IF exc = "cancel" \/ (exc = "async" /\ f.mode = "sync") THEN Failed(f, exc)
    ELSE IF exc = "stop"
         THEN IF PropagationEnabled THEN Finished(f, TRUE) ELSE Advance(f)
    ELSE [f EXCEPT !.pc = "handling"]

-----------------------------------------------------------------------------
Init ==
    /\ listeners = [p \in Patterns |-> <<>>]
    /\ exact = [p \in Patterns |-> <<>>]
    /\ wild = <<>>
    /\ handler = "unset"
    /\ stopped = [e \in Events |-> {}]
    /\ stack = [t \in Threads |-> <<>>]
    /\ pending = [t \in Threads |-> <<>>]
    /\ emits = 0
    /\ registered = <<>>
    /\ claims = [r \in Regs |-> 0]

(* Calls of the application.                                               *)

Register(t, r) ==
    /\ InApp(t)
    /\ ~Contains(registered, r)
    /\ registered' = Append(registered, r)
    /\ listeners' = [listeners EXCEPT ![TopicOf[r]] = Append(@, r)]
    /\ IF IsWildcard(TopicOf[r])
       THEN wild' = Append(wild, r) /\ exact' = exact
       ELSE /\ exact' = [exact EXCEPT ![TopicOf[r]] = Append(@, r)]
            /\ wild' = wild
    /\ UNCHANGED <<handler, stopped, stack, pending, emits, claims>>

\* Drop the occurrence of r from s, which holds it at most once.
Without(s, r) ==
    IF Contains(s, r) THEN RemoveAt(s, CHOOSE k \in DOMAIN s : s[k] = r) ELSE s

\* Mutant: the router keeps wildcard registrations.
MutRemoveRegistration(r) ==
    /\ listeners' = [listeners EXCEPT ![TopicOf[r]] = Without(@, r)]
    /\ exact' = [exact EXCEPT ![TopicOf[r]] = Without(@, r)]
    /\ UNCHANGED <<wild, registered>>

\* _remove_registration: both indexes, under one hold of the lock.
RemoveRegistration(r) ==
    /\ listeners' = [listeners EXCEPT ![TopicOf[r]] = Without(@, r)]
    /\ IF IsWildcard(TopicOf[r])
       THEN wild' = Without(wild, r) /\ exact' = exact
       ELSE exact' = [exact EXCEPT ![TopicOf[r]] = Without(@, r)] /\ wild' = wild
    /\ registered' = registered

\* The first registration of the function under the topic goes.
Unregister(t, p, func) ==
    /\ InApp(t)
    /\ \E k \in DOMAIN listeners[p] :
          /\ FuncOf[listeners[p][k]] = func
          /\ \A m \in 1..(k - 1) : FuncOf[listeners[p][m]] # func
          /\ RemoveRegistration(listeners[p][k])
    /\ UNCHANGED <<handler, stopped, stack, pending, emits, claims>>

SetErrorHandler(t, h) ==
    /\ InApp(t)
    /\ handler # h
    /\ handler' = h
    /\ UNCHANGED <<listeners, exact, wild, stopped, stack, pending, emits, registered,
                   claims>>

\* A callback calls event.stop_propagation().
StopEvent(t) ==
    /\ AtPc(t, "running")
    /\ t \notin stopped[Top(t).ev]
    /\ stopped' = [stopped EXCEPT ![Top(t).ev] = @ \union {t}]
    /\ UNCHANGED <<listeners, exact, wild, handler, stack, pending, emits, registered,
                   claims>>

\* What every emission shares: a routable event, within the bounds.
StartEmission(e) ==
    /\ emits < MaxEmits
    /\ Routable(e)
    /\ emits' = emits + 1

EmitSync(t, e) ==
    /\ "emitSync" \in Emissions
    /\ InApp(t)
    /\ Len(stack[t]) < MaxDepth
    /\ StartEmission(e)
    /\ \E q \in Snapshots(e) : Push(t, NewFrame(e, "sync", q, Due(e)))
    /\ UNCHANGED <<busVars, handler, stopped, pending, claims>>

EmitAsync(t, e) ==
    /\ "emitAsync" \in Emissions
    /\ CanAwait(t)
    /\ Len(stack[t]) < MaxDepth
    /\ StartEmission(e)
    /\ \E q \in Snapshots(e) : Push(t, NewFrame(e, "async", q, Due(e)))
    /\ UNCHANGED <<busVars, handler, stopped, pending, claims>>

\* emit() with async_=True, or with async_=None when the mode follows from the
\* snapshot.  An async dispatch is a coroutine that starts when it is awaited.
DetectsAsync(q) ==
    AsyncMiddleware \/ \E k \in DOMAIN q : Kind[FuncOf[q[k]]] = "async"

Emit(t, e, async) ==
    /\ (IF async THEN "emitTrue" ELSE "emit") \in Emissions
    /\ InApp(t)
    /\ Len(stack[t]) < MaxDepth
    /\ StartEmission(e)
    /\ \E q \in Snapshots(e) :
          IF async \/ DetectsAsync(q)
          THEN /\ pending' = [pending EXCEPT ![t] =
                                Append(@, [ev |-> e, snap |-> q, due |-> Due(e)])]
               /\ stack' = stack
          ELSE Push(t, NewFrame(e, "sync", q, Due(e))) /\ pending' = pending
    /\ UNCHANGED <<busVars, handler, stopped, claims>>

\* Mutant: the coroutine selects its listeners when it is awaited.
MutAwait(t, k) ==
    /\ CanAwait(t)
    /\ Len(stack[t]) < MaxDepth
    /\ LET c == pending[t][k]
       IN \E q \in Snapshots(c.ev) : Push(t, NewFrame(c.ev, "async", q, c.due))
    /\ pending' = [pending EXCEPT ![t] = RemoveAt(@, k)]
    /\ UNCHANGED <<busVars, handler, stopped, emits, claims>>

\* The awaitable that emit() returned runs with the snapshot taken back then.
Await(t, k) ==
    /\ CanAwait(t)
    /\ Len(stack[t]) < MaxDepth
    /\ LET c == pending[t][k] IN Push(t, NewFrame(c.ev, "async", c.snap, c.due))
    /\ pending' = [pending EXCEPT ![t] = RemoveAt(@, k)]
    /\ UNCHANGED <<busVars, handler, stopped, emits, claims>>

\* The event is refused (schema or filter) and a surrounding callback lets the
\* exception out; a caller that catches it, or has no dispatch, sees no change.
EmitRefused(t, e) ==
    /\ AtPc(t, "running")
    /\ ~Routable(e)
    /\ Becomes(t, Thrown(Top(t), "error"))

-----------------------------------------------------------------------------
(* The dispatch loop.                                                      *)

\* Mutant: the loop does not look at the event's flag.
MutShouldStop(f) == FALSE

ShouldStop(f) == PropagationEnabled /\ stopped[f.ev] # {}

\* Mutant: the loop forgets the last listener.
MutAtEnd(f) == f.next >= Len(f.snap)

AtEnd(f) == f.next > Len(f.snap)

\* The head of the loop: the event's flag, then the refusal of an async listener.
Select(t) ==
    /\ AtPc(t, "loop")
    /\ LET f == Top(t)
       IN Becomes(t, IF AtEnd(f) THEN Finished(f, FALSE)
                     ELSE IF ShouldStop(f) THEN Finished(f, TRUE)
                     ELSE IF f.mode = "sync" /\ Kind[FuncOf[Current(f)]] = "async"
                          THEN Failed(f, "async")
                     ELSE [f EXCEPT !.pc = "claim"])

Invoke(f) == [f EXCEPT !.pc = "running", !.ran = @ \union {f.next}]

\* Mutant: the claim does not look whether somebody else was first.
MutCanClaim(r) == TRUE

CanClaim(r) == r \in Once => IsRegistered(r)

\* _claim_once, atomic under the lock, and the start of the callback.
Claim(t) ==
    /\ AtPc(t, "claim")
    /\ LET f == Top(t)
           r == Current(f)
       IN /\ SetTop(t, IF CanClaim(r) THEN Invoke(f) ELSE Advance(f))
          /\ IF r \in Once /\ CanClaim(r)
             THEN RemoveRegistration(r) /\ claims' = [claims EXCEPT ![r] = @ + 1]
             ELSE UNCHANGED <<busVars, claims>>
    /\ UNCHANGED <<handler, stopped, pending, emits>>

\* The callback returns; a sync dispatch refuses an awaitable result.
Return(t) ==
    /\ AtPc(t, "running")
    /\ LET f == Top(t)
       IN Becomes(t, IF f.mode = "sync" /\ ReturnsAwaitable(f) THEN Thrown(f, "async")
                     ELSE Advance(f))

\* The callback raises: StopPropagation or an error of its own.
Raise(t, exc) ==
    /\ AtPc(t, "running")
    /\ Becomes(t, Thrown(Top(t), exc))

\* The task is cancelled while it awaits the callback.
Cancel(t) ==
    /\ Awaiting(t)
    /\ Becomes(t, Thrown(Top(t), "cancel"))

\* Mutant: a failed callback is tried again.
MutCheckHandlerRetries(t) ==
    /\ AtPc(t, "handling")
    /\ Becomes(t, IF handler = "unset" THEN [Top(t) EXCEPT !.pc = "running"]
                  ELSE [Top(t) EXCEPT !.pc = "calling"])

\* _handle_error looks whether a handler is set; if not it logs and continues.
CheckHandler(t) ==
    /\ AtPc(t, "handling")
    /\ Becomes(t, IF handler = "unset" THEN Advance(Top(t))
                  ELSE [Top(t) EXCEPT !.pc = "calling"])

\* It reads the attribute again to call it.
CallHandler(t) ==
    /\ AtPc(t, "calling")
    /\ Becomes(t, IF handler = "returns" THEN Advance(Top(t))
                  ELSE Failed(Top(t), IF handler = "unset" THEN "none" ELSE handler))

\* The innermost dispatch is over.
Pops(t) ==
    /\ stack' = [stack EXCEPT ![t] = Front(@)]
    /\ UNCHANGED <<busVars, handler, stopped, pending, emits, claims>>

\* The dispatch returns its results.
Complete(t) ==
    /\ AtPc(t, "done")
    /\ Pops(t)

\* The dispatch fails; the callback that made the nested emission catches the
\* exception or lets it out.
Leave(t) ==
    /\ AtPc(t, "raising")
    /\ Pops(t)

\* Mutant: the exception passes the outer dispatch by, error handler and all.
MutLeaveThrough(t) ==
    /\ AtPc(t, "raising")
    /\ LET rest == Front(stack[t])
       IN /\ rest # <<>>
          /\ stack' = [stack EXCEPT ![t] =
                          Replace(rest, Failed(Last(rest), Top(t).exc))]
    /\ UNCHANGED <<busVars, handler, stopped, pending, emits, claims>>

LeaveThrough(t) ==
    /\ AtPc(t, "raising")
    /\ LET rest == Front(stack[t])
       IN /\ rest # <<>>
          /\ stack' = [stack EXCEPT ![t] =
                          Replace(rest, Thrown(Last(rest), Top(t).exc))]
    /\ UNCHANGED <<busVars, handler, stopped, pending, emits, claims>>

-----------------------------------------------------------------------------
\* Steps the bus takes by itself.
BusStep(t) ==
    \/ Select(t)
    \/ Claim(t)
    \/ CheckHandler(t)
    \/ CallHandler(t)
    \/ Complete(t)
    \/ Leave(t)
    \/ LeaveThrough(t)

\* A callback ends.
CallbackEnds(t) ==
    \/ Return(t)
    \/ \E exc \in Raisable : Raise(t, exc)
    \/ Cancel(t)
    \/ \E e \in Events : EmitRefused(t, e)

AppCall(t) ==
    \/ \E r \in Regs : Register(t, r)
    \/ \E p \in Patterns, func \in Funcs : Unregister(t, p, func)
    \/ \E h \in Handlers : SetErrorHandler(t, h)
    \/ StopEvent(t)
    \/ \E e \in Events : EmitSync(t, e) \/ EmitAsync(t, e)
    \/ \E e \in Events, async \in BOOLEAN : Emit(t, e, async)
    \/ \E k \in DOMAIN pending[t] : Await(t, k)

Next == \E t \in Threads : BusStep(t) \/ CallbackEnds(t) \/ AppCall(t)

Spec == Init /\ [][Next]_vars

\* Threads are scheduled, and callbacks return or raise.
Fairness == \A t \in Threads : WF_vars(BusStep(t)) /\ WF_vars(CallbackEnds(t))

FairSpec == Spec /\ Fairness
-----------------------------------------------------------------------------
(* Properties.                                                             *)

FrameOK(f) ==
    /\ f \in Frames
    /\ f.next <= Len(f.snap) + 1
    /\ f.pc \in {"claim", "running", "handling", "calling"} => f.next <= Len(f.snap)
    /\ f.pc = "raising" <=> f.exc # "null"

StackOK ==
    /\ stack \in [Threads -> Seq(Frames)]
    /\ \A t \in Threads : \A n \in DOMAIN stack[t] :
          /\ FrameOK(stack[t][n])
          /\ n < Len(stack[t]) => stack[t][n].pc = "running"

\* The variables keep their types; a dispatch is within its snapshot, and the
\* dispatches of a thread other than the innermost wait in a callback (EventBus).
TypeOK ==
    /\ listeners \in [Patterns -> Seq(Regs)]
    /\ exact \in [Patterns -> Seq(Regs)]
    /\ wild \in Seq(Regs)
    /\ handler \in Handlers
    /\ stopped \in [Events -> SUBSET Threads]
    /\ StackOK
    /\ pending \in [Threads -> Seq(Coroutines)]
    /\ emits \in 0..MaxEmits
    /\ registered \in Seq(Regs)
    /\ claims \in [Regs -> Nat]

\* However many dispatches hold a once-registration in their snapshot, one of
\* them at most runs it, and once it was claimed neither index holds it
\* (EventBus._claim_once).
OnceAtMostOnce ==
    \A r \in Once :
        /\ claims[r] <= 1
        /\ claims[r] = 1 => /\ ~IsRegistered(r)
                            /\ ~Contains(exact[TopicOf[r]], r)
                            /\ ~Contains(wild, r)

\* In the order of registration, hence without a repetition.
Ordered(s) == \A m, n \in DOMAIN s : m < n => Precedes(registered, s[m], s[n])

\* The bus's index and the router's two hold the same registrations, each in the
\* order of registration and none twice, through every interleaving of register,
\* unregister and claims (EventBus._remove_registration, Router.add_listener).
IndexesAgree ==
    /\ \A p \in Patterns :
          /\ Ordered(listeners[p])
          /\ exact[p] = IF IsWildcard(p) THEN <<>> ELSE listeners[p]
    /\ Ordered(wild)
    /\ \A r \in Regs :
          Contains(wild, r) <=> IsWildcard(TopicOf[r]) /\ IsRegistered(r)

Dispatches == UNION { ToSet(stack[t]) : t \in Threads }

\* A dispatch runs over exactly the registrations that matched when it was
\* emitted, also when its coroutine is awaited after later changes
\* (EventBus.emit, Router.get_listeners).
SnapshotIsDue == \A f \in Dispatches : ToSet(f.snap) = f.due

\* Priority does not decide between a and b.
SamePriority(a, b) == EnablePriorities => Priority[a] = Priority[b]

\* Within a snapshot no registration comes before one of a higher priority, and of
\* equals whose topics are both exact or both wildcards the older comes first,
\* also after unregistrations, new registrations and claims (Dispatcher.dispatch_order).
DispatchOrder ==
    \A f \in Dispatches : \A m, n \in DOMAIN f.snap :
        LET a == f.snap[m]
            b == f.snap[n]
        IN m < n =>
             /\ EnablePriorities => Priority[a] >= Priority[b]
             /\ SamePriority(a, b) /\ (IsWildcard(TopicOf[a]) <=> IsWildcard(TopicOf[b]))
                => Precedes(registered, a, b)

\* The loop leaves no listener out: what it passed over was a once-registration
\* that is gone by now, and a dispatch that completes has passed every position
\* unless propagation control cut it short (EventBus._emit_sync, _emit_async).
SnapshotHonoured ==
    \A f \in Dispatches :
        /\ \A k \in 1..(f.next - 1) :
              k \notin f.ran => f.snap[k] \in Once /\ ~IsRegistered(f.snap[k])
        /\ f.pc = "done" /\ ~f.cut => f.next = Len(f.snap) + 1
        /\ f.cut => PropagationEnabled

\* The innermost dispatch of t starts a callback.
StartsCallback(t) ==
    /\ stack[t] # <<>>
    /\ Len(stack'[t]) = Len(stack[t])
    /\ Last(stack'[t]).ran # Top(t).ran

\* After a callback stopped an event, the same thread starts no callback for it,
\* in whichever of the nested dispatches the event was stopped
\* (EventBus._should_stop).
StopRespected ==
    [][ \A t \in Threads :
          StartsCallback(t) /\ PropagationEnabled => t \notin stopped[Top(t).ev] ]_vars

\* A dispatch never fails because a callback, or a dispatch nested in it, failed:
\* that is for the error handler in force to decide.  Only AsyncDispatchRequired
\* (sync dispatches) and a cancellation pass it by (EventBus._handle_error).
FailsOnlyByPolicy ==
    [][ \A t \in Threads :
          /\ stack'[t] # <<>>
          /\ Last(stack'[t]).pc = "raising"
          /\ stack'[t] # stack[t]
          => \/ Last(stack'[t]).exc = "async" /\ Last(stack'[t]).mode = "sync"
             \/ Last(stack'[t]).exc = "cancel"
             \/ AtPc(t, "calling") ]_vars

\* Every dispatch ends, whatever other threads register, unregister or claim
\* meanwhile, if callbacks do (EventBus._emit_sync).
DispatchTerminates == \A t \in Threads : stack[t] # <<>> ~> stack[t] = <<>>
-----------------------------------------------------------------------------
(* What the documentation says and the code does not keep.                 *)

\* docs/core-semantics.md, "Listener failure": log and continue, unless a custom
\* error handler raises.  A handler that another thread removes between the two
\* reads of _error_handler makes the dispatch fail (EventBus._handle_error).
LogAndContinue ==
    \A f \in Dispatches : f.exc \in Raisable \union {"async", "cancel", "null"}

\* docs/core-semantics.md, "Ordering": descending priority, then registration order.
\* The router puts every exact registration before every wildcard one, and the sort
\* keeps that order among equals (Router.get_listeners, Dispatcher.dispatch_order).
RegistrationOrder ==
    \A f \in Dispatches : \A m, n \in DOMAIN f.snap :
        m < n /\ SamePriority(f.snap[m], f.snap[n])
            => Precedes(registered, f.snap[m], f.snap[n])
=============================================================================
