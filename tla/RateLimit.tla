------------------------------ MODULE RateLimit ------------------------------
(***************************************************************************)
(* The rate limiter (src/src/eventful/utilities/rate_limit.py): the        *)
(* decorator and the class keep a list of the clock readings of the calls  *)
(* they admitted.  A caller reads the clock first and takes the lock       *)
(* later, so a decision is made for a moment that may have passed.         *)
(*                                                                         *)
(* Admitted calls are numbered in the order of their decisions, which is   *)
(* the order of the list, and the list is the set of the numbers of the    *)
(* calls whose readings it holds.                                          *)
(***************************************************************************)
EXTENDS Integers, Sequences, FiniteSetsExt

CONSTANTS
    Callers,    \* threads that use the limiter
    Calls,      \* calls
    Period      \* period

VARIABLES
    now,        \* the clock
    callTimes,  \* call_times: the admitted calls in the list
    caller,     \* what each thread does here, and the time it read
    admitted    \* history: reading and time of decision of the admitted calls

Idle == [op |-> "none", at |-> 0]

Init ==
    /\ callTimes = {}
    /\ caller = [c \in Callers |-> Idle]
    /\ admitted = <<>>

-----------------------------------------------------------------------------
\* c calls the limited function, acquire, remaining_calls or reset_time and reads
\* the clock; reset_time answers at once when it sees no call times.
Begin(c, op) ==
    /\ caller[c] = Idle
    /\ op = "reset" => callTimes # {}
    /\ caller' = [caller EXCEPT ![c] = [op |-> op, at |-> now]]
    /\ UNCHANGED <<callTimes, admitted>>

InPeriod(t, at) == at - t < Period

\* The call times that c keeps.
Kept(c) == { i \in callTimes : InPeriod(admitted[i].at, caller[c].at) }

\* Mutant: one call too many.
MutHasRoom(c) == Cardinality(Kept(c)) <= Calls

HasRoom(c) == Cardinality(Kept(c)) < Calls

\* c takes the lock and a token; a limited function then runs without the lock.
Admit(c) ==
    /\ caller[c].op \in {"call", "acquire"}
    /\ HasRoom(c)
    /\ callTimes' = Kept(c) \union {Len(admitted) + 1}
    /\ admitted' = Append(admitted, [at |-> caller[c].at, on |-> now])
    /\ caller' = [caller EXCEPT ![c] =
                    IF @.op = "call" THEN [@ EXCEPT !.op = "running"] ELSE Idle]

Refuse(c) ==
    /\ caller[c].op \in {"call", "acquire"}
    /\ ~HasRoom(c)
    /\ callTimes' = Kept(c)
    /\ caller' = [caller EXCEPT ![c] = Idle]
    /\ UNCHANGED admitted

\* remaining_calls and reset_time drop the old call times too.
Query(c) ==
    /\ caller[c].op \in {"remaining", "reset"}
    /\ callTimes' = Kept(c)
    /\ caller' = [caller EXCEPT ![c] = Idle]
    /\ UNCHANGED admitted

FunctionEnds(c) ==
    /\ caller[c].op = "running"
    /\ caller' = [caller EXCEPT ![c] = Idle]
    /\ UNCHANGED <<callTimes, admitted>>

-----------------------------------------------------------------------------
\* The limit as concurrent callers can rely on it: of Calls + 1 admitted calls, the
\* last decision comes at least a period after the first reading of the clock,
\* whatever the delays between reading and lock and whoever purged in between.
WindowBound ==
    \A S \in kSubset(Calls + 1, DOMAIN admitted) :
        \E i, j \in S : admitted[j].on - admitted[i].at >= Period
=============================================================================
