----------------------------- MODULE EventTable -----------------------------
(***************************************************************************)
(* What the PostgreSQL store promises about appends: a table that only     *)
(* grows, in which an append takes effect at one point between its call    *)
(* and its answer, or never.  PostgresPersistence implements it with       *)
(* transactions of several statements.                                     *)
(***************************************************************************)
EXTENDS Integers

CONSTANTS
    Tasks,
    NoKey,      \* an append without idempotency key
    Unchecked   \* an append without expected position

VARIABLES
    rows,       \* the table: [pos, key, event]
    acks,       \* the answers: a request, its position, whether its row is new
    asking      \* the request of each task that appends, as a set: none or one

vars == <<rows, acks, asking>>

Init ==
    /\ rows = {}
    /\ acks = {}
    /\ asking = [t \in Tasks |-> {}]

\* p is the highest position of R, or -1 if R is empty.
IsLast(p, R) ==
    /\ p = -1 \/ \E r \in R : r.pos = p
    /\ \A r \in R : r.pos <= p

\* A request remembers the highest position in the table when it is made.
Ask(t) ==
    /\ asking[t] = {}
    /\ \E q \in asking'[t] :
          /\ IsLast(q.before, rows)
          /\ asking' = [asking EXCEPT ![t] = {q}]
    /\ UNCHANGED <<rows, acks>>

Ends(t) == asking' = [asking EXCEPT ![t] = {}]

Answers(q, pos, fresh) ==
    acks' = acks \union {[pos |-> pos, key |-> q.key, event |-> q.event,
                          expected |-> q.expected, before |-> q.before, fresh |-> fresh]}

\* A row with a new position and a new key, behind every row there was when the request
\* was made.  One with an expected position comes right after it, and no row ever gets
\* in between.
Admits(q, r) ==
    /\ r.key = q.key /\ r.event = q.event
    /\ \A s \in rows : s.pos # r.pos /\ (s.key = r.key => r.key = NoKey)
    /\ q.before < r.pos
    /\ q.expected # Unchecked => IsLast(q.expected, rows) /\ q.expected < r.pos
    /\ \A a \in acks : a.fresh /\ a.expected # Unchecked => a.pos < r.pos

\* The append takes effect; its answer may be lost.
Insert(t) ==
    /\ \E q \in asking[t], r \in rows' :
          /\ Admits(q, r)
          /\ rows' = rows \union {r}
          /\ Answers(q, r.pos, TRUE) \/ acks' = acks
    /\ Ends(t)

\* A request that is repeated is answered with the row there is.
Find(t) ==
    /\ \E q \in asking[t], r \in rows :
          /\ q.key # NoKey /\ r.key = q.key /\ r.event = q.event
          /\ Answers(q, r.pos, FALSE)
    /\ Ends(t)
    /\ rows' = rows

\* It is refused, or fails.
GiveUp(t) ==
    /\ asking[t] # {}
    /\ Ends(t)
    /\ UNCHANGED <<rows, acks>>

Next == \E t \in Tasks : Ask(t) \/ Insert(t) \/ Find(t) \/ GiveUp(t)

Spec == Init /\ [][Next]_vars
=============================================================================
