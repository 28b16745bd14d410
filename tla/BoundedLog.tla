----------------------------- MODULE BoundedLog -----------------------------
(***************************************************************************)
(* What the file store promises about the records it keeps: a log that     *)
(* grows at its end and is dropped from its beginning, in which whatever   *)
(* was acknowledged had been written before.  FilePersistence implements   *)
(* it through crashes, I/O errors and every step of its rotation.          *)
(***************************************************************************)
EXTENDS Integers

CONSTANT Ids    \* the records, numbered in the order of their appends

VARIABLES
    log,        \* the retained records that are whole
    acked       \* the records whose append returned

vars == <<log, acked>>

Init ==
    /\ log = {}
    /\ acked = {}

\* A record becomes whole, after every older one.
Write ==
    /\ \E i \in Ids :
          /\ \A j \in log \union acked : j < i
          /\ log' = log \union {i}
    /\ acked' = acked

\* Its append returns.
Acknowledge ==
    /\ \E i \in log \ acked : acked' = acked \union {i}
    /\ log' = log

\* The oldest records go, never all of them.
Drop ==
    /\ \E i \in log : log' = { j \in log : i <= j }
    /\ acked' = acked

Next == Write \/ Acknowledge \/ Drop

Spec == Init /\ [][Next]_vars
=============================================================================
