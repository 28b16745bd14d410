--------------------------- MODULE MCTimedListener ---------------------------
(***************************************************************************)
(* An instance of the debounced and rate limited listener for TLC.         *)
(***************************************************************************)
EXTENDS TimedListener

\* Application threads, numbered apart from the timers.
MCApps == {11, 12}
=============================================================================
