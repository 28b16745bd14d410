--------------------------- MODULE MCAsyncDebounce ---------------------------
(***************************************************************************)
(* An instance of the asyncio debouncer for TLC.                           *)
(***************************************************************************)
EXTENDS AsyncDebounce

\* Application tasks, numbered apart from the debouncer's own.
MCApps == {11, 12}
=============================================================================
