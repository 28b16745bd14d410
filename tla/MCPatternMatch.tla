--------------------------- MODULE MCPatternMatch ---------------------------
(***************************************************************************)
(* Every pattern and type of up to three segments over two names, the two  *)
(* wildcards and a name with a star in it: "**" first, in the middle, last *)
(* and absent; patterns shorter and longer than the type.                  *)
(***************************************************************************)
EXTENDS PatternMatch

MCSegments == {"a", "b", "b*", "*", "**"}
MCStarSegments == {"b*", "*", "**"}
=============================================================================
