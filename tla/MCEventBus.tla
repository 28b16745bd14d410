----------------------------- MODULE MCEventBus -----------------------------
(***************************************************************************)
(* Instances of the bus for TLC.  Registrations are named by what matters: *)
(* an exact one on "a.b", wildcard ones on "a.*" and "**", with or without *)
(* once, and the kind of their callable.                                   *)
(***************************************************************************)
EXTENDS EventBus

MCSegments == {"a", "b", "c", "*", "**"}
MCStarSegments == {"*", "**"}

AB == <<"a", "b">>
AStar == <<"a", "*">>
Deep == <<"**">>

\* The topic of a registration, by its name.
MCTopicOf == [r \in Regs |->
    CASE r \in {"exact", "exact2", "onceExact"} -> AB
      [] r \in {"wild", "onceWild"} -> AStar
      [] OTHER -> Deep]
MCFuncOf == [r \in Regs |-> IF r = "exact2" THEN "exact" ELSE r]
MCPriority == [r \in Regs |-> IF r \in {"onceWild", "deep"} THEN 1 ELSE 0]
MCOnce == Regs \intersect {"onceExact", "onceWild"}
MCPatterns == { MCTopicOf[r] : r \in Regs }
MCFuncs == { MCFuncOf[r] : r \in Regs }

\* Events "x" and "y" have the type of the exact topic, "z" another one; "bad" is
\* refused by the schema registry.
MCTypeOf == [e \in Events |-> IF e = "z" THEN <<"a", "c">> ELSE AB]
MCValid == Events \ {"bad"}

AllAccept == [r \in Regs |-> Events]
NoFilterRaises == [r \in Regs |-> {}]
\* "deep" takes only "x", and its filter raises on "z".
PickyAccept == [r \in Regs |-> IF r = "deep" THEN Events \ {"y"} ELSE Events]
PickyRaises == [r \in Regs |-> IF r = "deep" THEN {"z"} ELSE {}]

AllSync == [func \in Funcs |-> "sync"]
\* One callable of each kind.
Mixed == [func \in Funcs |->
    CASE func \in {"onceWild", "wild"} -> "async"
      [] func = "deep" -> "dyn"
      [] OTHER -> "sync"]

\* Threads differ by their names only, in the initial state, the actions and the safety
\* properties alike.
Swaps == Permutations(Threads)
Threads2 == {"t1", "t2"}
Threads1 == {"t1"}
=============================================================================
