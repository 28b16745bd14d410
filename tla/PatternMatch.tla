---------------------------- MODULE PatternMatch ----------------------------
(***************************************************************************)
(* Router._matches_pattern (src/src/eventful/router.py): the loop over the *)
(* segments of a pattern and of an event type, one action per branch.  It  *)
(* is checked against the declarative Matches of module Topics, which is   *)
(* what the model of the bus uses.                                         *)
(***************************************************************************)
EXTENDS Topics

CONSTANT MaxLen     \* the longest type or pattern considered

ASSUME MaxLenAssumption == MaxLen \in Nat \ {0}

\* What str.split(".") can return.
Paths == UNION { [1..n -> Segments] : n \in 1..MaxLen }

VARIABLES
    pattern,    \* pattern_parts
    type,       \* event_parts
    i, j,       \* the two indices, from 1 as TLA+ sequences are
    verdict     \* "running" until the code returns, then what it returns

vars == <<pattern, type, i, j, verdict>>

-----------------------------------------------------------------------------
\* Identical strings match before any splitting.
Init ==
    /\ pattern \in Paths
    /\ type \in Paths
    /\ i = 1
    /\ j = 1
    /\ verdict = IF pattern = type THEN "true" ELSE "running"

InRange == i <= Len(pattern) /\ j <= Len(type)

Answer(v) ==
    /\ verdict' = v
    /\ UNCHANGED <<pattern, type, i, j>>

\* pattern_parts[i] == '**': whatever is left of the event type matches.
MatchSuffix ==
    /\ verdict = "running"
    /\ InRange
    /\ pattern[i] = StarStar
    /\ Answer("true")

\* Mutant: an equal segment does not advance the loop.
MutMatchSegmentStuck ==
    /\ verdict = "running"
    /\ InRange
    /\ pattern[i] # StarStar
    /\ SegmentMatches(pattern[i], type[j])
    /\ i' = IF pattern[i] = Star THEN i + 1 ELSE i
    /\ j' = IF pattern[i] = Star THEN j + 1 ELSE j
    /\ UNCHANGED <<pattern, type, verdict>>

\* '*' or an equal segment: both indices advance.
MatchSegment ==
    /\ verdict = "running"
    /\ InRange
    /\ pattern[i] # StarStar
    /\ SegmentMatches(pattern[i], type[j])
    /\ i' = i + 1
    /\ j' = j + 1
    /\ UNCHANGED <<pattern, type, verdict>>

Mismatch ==
    /\ verdict = "running"
    /\ InRange
    /\ pattern[i] # StarStar
    /\ ~SegmentMatches(pattern[i], type[j])
    /\ Answer("false")

\* Mutant: "**" is taken to match an empty rest as well.
MutExhausted ==
    /\ verdict = "running"
    /\ ~InRange
    /\ Answer(IF j = Len(type) + 1
                 /\ (i = Len(pattern) + 1 \/ pattern[i] = StarStar)
              THEN "true" ELSE "false")

\* One of the two is used up: a match only if both are.
Exhausted ==
    /\ verdict = "running"
    /\ ~InRange
    /\ Answer(IF i = Len(pattern) + 1 /\ j = Len(type) + 1 THEN "true" ELSE "false")

Next == MatchSuffix \/ MatchSegment \/ Mismatch \/ Exhausted

Spec == Init /\ [][Next]_vars /\ WF_vars(Next)

-----------------------------------------------------------------------------
\* The variables keep their types, and the code returns a Boolean
\* (Router._matches_pattern).
TypeOK ==
    /\ pattern \in Paths
    /\ type \in Paths
    /\ i \in Nat \ {0}
    /\ j \in Nat \ {0}
    /\ verdict \in {"running", "true", "false"}

\* The loop decides the declarative meaning of the pattern, for every pair of
\* a type and a pattern (Router._matches_pattern).
MatchCorrect ==
    /\ verdict = "true" => Matches(type, pattern)
    /\ verdict = "false" => ~Matches(type, pattern)

\* Why it does: the indices run in lockstep over a prefix that matched without
\* meeting "**", the strengthening that makes MatchCorrect inductive
\* (Router._matches_pattern).
PrefixMatched ==
    verdict = "running" =>
        /\ i = j
        /\ i <= Len(pattern) + 1
        /\ j <= Len(type) + 1
        /\ pattern # type
        /\ PrefixMatches(type, pattern, i - 1)

\* The loop ends on every input; it runs with the bus's lock held, so one that
\* did not would stop every thread (Router._matches_pattern).
MatchTerminates == <>(verdict # "running")
=============================================================================
