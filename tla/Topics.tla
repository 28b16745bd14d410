------------------------------- MODULE Topics -------------------------------
(***************************************************************************)
(* What a topic pattern means (src/src/eventful/router.py).  An event type *)
(* or a pattern is the sequence of segments that str.split(".") returns,   *)
(* never empty.  A segment is an uninterpreted value; the code tells apart *)
(* only "*", "**" and the segments in which a star occurs.                 *)
(***************************************************************************)
EXTENDS Naturals, Sequences

CONSTANTS
    Segments,       \* every segment that may occur, the wildcards included
    StarSegments,   \* those in which the character '*' occurs
    Star,           \* the segment "*"
    StarStar        \* the segment "**"

ASSUME SegmentsAssumption ==
    /\ StarSegments \subseteq Segments
    /\ Star \in StarSegments
    /\ StarStar \in StarSegments
    /\ Star # StarStar

\* The test that sends a pattern to the wildcard index ('*' in topic).
IsWildcard(p) == \E k \in DOMAIN p : p[k] \in StarSegments

SegmentMatches(p, s) == p = Star \/ p = s

\* The first n segments of the pattern match those of the type one by one.
PrefixMatches(t, p, n) ==
    \A k \in 1..n : p[k] # StarStar /\ SegmentMatches(p[k], t[k])

\* A pattern without "**" matches segment by segment; otherwise its first "**"
\* stands for at least one remaining segment, and what the pattern says behind
\* it is ignored.
Matches(t, p) ==
    \/ p = t
    \/ Len(p) = Len(t) /\ PrefixMatches(t, p, Len(p))
    \/ \E k \in 1..Len(p) :
          p[k] = StarStar /\ k <= Len(t) /\ PrefixMatches(t, p, k - 1)
=============================================================================
