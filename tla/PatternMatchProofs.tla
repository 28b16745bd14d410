-------------------------- MODULE PatternMatchProofs --------------------------
(***************************************************************************)
(* The matching loop of the router is correct for patterns and types of    *)
(* every length over every set of segments.                                *)
(***************************************************************************)
EXTENDS PatternMatch, TLAPS

\* A path is a non-empty sequence of segments.
LEMMA PathsAreSequences ==
    ASSUME NEW p \in Paths
    PROVE  /\ p \in Seq(Segments)
           /\ Len(p) \in Nat \ {0}
           /\ DOMAIN p = 1..Len(p)
<1>1. PICK n \in 1..MaxLen : p \in [1..n -> Segments]
  BY DEF Paths
<1>2. n \in Nat \ {0}
  BY MaxLenAssumption
<1> QED
  BY <1>1, <1>2

\* What the loop keeps while it runs, and what it has answered when it ends.
Inv == TypeOK /\ PrefixMatched /\ MatchCorrect

\* The loop starts with nothing matched yet.
LEMMA InitInv == Init => Inv
<1> SUFFICES ASSUME Init PROVE Inv
  OBVIOUS
<1>1. TypeOK
  BY DEF Init, TypeOK
<1>2. PrefixMatched
  BY PathsAreSequences DEF Init, PrefixMatched, PrefixMatches
<1>3. MatchCorrect
  BY DEF Init, MatchCorrect, Matches
<1> QED
  BY <1>1, <1>2, <1>3 DEF Inv

\* A running loop that meets "**" at its position answers correctly.
LEMMA MatchSuffixInv == Inv /\ MatchSuffix => Inv'
<1> SUFFICES ASSUME Inv, MatchSuffix PROVE Inv'
  OBVIOUS
<1> USE DEF Inv, MatchSuffix, Answer, InRange
<1>1. TypeOK'
  BY DEF TypeOK
<1>2. PrefixMatched'
  BY DEF PrefixMatched
<1>3. Matches(type, pattern)
  <2>1. i \in 1..Len(pattern) /\ i <= Len(type) /\ PrefixMatches(type, pattern, i - 1)
    BY PathsAreSequences DEF TypeOK, PrefixMatched
  <2> QED
    BY <2>1 DEF Matches
<1>4. MatchCorrect'
  BY <1>3 DEF MatchCorrect
<1> QED
  BY <1>1, <1>2, <1>4

\* A matching segment extends the matched prefix.
LEMMA MatchSegmentInv == Inv /\ MatchSegment => Inv'
<1> SUFFICES ASSUME Inv, MatchSegment PROVE Inv'
  OBVIOUS
<1> USE DEF Inv, MatchSegment, InRange
<1>1. TypeOK'
  BY DEF TypeOK
<1>2. PrefixMatched'
  <2>1. i = j /\ i \in Nat \ {0} /\ Len(pattern) \in Nat /\ Len(type) \in Nat
    BY PathsAreSequences DEF TypeOK, PrefixMatched
  <2>2. PrefixMatches(type, pattern, i)
    BY <2>1 DEF PrefixMatches, PrefixMatched
  <2> QED
    BY <2>1, <2>2 DEF PrefixMatched
<1>3. MatchCorrect'
  BY DEF MatchCorrect
<1> QED
  BY <1>1, <1>2, <1>3

\* A position that does not match refutes every way of matching.
LEMMA MismatchInv == Inv /\ Mismatch => Inv'
<1> SUFFICES ASSUME Inv, Mismatch PROVE Inv'
  OBVIOUS
<1> USE DEF Inv, Mismatch, Answer, InRange
<1>1. TypeOK'
  BY DEF TypeOK
<1>2. PrefixMatched'
  BY DEF PrefixMatched
<1>3. ~Matches(type, pattern)
  <2>1. /\ i \in 1..Len(pattern)
        /\ pattern[i] # StarStar
        /\ ~SegmentMatches(pattern[i], type[i])
        /\ pattern # type
        /\ PrefixMatches(type, pattern, i - 1)
        /\ Len(pattern) \in Nat
    BY PathsAreSequences DEF TypeOK, PrefixMatched
  <2>2. ~PrefixMatches(type, pattern, Len(pattern))
    BY <2>1 DEF PrefixMatches
  <2>3. ASSUME NEW k \in 1..Len(pattern), pattern[k] = StarStar,
               PrefixMatches(type, pattern, k - 1)
        PROVE  FALSE
    <3>1. CASE k < i
      BY <2>1, <2>3, <3>1 DEF PrefixMatches
    <3>2. CASE k > i
      BY <2>1, <2>3, <3>2 DEF PrefixMatches
    <3>3. CASE k = i
      BY <2>1, <2>3, <3>3
    <3> QED
      BY <2>1, <3>1, <3>2, <3>3
  <2> QED
    BY <2>1, <2>2, <2>3 DEF Matches
<1>4. MatchCorrect'
  BY <1>3 DEF MatchCorrect
<1> QED
  BY <1>1, <1>2, <1>4

\* A loop that has used up one of the two answers correctly.
LEMMA ExhaustedInv == Inv /\ Exhausted => Inv'
<1> SUFFICES ASSUME Inv, Exhausted PROVE Inv'
  OBVIOUS
<1> USE DEF Inv, Exhausted, Answer, InRange
<1>1. TypeOK'
  BY DEF TypeOK
<1>2. PrefixMatched'
  BY DEF PrefixMatched
<1>3. i = j
  BY DEF PrefixMatched
<1>4. /\ i \in Nat
      /\ Len(pattern) \in Nat
      /\ Len(type) \in Nat
      /\ i <= Len(pattern) + 1
      /\ i <= Len(type) + 1
      /\ i > Len(pattern) \/ i > Len(type)
  BY PathsAreSequences DEF TypeOK, PrefixMatched
<1>5. pattern # type /\ PrefixMatches(type, pattern, i - 1)
  BY DEF PrefixMatched
<1>6. MatchCorrect'
  <2>1. CASE i = Len(pattern) + 1 /\ j = Len(type) + 1
    <3>0. i = Len(pattern) + 1 /\ i = Len(type) + 1
      BY <1>3, <2>1
    <3>1. Len(pattern) = Len(type) /\ i - 1 = Len(pattern)
      BY <1>4, <3>0
    <3>2. PrefixMatches(type, pattern, Len(pattern))
      BY <1>4, <1>5, <3>1 DEF PrefixMatches
    <3> QED
      BY <3>1, <3>2, <2>1 DEF MatchCorrect, Matches
  <2>2. CASE ~(i = Len(pattern) + 1 /\ j = Len(type) + 1)
    <3>1. Len(pattern) # Len(type)
      BY <1>3, <1>4, <2>2
    <3>2. ASSUME NEW k \in 1..Len(pattern), pattern[k] = StarStar, k <= Len(type)
          PROVE  FALSE
      BY <1>4, <1>5, <3>2 DEF PrefixMatches
    <3> QED
      BY <1>3, <1>5, <2>2, <3>1, <3>2 DEF MatchCorrect, Matches
  <2> QED
    BY <2>1, <2>2
<1> QED
  BY <1>1, <1>2, <1>6

\* No branch of the loop breaks the invariant.
LEMMA InvStep == Inv /\ [Next]_vars => Inv'
<1> SUFFICES ASSUME Inv, [Next]_vars PROVE Inv'
  OBVIOUS
<1>1. CASE Next
  BY <1>1, MatchSuffixInv, MatchSegmentInv, MismatchInv, ExhaustedInv DEF Next
<1>2. CASE UNCHANGED vars
  BY <1>2 DEF vars, Inv, TypeOK, PrefixMatched, MatchCorrect
<1> QED
  BY <1>1, <1>2

\* Router._matches_pattern keeps its types and its indices in lockstep, and what
\* it returns is what the pattern means, for paths of every length.
THEOREM InvHolds == Spec => []Inv
  BY InitInv, InvStep, PTL DEF Spec

\* Router._matches_pattern returns true exactly for the types the pattern
\* matches.
THEOREM MatchingIsCorrect == Spec => []MatchCorrect
<1>1. Inv => MatchCorrect
  BY DEF Inv
<1> QED
  BY <1>1, InvHolds, PTL
=============================================================================
