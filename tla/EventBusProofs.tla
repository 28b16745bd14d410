---------------------------- MODULE EventBusProofs ----------------------------
(***************************************************************************)
(* Theorems about the event bus, for every number of threads, events and   *)
(* registrations and every depth of nesting.                               *)
(***************************************************************************)
EXTENDS EventBus, SequenceTheorems, TLAPS

(* Frames: every change the code makes to a dispatch keeps it well-formed. *)

\* What the loop and its except clauses do to a dispatch keeps it well-formed.
LEMMA FrameChanges ==
    ASSUME NEW f, FrameOK(f), f.pc \in {"claim", "running", "handling", "calling"}
    PROVE  /\ FrameOK(Advance(f))
           /\ \A exc \in Exceptions : FrameOK(Failed(f, exc)) /\ FrameOK(Thrown(f, exc))
           /\ FrameOK([f EXCEPT !.pc = "calling"])
           /\ FrameOK(Invoke(f))
<1> USE DEF FrameOK, Frames
<1>1. FrameOK(Advance(f))
  <2> DEFINE g == Advance(f)
  <2>1. f.snap \in Seq(Regs) /\ f.next \in Nat \ {0}
    OBVIOUS
  <2>2. Len(f.snap) \in Nat
    BY <2>1, LenProperties
  <2>3. f.next + 1 \in Nat \ {0} /\ f.next + 1 <= Len(f.snap) + 1
    BY <2>1, <2>2
  <2>4. g \in Frames
    BY <2>3 DEF Advance
  <2>5. g.next = f.next + 1 /\ g.snap = f.snap /\ g.pc = "loop" /\ g.exc = f.exc
    BY DEF Advance
  <2>6. f.exc = "null"
    OBVIOUS
  <2> HIDE DEF g, Frames
  <2>7. FrameOK(g)
    BY <2>3, <2>4, <2>5, <2>6
  <2> QED
    BY <2>7 DEF g
<1>2. ASSUME NEW exc \in Exceptions PROVE FrameOK(Failed(f, exc))
  BY DEF Failed, Exceptions, Raisable
<1>3. FrameOK(Finished(f, TRUE))
  BY DEF Finished
<1>4. FrameOK([f EXCEPT !.pc = "handling"])
  OBVIOUS
<1>5. ASSUME NEW exc \in Exceptions PROVE FrameOK(Thrown(f, exc))
  <2> HIDE DEF FrameOK, Frames
  <2> QED
    BY <1>1, <1>2, <1>3, <1>4 DEF Thrown
<1>6. FrameOK([f EXCEPT !.pc = "calling"])
  OBVIOUS
<1>7. FrameOK(Invoke(f))
  BY DEF Invoke
<1> QED
  BY ZenonT(40), <1>1, <1>2, <1>5, <1>6, <1>7

\* A dispatch starts well-formed.
LEMMA NewFrameOK ==
    ASSUME NEW e \in Events, NEW mode \in {"sync", "async"}, NEW q \in Seq(Regs),
           NEW due \in SUBSET Regs
    PROVE  FrameOK(NewFrame(e, mode, q, due))
BY LenProperties DEF FrameOK, Frames, NewFrame

-----------------------------------------------------------------------------
(* The stacks of dispatches.                                               *)

\* The innermost dispatch of a thread that has one.
LEMMA TopOfStack ==
    ASSUME StackOK, NEW t \in Threads, stack[t] # <<>>
    PROVE  /\ stack[t] \in Seq(Frames)
           /\ Len(stack[t]) \in Nat \ {0}
           /\ Top(t) = stack[t][Len(stack[t])]
           /\ FrameOK(Top(t))
<1>1. stack[t] \in Seq(Frames) /\ Len(stack[t]) \in Nat \ {0}
  BY EmptySeq, LenProperties DEF StackOK
<1>2. Top(t) = stack[t][Len(stack[t])]
  BY DEF Top, Last
<1> QED
  BY <1>1, <1>2, LenProperties DEF StackOK

\* Rewriting the innermost dispatch keeps the stacks sound ...
LEMMA SetTopKeepsStack ==
    ASSUME StackOK, NEW t \in Threads, stack[t] # <<>>, NEW f, FrameOK(f), SetTop(t, f)
    PROVE  StackOK'
<1>1. /\ stack[t] \in Seq(Frames)
      /\ Len(stack[t]) \in Nat \ {0}
      /\ DOMAIN stack[t] = 1..Len(stack[t])
  BY TopOfStack, LenProperties
<1> DEFINE s == Replace(stack[t], f)
<1>2. /\ s \in Seq(Frames)
      /\ Len(s) = Len(stack[t])
      /\ \A n \in 1..Len(s) : s[n] = IF n = Len(s) THEN f ELSE stack[t][n]
  BY <1>1, ExceptSeq DEF Replace, FrameOK
<1>3. stack' = [stack EXCEPT ![t] = s]
  BY DEF SetTop
<1>4. stack' \in [Threads -> Seq(Frames)]
  BY <1>2, <1>3 DEF StackOK
<1>5. ASSUME NEW u \in Threads, NEW n \in DOMAIN stack'[u]
      PROVE  FrameOK(stack'[u][n]) /\ (n < Len(stack'[u]) => stack'[u][n].pc = "running")
  <2> HIDE DEF s
  <2>1. CASE u = t
    <3>1. stack'[u] = s
      BY <1>3, <2>1 DEF StackOK
    <3>2. n \in 1..Len(s)
      BY <1>2, <3>1, LenProperties
    <3> QED
      BY <1>1, <1>2, <3>1, <3>2 DEF StackOK
  <2>2. CASE u # t
    BY <1>3, <2>2 DEF StackOK
  <2> QED
    BY <2>1, <2>2
<1> QED
  BY <1>4, <1>5 DEF StackOK

\* ... and so does a nested emission, which only a callback makes,
LEMMA PushKeepsStack ==
    ASSUME StackOK, NEW t \in Threads, InApp(t), NEW f, FrameOK(f), Push(t, f)
    PROVE  StackOK'
<1> DEFINE s == Append(stack[t], f)
<1>1. stack[t] \in Seq(Frames) /\ Len(stack[t]) \in Nat /\ f \in Frames
  BY LenProperties DEF StackOK, FrameOK
<1>2. /\ s \in Seq(Frames)
      /\ Len(s) = Len(stack[t]) + 1
      /\ \A n \in 1..Len(stack[t]) : s[n] = stack[t][n]
      /\ s[Len(stack[t]) + 1] = f
  BY <1>1, AppendProperties
<1>3. stack' = [stack EXCEPT ![t] = s]
  BY DEF Push
<1>4. stack' \in [Threads -> Seq(Frames)]
  BY <1>2, <1>3 DEF StackOK
<1>5. \A n \in 1..Len(stack[t]) : FrameOK(stack[t][n]) /\ stack[t][n].pc = "running"
  <2> SUFFICES ASSUME NEW n \in 1..Len(stack[t])
               PROVE  FrameOK(stack[t][n]) /\ stack[t][n].pc = "running"
    OBVIOUS
  <2>1. n \in DOMAIN stack[t] /\ (n = Len(stack[t]) \/ n < Len(stack[t]))
    BY <1>1, LenProperties
  <2>2. stack[t] # <<>>
    BY <1>1, EmptySeq
  <2>3. stack[t][Len(stack[t])].pc = "running"
    BY <2>2, TopOfStack DEF InApp, AtPc
  <2> QED
    BY <2>1, <2>3 DEF StackOK
<1>6. ASSUME NEW u \in Threads, NEW n \in DOMAIN stack'[u]
      PROVE  FrameOK(stack'[u][n]) /\ (n < Len(stack'[u]) => stack'[u][n].pc = "running")
  <2> HIDE DEF s
  <2>1. CASE u = t
    <3>1. stack'[u] = s
      BY <1>3, <2>1 DEF StackOK
    <3>2. n \in 1..(Len(stack[t]) + 1)
      BY <1>2, <3>1, LenProperties
    <3>3. n \in 1..Len(stack[t]) \/ n = Len(stack[t]) + 1
      BY <1>1, <3>2
    <3> QED
      BY <1>1, <1>2, <1>5, <3>1, <3>3
  <2>2. CASE u # t
    BY <1>3, <2>2 DEF StackOK
  <2> QED
    BY <2>1, <2>2
<1> QED
  BY <1>4, <1>6 DEF StackOK

\* The dispatches that are left when the innermost one is over.
LEMMA FrontOfStack ==
    ASSUME StackOK, NEW t \in Threads, stack[t] # <<>>
    PROVE  /\ Front(stack[t]) \in Seq(Frames)
           /\ Len(Front(stack[t])) = Len(stack[t]) - 1
           /\ \A n \in 1..Len(Front(stack[t])) :
                 /\ Front(stack[t])[n] = stack[t][n]
                 /\ FrameOK(Front(stack[t])[n])
                 /\ Front(stack[t])[n].pc = "running"
<1> DEFINE s == stack[t]
<1>1. s \in Seq(Frames) /\ Len(s) \in Nat \ {0} /\ DOMAIN s = 1..Len(s)
  BY TopOfStack, LenProperties
<1>2. \A n \in 1..(Len(s) - 1) : s[n] \in Frames
  BY <1>1, ElementOfSeq
<1>3. /\ SubSeq(s, 1, Len(s) - 1) \in Seq(Frames)
      /\ Len(SubSeq(s, 1, Len(s) - 1)) = Len(s) - 1
      /\ \A n \in 1..(Len(s) - 1) : SubSeq(s, 1, Len(s) - 1)[n] = s[n]
  BY <1>1, <1>2, SubSeqProperties
<1>4. \A n \in 1..(Len(s) - 1) : FrameOK(s[n]) /\ s[n].pc = "running"
  BY <1>1 DEF StackOK
<1> QED
  BY <1>1, <1>3, <1>4 DEF Front

\* ... the end of the innermost dispatch,
LEMMA PopKeepsStack ==
    ASSUME StackOK, NEW t \in Threads, stack[t] # <<>>,
           stack' = [stack EXCEPT ![t] = Front(@)]
    PROVE  StackOK'
<1>1. stack' \in [Threads -> Seq(Frames)]
  BY FrontOfStack DEF StackOK
<1>2. ASSUME NEW u \in Threads, NEW n \in DOMAIN stack'[u]
      PROVE  FrameOK(stack'[u][n]) /\ (n < Len(stack'[u]) => stack'[u][n].pc = "running")
  <2>1. CASE u = t
    <3>1. stack'[u] = Front(stack[t])
      BY <2>1 DEF StackOK
    <3>2. n \in 1..Len(Front(stack[t]))
      BY <3>1, FrontOfStack, LenProperties
    <3> QED
      BY <3>1, <3>2, FrontOfStack
  <2>2. CASE u # t
    BY <2>2 DEF StackOK
  <2> QED
    BY <2>1, <2>2
<1> QED
  BY <1>1, <1>2 DEF StackOK

\* A failed dispatch is left and its exception reaches the dispatch below it.
LEMMA PopThroughKeepsStack ==
    ASSUME StackOK, NEW t \in Threads, stack[t] # <<>>, Front(stack[t]) # <<>>,
           NEW exc \in Exceptions,
           stack' = [stack EXCEPT ![t] =
                        Replace(Front(stack[t]), Thrown(Last(Front(stack[t])), exc))]
    PROVE  StackOK'
<1> DEFINE r == Front(stack[t])
           f == Thrown(Last(r), exc)
           s == Replace(r, f)
<1>1. /\ r \in Seq(Frames)
      /\ Len(r) \in Nat \ {0}
      /\ \A n \in 1..Len(r) : FrameOK(r[n]) /\ r[n].pc = "running"
  BY FrontOfStack, EmptySeq
<1>2. FrameOK(f) /\ f \in Frames
  <2> DEFINE g == Last(r)
  <2>1. FrameOK(g) /\ g.pc = "running"
    BY <1>1 DEF Last
  <2> HIDE DEF g
  <2>2. FrameOK(Thrown(g, exc))
    BY <2>1, FrameChanges
  <2> QED
    BY <2>2 DEF g, FrameOK
<1>3. /\ s \in Seq(Frames)
      /\ Len(s) = Len(r)
      /\ \A n \in 1..Len(r) : s[n] = IF n = Len(r) THEN f ELSE r[n]
  <2> HIDE DEF f, r
  <2> QED
    BY <1>1, <1>2, ExceptSeq DEF Replace
<1>4. stack' = [stack EXCEPT ![t] = s]
  OBVIOUS
<1> HIDE DEF r, f, s
<1>5. stack' \in [Threads -> Seq(Frames)]
  BY <1>3, <1>4 DEF StackOK
<1>6. ASSUME NEW u \in Threads, NEW n \in DOMAIN stack'[u]
      PROVE  FrameOK(stack'[u][n]) /\ (n < Len(stack'[u]) => stack'[u][n].pc = "running")
  <2>1. CASE u = t
    <3>1. stack'[u] = s
      BY <1>4, <2>1 DEF StackOK
    <3>2. n \in 1..Len(r)
      BY <1>3, <3>1, LenProperties
    <3> QED
      BY <1>1, <1>2, <1>3, <3>1, <3>2
  <2>2. CASE u # t
    BY <1>4, <2>2 DEF StackOK
  <2> QED
    BY <2>1, <2>2
<1> QED
  BY <1>5, <1>6 DEF StackOK

-----------------------------------------------------------------------------
(* Routing and the indexes.                                                *)

\* A snapshot is a sequence of registrations.
LEMMA SnapshotsAreSequences ==
    ASSUME TypeOK, NEW e \in Events, NEW q \in Snapshots(e)
    PROVE  q \in Seq(Regs)
<1>1. Candidates(e) \in Seq(Regs)
  <2>1. <<>> \in Seq(Regs)
    BY EmptySeq
  <2> QED
    BY <2>1, ConcatProperties DEF TypeOK, Candidates
<1>2. Selected(e) \subseteq Regs
  BY <1>1, LenProperties DEF Selected, ToSet
<1>3. Len(Candidates(e)) \in Nat
  BY <1>1, LenProperties
<1>4. PICK n \in 0..Len(Candidates(e)) : q \in [1..n -> Selected(e)]
  BY DEF Snapshots
<1>5. n \in Nat /\ q \in [1..n -> Regs]
  BY <1>2, <1>3, <1>4
<1> QED
  BY <1>5, SeqDef

\* Dropping one position of a sequence.
LEMMA RemoveAtProperties ==
    ASSUME NEW S, NEW s \in Seq(S), NEW k \in 1..Len(s)
    PROVE  /\ RemoveAt(s, k) \in Seq(S)
           /\ Len(RemoveAt(s, k)) = Len(s) - 1
           /\ \A n \in 1..(Len(s) - 1) :
                 RemoveAt(s, k)[n] = IF n < k THEN s[n] ELSE s[n + 1]
<1> DEFINE a == SubSeq(s, 1, k - 1)
           b == SubSeq(s, k + 1, Len(s))
<1>1. Len(s) \in Nat /\ k \in Nat \ {0} /\ k <= Len(s)
  BY LenProperties
<1>2. \A n \in 1..Len(s) : s[n] \in S
  BY ElementOfSeq
<1>3. /\ a \in Seq(S)
      /\ Len(a) = k - 1
      /\ \A n \in 1..(k - 1) : a[n] = s[n]
  <2>1. k - 1 \in Int /\ (\A n \in 1..(k - 1) : s[n] \in S)
    BY <1>1, <1>2
  <2>2. /\ a \in Seq(S)
        /\ Len(a) = IF 1 <= k - 1 THEN (k - 1) - 1 + 1 ELSE 0
        /\ \A n \in 1..((k - 1) - 1 + 1) : a[n] = s[1 + n - 1]
    BY <2>1, SubSeqProperties
  <2> HIDE DEF a
  <2>3. \A n \in 1..(k - 1) : n \in 1..((k - 1) - 1 + 1) /\ 1 + n - 1 = n
    BY <1>1
  <2> QED
    BY <1>1, <2>2, <2>3
<1>4. /\ b \in Seq(S)
      /\ Len(b) = Len(s) - k
      /\ \A n \in 1..(Len(s) - k) : b[n] = s[k + n]
  <2>1. k + 1 \in Int /\ Len(s) \in Int /\ (\A n \in (k + 1)..Len(s) : s[n] \in S)
    BY <1>1, <1>2
  <2>2. /\ b \in Seq(S)
        /\ Len(b) = IF k + 1 <= Len(s) THEN Len(s) - (k + 1) + 1 ELSE 0
        /\ \A n \in 1..(Len(s) - (k + 1) + 1) : b[n] = s[(k + 1) + n - 1]
    BY <2>1, SubSeqProperties
  <2> HIDE DEF b
  <2>3. \A n \in 1..(Len(s) - k) :
           n \in 1..(Len(s) - (k + 1) + 1) /\ (k + 1) + n - 1 = k + n
    BY <1>1
  <2> QED
    BY <1>1, <2>2, <2>3
<1>5. RemoveAt(s, k) = a \o b
  BY DEF RemoveAt
<1> HIDE DEF a, b
<1>6. /\ a \o b \in Seq(S)
      /\ Len(a \o b) = Len(a) + Len(b)
      /\ \A n \in 1..(Len(a) + Len(b)) :
            (a \o b)[n] = IF n <= Len(a) THEN a[n] ELSE b[n - Len(a)]
  BY <1>3, <1>4, ConcatProperties
<1>7. ASSUME NEW n \in 1..(Len(s) - 1)
      PROVE  (a \o b)[n] = IF n < k THEN s[n] ELSE s[n + 1]
  <2>1. n \in 1..(Len(a) + Len(b))
    BY <1>1, <1>3, <1>4
  <2>2. CASE n < k
    BY <1>1, <1>3, <1>6, <2>1, <2>2
  <2>3. CASE ~(n < k)
    <3>1. n - (k - 1) \in 1..(Len(s) - k) /\ k + (n - (k - 1)) = n + 1
      BY <1>1, <2>3
    <3>2. (a \o b)[n] = b[n - (k - 1)]
      BY <1>1, <1>3, <1>6, <2>1, <2>3
    <3> QED
      BY <1>4, <2>3, <3>1, <3>2
  <2> QED
    BY <2>2, <2>3
<1> QED
  BY <1>1, <1>3, <1>4, <1>5, <1>6, <1>7

Distinct(s) == \A m, n \in DOMAIN s : m < n => s[m] # s[n]

\* Removing a registration from a list that holds it at most once.
LEMMA WithoutProperties ==
    ASSUME NEW S, NEW s \in Seq(S), Distinct(s), NEW r
    PROVE  /\ Without(s, r) \in Seq(S)
           /\ \A x : Contains(Without(s, r), x) <=> Contains(s, x) /\ x # r
           /\ \A m, n \in DOMAIN Without(s, r) : m < n =>
                 \E i, j \in DOMAIN s :
                    i < j /\ s[i] = Without(s, r)[m] /\ s[j] = Without(s, r)[n]
<1> DEFINE w == Without(s, r)
<1>1. Len(s) \in Nat /\ DOMAIN s = 1..Len(s)
  BY LenProperties
<1>2. CASE ~Contains(s, r)
  <2>1. w = s
    BY <1>2 DEF Without
  <2> QED
    BY <1>1, <1>2, <2>1 DEF Contains
<1>3. CASE Contains(s, r)
  <2> DEFINE k == CHOOSE k \in DOMAIN s : s[k] = r
  <2>1. k \in 1..Len(s) /\ s[k] = r
    BY <1>1, <1>3 DEF Contains
  <2>2. w = RemoveAt(s, k)
    BY <1>3 DEF Without
  <2> HIDE DEF k, w
  <2>3. /\ w \in Seq(S)
        /\ Len(w) = Len(s) - 1
        /\ \A n \in 1..(Len(s) - 1) : w[n] = IF n < k THEN s[n] ELSE s[n + 1]
    BY <2>1, <2>2, RemoveAtProperties
  <2>4. DOMAIN w = 1..(Len(s) - 1)
    BY <2>3, LenProperties
  <2>5. ASSUME NEW n \in 1..(Len(s) - 1)
        PROVE  \E i \in 1..Len(s) : i # k /\ s[i] = w[n]
    <3>1. CASE n < k
      <4>1. s[n] = w[n]
        BY <2>3, <3>1
      <4>2. n \in 1..Len(s) /\ n # k
        BY <1>1, <2>1, <3>1
      <4> QED
        BY <4>1, <4>2
    <3>2. CASE ~(n < k)
      <4>1. n + 1 \in 1..Len(s) /\ n + 1 # k /\ s[n + 1] = w[n]
        BY <1>1, <2>1, <2>3, <3>2
      <4> QED
        BY <4>1
    <3> QED
      BY <3>1, <3>2
  <2>6. ASSUME NEW i \in 1..Len(s), i # k
        PROVE  \E n \in 1..(Len(s) - 1) : s[i] = w[n]
    <3>1. CASE i < k
      BY <1>1, <2>1, <2>3, <3>1
    <3>2. CASE i > k
      <4>1. i - 1 \in 1..(Len(s) - 1) /\ ~(i - 1 < k) /\ (i - 1) + 1 = i
        BY <1>1, <2>1, <3>2
      <4> QED
        BY <2>3, <4>1
    <3> QED
      BY <1>1, <2>1, <2>6, <3>1, <3>2
  <2>7. \A i \in 1..Len(s) : s[i] = r => i = k
    BY <1>1, <2>1 DEF Distinct
  <2>8. ASSUME NEW x PROVE Contains(w, x) <=> Contains(s, x) /\ x # r
    <3>1. Contains(w, x) <=> \E n \in 1..(Len(s) - 1) : w[n] = x
      BY <2>3 DEF Contains
    <3>2. Contains(s, x) <=> \E i \in 1..Len(s) : s[i] = x
      BY DEF Contains
    <3>3. ASSUME NEW n \in 1..(Len(s) - 1), w[n] = x PROVE Contains(s, x) /\ x # r
      BY <2>5, <2>7, <3>2, <3>3
    <3>4. ASSUME NEW i \in 1..Len(s), s[i] = x, x # r PROVE Contains(w, x)
      BY <2>1, <2>6, <3>1, <3>4
    <3> QED
      BY <3>1, <3>2, <3>3, <3>4
  <2>9. ASSUME NEW m \in 1..(Len(s) - 1), NEW n \in 1..(Len(s) - 1), m < n
        PROVE  \E i, j \in 1..Len(s) : i < j /\ s[i] = w[m] /\ s[j] = w[n]
    <3>1. CASE n < k
      <4>1. m < k
        BY <1>1, <2>1, <2>9, <3>1
      <4>2. s[m] = w[m] /\ s[n] = w[n]
        BY <2>3, <3>1, <4>1
      <4>3. m \in 1..Len(s) /\ n \in 1..Len(s) /\ m < n
        BY <1>1, <2>9
      <4> QED
        BY <4>2, <4>3
    <3>2. CASE ~(n < k) /\ m < k
      <4>1. m \in 1..Len(s) /\ n + 1 \in 1..Len(s) /\ m < n + 1
            /\ s[m] = w[m] /\ s[n + 1] = w[n]
        BY <1>1, <2>3, <2>9, <3>2
      <4> QED
        BY <4>1
    <3>3. CASE ~(n < k) /\ ~(m < k)
      <4>1. m + 1 \in 1..Len(s) /\ n + 1 \in 1..Len(s) /\ m + 1 < n + 1
            /\ s[m + 1] = w[m] /\ s[n + 1] = w[n]
        BY <1>1, <2>3, <2>9, <3>3
      <4> QED
        BY <4>1
    <3> QED
      BY <3>1, <3>2, <3>3
  <2>10. \A m, n \in DOMAIN w : m < n =>
            \E i, j \in DOMAIN s : i < j /\ s[i] = w[m] /\ s[j] = w[n]
    <3> SUFFICES ASSUME NEW m \in DOMAIN w, NEW n \in DOMAIN w, m < n
                 PROVE  \E i, j \in DOMAIN s : i < j /\ s[i] = w[m] /\ s[j] = w[n]
      OBVIOUS
    <3>1. m \in 1..(Len(s) - 1) /\ n \in 1..(Len(s) - 1)
      BY <2>4
    <3>2. \E i, j \in 1..Len(s) : i < j /\ s[i] = w[m] /\ s[j] = w[n]
      BY <2>9, <3>1, Zenon
    <3> QED
      BY <1>1, <3>2, Zenon
  <2>11. w \in Seq(S) /\ (\A x : Contains(w, x) <=> Contains(s, x) /\ x # r)
    BY <2>3, <2>8
  <2> QED
    BY <2>10, <2>11, Zenon DEF w
<1> QED
  BY <1>2, <1>3

-----------------------------------------------------------------------------
(* The inductive invariant.                                                *)

\* What the two indexes, the history of registrations and the claims have to do
\* with each other: the strengthening of IndexesAgree and OnceAtMostOnce.
RegistryInv ==
    /\ Distinct(registered)
    /\ \A p \in Patterns : \A k \in DOMAIN listeners[p] : TopicOf[listeners[p][k]] = p
    /\ \A r \in Regs : IsRegistered(r) => Contains(registered, r)
    /\ IndexesAgree
    /\ \A r \in Regs : IsRegistered(r) \/ ~Contains(registered, r) => claims[r] = 0
    /\ \A r \in Once : claims[r] <= 1

Inv == TypeOK /\ RegistryInv

\* Two positions of the history order their registrations one way only.
LEMMA PrecedesIrreflexive ==
    ASSUME TypeOK, RegistryInv, NEW r
    PROVE  ~Precedes(registered, r, r)
<1>1. Distinct(registered) /\ DOMAIN registered = 1..Len(registered)
  BY LenProperties DEF TypeOK, RegistryInv
<1> QED
  BY <1>1 DEF Precedes, Distinct

\* A list in the order of registration repeats nothing.
LEMMA OrderedIsDistinct ==
    ASSUME TypeOK, RegistryInv, NEW s, Ordered(s)
    PROVE  Distinct(s)
BY PrecedesIrreflexive DEF Ordered, Distinct

\* The empty bus satisfies the invariant.
LEMMA InitInv == Init => Inv
<1> SUFFICES ASSUME Init PROVE Inv
  OBVIOUS
<1>0. \A S : <<>> \in Seq(S) /\ Len(<<>>) = 0 /\ DOMAIN <<>> = {}
  BY EmptySeq
<1>1. TypeOK
  BY <1>0, BusAssumption DEF Init, TypeOK, StackOK
<1>2. RegistryInv
  <2>1. \A r \in Regs : ~IsRegistered(r) /\ ~Contains(wild, r)
    BY <1>0, BusAssumption DEF Init, IsRegistered, Contains
  <2>2. IndexesAgree
    BY <1>0, <2>1 DEF Init, IndexesAgree, Ordered
  <2> QED
    BY <1>0, <2>1, <2>2, BusAssumption DEF Init, RegistryInv, Distinct
<1> QED
  BY <1>1, <1>2 DEF Inv

\* Appending a new registration to a list of older ones keeps its order.
LEMMA AppendOrdered ==
    ASSUME TypeOK, RegistryInv, NEW r \in Regs, ~Contains(registered, r),
           registered' = Append(registered, r), NEW s \in Seq(Regs), Ordered(s),
           \A n \in DOMAIN s : Contains(registered, s[n])
    PROVE  /\ \A m, n \in DOMAIN s : m < n => Precedes(registered', s[m], s[n])
           /\ \A m, n \in DOMAIN Append(s, r) :
                 m < n => Precedes(registered', Append(s, r)[m], Append(s, r)[n])
<1>1. /\ registered \in Seq(Regs)
      /\ Len(registered) \in Nat
      /\ DOMAIN registered = 1..Len(registered)
  BY LenProperties DEF TypeOK
<1>2. /\ registered' \in Seq(Regs)
      /\ Len(registered') = Len(registered) + 1
      /\ \A n \in 1..Len(registered) : registered'[n] = registered[n]
      /\ registered'[Len(registered) + 1] = r
      /\ DOMAIN registered' = 1..(Len(registered) + 1)
  BY <1>1, AppendProperties, LenProperties
<1>3. /\ Len(s) \in Nat
      /\ DOMAIN s = 1..Len(s)
      /\ DOMAIN Append(s, r) = 1..(Len(s) + 1)
      /\ \A n \in 1..Len(s) : Append(s, r)[n] = s[n]
      /\ Append(s, r)[Len(s) + 1] = r
  BY AppendProperties, LenProperties
<1>4. ASSUME NEW a, NEW b, Precedes(registered, a, b)
      PROVE  Precedes(registered', a, b)
  <2>1. PICK m \in 1..Len(registered), n \in 1..Len(registered) :
           m < n /\ registered[m] = a /\ registered[n] = b
    BY <1>1, <1>4 DEF Precedes
  <2> QED
    BY <1>1, <1>2, <2>1 DEF Precedes
<1>5. ASSUME NEW a, Contains(registered, a)
      PROVE  Precedes(registered', a, r)
  <2>1. PICK m \in 1..Len(registered) : registered[m] = a
    BY <1>5 DEF Contains
  <2>2. /\ m \in 1..(Len(registered) + 1)
        /\ Len(registered) + 1 \in 1..(Len(registered) + 1)
        /\ m < Len(registered) + 1
    BY <1>1
  <2> QED
    BY <1>2, <2>1, <2>2 DEF Precedes
<1>6. ASSUME NEW m \in DOMAIN s, NEW n \in DOMAIN s, m < n
      PROVE  Precedes(registered', s[m], s[n])
  BY <1>4, <1>6 DEF Ordered
<1>7. ASSUME NEW m \in 1..(Len(s) + 1), NEW n \in 1..(Len(s) + 1), m < n
      PROVE  Precedes(registered', Append(s, r)[m], Append(s, r)[n])
  <2>1. m \in 1..Len(s)
    BY <1>3, <1>7
  <2>2. CASE n \in 1..Len(s)
    <3>1. Precedes(registered', s[m], s[n])
      BY <1>3, <1>6, <1>7, <2>1, <2>2
    <3> QED
      BY <1>3, <2>1, <2>2, <3>1
  <2>3. CASE n = Len(s) + 1
    <3>1. Precedes(registered', s[m], r)
      BY <1>3, <1>5, <2>1
    <3> QED
      BY <1>3, <2>1, <2>3, <3>1
  <2> QED
    BY <1>3, <2>2, <2>3
<1> QED
  BY <1>3, <1>6, <1>7

\* What an appended list holds.
LEMMA ContainsAppend ==
    ASSUME NEW S, NEW s \in Seq(S), NEW r \in S
    PROVE  \A x : Contains(Append(s, r), x) <=> Contains(s, x) \/ x = r
<1>1. /\ Len(s) \in Nat
      /\ Len(Append(s, r)) = Len(s) + 1
      /\ \A n \in 1..Len(s) : Append(s, r)[n] = s[n]
      /\ Append(s, r)[Len(s) + 1] = r
  BY AppendProperties, LenProperties
<1>2. \A n : n \in 1..(Len(s) + 1) <=> n \in 1..Len(s) \/ n = Len(s) + 1
  BY <1>1
<1> QED
  BY <1>1, <1>2 DEF Contains

\* register() keeps the indexes in agreement.
LEMMA RegisterKeepsRegistry ==
    ASSUME Inv, NEW t \in Threads, NEW r \in Regs, Register(t, r)
    PROVE  RegistryInv'
<1> DEFINE p == TopicOf[r]
<1>1. TypeOK /\ RegistryInv
  BY DEF Inv
<1>2. /\ p \in Patterns
      /\ listeners[p] \in Seq(Regs)
      /\ wild \in Seq(Regs)
      /\ registered \in Seq(Regs)
  BY <1>1, BusAssumption DEF TypeOK
<1>3. /\ ~Contains(registered, r)
      /\ registered' = Append(registered, r)
      /\ listeners' = [listeners EXCEPT ![p] = Append(listeners[p], r)]
      /\ claims' = claims
  BY DEF Register
<1>4. IF IsWildcard(p)
      THEN wild' = Append(wild, r) /\ exact' = exact
      ELSE exact' = [exact EXCEPT ![p] = Append(exact[p], r)] /\ wild' = wild
  BY DEF Register
<1> HIDE DEF p
<1>5. \A x \in Regs : Contains(registered', x) <=> Contains(registered, x) \/ x = r
  BY <1>2, <1>3, ContainsAppend
<1>6. \A x \in Regs : IsRegistered(x)' <=> IsRegistered(x) \/ x = r
  <2> SUFFICES ASSUME NEW x \in Regs PROVE IsRegistered(x)' <=> IsRegistered(x) \/ x = r
    OBVIOUS
  <2>1. TopicOf[x] \in Patterns
    BY BusAssumption
  <2>2. CASE TopicOf[x] = p
    BY <1>1, <1>2, <1>3, <2>2, ContainsAppend DEF IsRegistered, TypeOK
  <2>3. CASE TopicOf[x] # p
    BY <1>1, <1>3, <2>1, <2>3 DEF IsRegistered, TypeOK, p
  <2> QED
    BY <2>2, <2>3
<1>7. ASSUME NEW q \in Patterns, NEW k \in DOMAIN listeners[q]
      PROVE  /\ listeners[q][k] \in Regs
             /\ TopicOf[listeners[q][k]] = q
             /\ Contains(registered, listeners[q][k])
  <2>1. listeners[q] \in Seq(Regs) /\ k \in 1..Len(listeners[q])
    BY <1>1, LenProperties DEF TypeOK
  <2>2. listeners[q][k] \in Regs /\ TopicOf[listeners[q][k]] = q
    BY <1>1, <2>1, ElementOfSeq DEF RegistryInv
  <2>3. IsRegistered(listeners[q][k])
    BY <2>1, <2>2 DEF IsRegistered, Contains
  <2> QED
    BY <1>1, <2>2, <2>3 DEF RegistryInv
<1>8. ASSUME NEW k \in DOMAIN wild
      PROVE  wild[k] \in Regs /\ Contains(registered, wild[k])
  <2>1. k \in 1..Len(wild) /\ wild[k] \in Regs
    BY <1>2, LenProperties, ElementOfSeq
  <2>2. Contains(wild, wild[k])
    BY <2>1 DEF Contains
  <2> QED
    BY <1>1, <2>1, <2>2 DEF RegistryInv, IndexesAgree
<1>9. Distinct(registered)'
  <2>1. /\ DOMAIN registered = 1..Len(registered)
        /\ DOMAIN registered' = 1..(Len(registered) + 1)
        /\ Len(registered) \in Nat
        /\ \A n \in 1..Len(registered) : registered'[n] = registered[n]
        /\ registered'[Len(registered) + 1] = r
    BY <1>2, <1>3, AppendProperties, LenProperties
  <2>2. \A n \in 1..Len(registered) : registered[n] # r
    BY <1>3 DEF Contains
  <2>3. Distinct(registered)
    BY <1>1 DEF RegistryInv
  <2> QED
    BY <2>1, <2>2, <2>3 DEF Distinct
<1>10. \A q \in Patterns : \A k \in DOMAIN listeners'[q] : TopicOf[listeners'[q][k]] = q
  <2> SUFFICES ASSUME NEW q \in Patterns, NEW k \in DOMAIN listeners'[q]
               PROVE  TopicOf[listeners'[q][k]] = q
    OBVIOUS
  <2>1. CASE q = p
    <3>1. listeners'[q] = Append(listeners[p], r)
      BY <1>1, <1>2, <1>3, <2>1 DEF TypeOK
    <3>2. /\ k \in 1..Len(listeners[p]) \/ k = Len(listeners[p]) + 1
          /\ DOMAIN listeners[p] = 1..Len(listeners[p])
      BY <1>2, <3>1, AppendProperties, LenProperties
    <3> QED
      BY <1>2, <1>7, <2>1, <3>1, <3>2, AppendProperties DEF p
  <2>2. CASE q # p
    BY <1>1, <1>3, <1>7, <2>2 DEF TypeOK
  <2> QED
    BY <2>1, <2>2
<1>11. \A q \in Patterns : Ordered(listeners[q])'
  <2> SUFFICES ASSUME NEW q \in Patterns PROVE Ordered(listeners[q])'
    OBVIOUS
  <2>1. /\ Ordered(listeners[q])
        /\ listeners[q] \in Seq(Regs)
        /\ \A n \in DOMAIN listeners[q] : Contains(registered, listeners[q][n])
    BY <1>1, <1>7 DEF RegistryInv, IndexesAgree, TypeOK
  <2>2. CASE q = p
    <3>1. listeners'[q] = Append(listeners[q], r)
      BY <1>1, <1>3, <2>2 DEF TypeOK
    <3> QED
      BY <1>1, <1>3, <2>1, <3>1, AppendOrdered DEF Ordered
  <2>3. CASE q # p
    <3>1. listeners'[q] = listeners[q]
      BY <1>1, <1>3, <2>3 DEF TypeOK
    <3> QED
      BY <1>1, <1>3, <2>1, <3>1, AppendOrdered DEF Ordered
  <2> QED
    BY <2>2, <2>3
<1>12. Ordered(wild)'
  <2>1. Ordered(wild) /\ \A n \in DOMAIN wild : Contains(registered, wild[n])
    BY <1>1, <1>8 DEF RegistryInv, IndexesAgree
  <2>2. wild' = Append(wild, r) \/ wild' = wild
    BY <1>4
  <2> QED
    BY <1>1, <1>2, <1>3, <2>1, <2>2, AppendOrdered DEF Ordered
<1>13. \A q \in Patterns : exact'[q] = IF IsWildcard(q) THEN <<>> ELSE listeners'[q]
  <2>1. /\ exact \in [Patterns -> Seq(Regs)]
        /\ listeners \in [Patterns -> Seq(Regs)]
        /\ \A q \in Patterns : exact[q] = IF IsWildcard(q) THEN <<>> ELSE listeners[q]
    BY <1>1 DEF RegistryInv, IndexesAgree, TypeOK
  <2>2. CASE IsWildcard(p)
    <3>1. exact' = exact
      BY <1>4, <2>2, Zenon
    <3>2. \A q \in Patterns : ~IsWildcard(q) => listeners'[q] = listeners[q]
      BY <1>3, <2>1, <2>2
    <3> QED
      BY <2>1, <3>1, <3>2
  <2>3. CASE ~IsWildcard(p)
    <3>1. exact' = [exact EXCEPT ![p] = Append(exact[p], r)]
      BY <1>4, <2>3, Zenon
    <3> QED
      BY <1>2, <1>3, <2>1, <2>3, <3>1
  <2> QED
    BY <2>2, <2>3
<1>14. \A x \in Regs :
          Contains(wild', x) <=> IsWildcard(TopicOf[x]) /\ IsRegistered(x)'
  <2>1. \A x \in Regs : Contains(wild, x) <=> IsWildcard(TopicOf[x]) /\ IsRegistered(x)
    BY <1>1 DEF RegistryInv, IndexesAgree
  <2>2. CASE IsWildcard(p)
    <3>0. wild' = Append(wild, r)
      BY <1>4, <2>2, Zenon
    <3>1. \A x \in Regs : Contains(wild', x) <=> Contains(wild, x) \/ x = r
      BY <1>2, <3>0, ContainsAppend
    <3> QED
      BY <1>6, <2>1, <2>2, <3>1 DEF p
  <2>3. CASE ~IsWildcard(p)
    BY <1>4, <1>6, <2>1, <2>3 DEF p
  <2> QED
    BY <2>2, <2>3
<1>15. IndexesAgree'
  BY <1>11, <1>12, <1>13, <1>14 DEF IndexesAgree
<1>16. /\ \A x \in Regs : IsRegistered(x)' => Contains(registered', x)
       /\ \A x \in Regs : IsRegistered(x)' \/ ~Contains(registered', x) => claims'[x] = 0
       /\ \A x \in Once : claims'[x] <= 1
  BY <1>1, <1>3, <1>5, <1>6 DEF RegistryInv
<1> QED
  BY <1>9, <1>10, <1>15, <1>16 DEF RegistryInv

\* Removing a registration, with or without counting it as claimed.
LEMMA RemoveKeepsRegistry ==
    ASSUME Inv, NEW r \in Regs, IsRegistered(r), RemoveRegistration(r),
           \/ claims' = claims
           \/ claims' = [claims EXCEPT ![r] = @ + 1]
    PROVE  RegistryInv'
<1> DEFINE p == TopicOf[r]
<1>1. TypeOK /\ RegistryInv
  BY DEF Inv
<1>2. /\ p \in Patterns
      /\ listeners \in [Patterns -> Seq(Regs)]
      /\ exact \in [Patterns -> Seq(Regs)]
      /\ wild \in Seq(Regs)
      /\ claims \in [Regs -> Nat]
  BY <1>1, BusAssumption DEF TypeOK
<1>3. /\ listeners' = [listeners EXCEPT ![p] = Without(listeners[p], r)]
      /\ registered' = registered
  BY DEF RemoveRegistration
<1>4. IF IsWildcard(p)
      THEN wild' = Without(wild, r) /\ exact' = exact
      ELSE exact' = [exact EXCEPT ![p] = Without(exact[p], r)] /\ wild' = wild
  BY DEF RemoveRegistration
<1>5. /\ \A q \in Patterns :
            /\ Ordered(listeners[q])
            /\ Distinct(listeners[q])
            /\ exact[q] = IF IsWildcard(q) THEN <<>> ELSE listeners[q]
      /\ Ordered(wild)
      /\ Distinct(wild)
      /\ \A x \in Regs : Contains(wild, x) <=> IsWildcard(TopicOf[x]) /\ IsRegistered(x)
  BY <1>1, OrderedIsDistinct DEF RegistryInv, IndexesAgree
<1> HIDE DEF p
<1>6. /\ listeners'[p] = Without(listeners[p], r)
      /\ \A q \in Patterns : q # p => listeners'[q] = listeners[q]
  BY <1>2, <1>3
<1>7. /\ Without(listeners[p], r) \in Seq(Regs)
      /\ \A x : Contains(Without(listeners[p], r), x) <=> Contains(listeners[p], x) /\ x # r
  BY <1>2, <1>5, WithoutProperties
<1>8. \A x \in Regs : IsRegistered(x)' <=> IsRegistered(x) /\ x # r
  <2> SUFFICES ASSUME NEW x \in Regs PROVE IsRegistered(x)' <=> IsRegistered(x) /\ x # r
    OBVIOUS
  <2>1. TopicOf[x] \in Patterns
    BY BusAssumption
  <2>2. CASE TopicOf[x] = p
    BY <1>6, <1>7, <2>2 DEF IsRegistered
  <2>3. CASE TopicOf[x] # p
    BY <1>6, <2>1, <2>3 DEF IsRegistered, p
  <2> QED
    BY <2>2, <2>3
<1>9. ASSUME NEW s \in Seq(Regs), Ordered(s), Distinct(s)
      PROVE  Ordered(Without(s, r))'
  <2> SUFFICES ASSUME NEW m \in DOMAIN Without(s, r), NEW n \in DOMAIN Without(s, r), m < n
               PROVE  Precedes(registered', Without(s, r)[m], Without(s, r)[n])
    BY DEF Ordered
  <2>1. PICK i \in DOMAIN s, j \in DOMAIN s :
           i < j /\ s[i] = Without(s, r)[m] /\ s[j] = Without(s, r)[n]
    BY <1>9, WithoutProperties
  <2>2. Precedes(registered, s[i], s[j])
    BY <1>9, <2>1 DEF Ordered
  <2> QED
    BY <1>3, <2>1, <2>2
<1>10. \A q \in Patterns : \A k \in DOMAIN listeners'[q] : TopicOf[listeners'[q][k]] = q
  <2> SUFFICES ASSUME NEW q \in Patterns, NEW k \in DOMAIN listeners'[q]
               PROVE  TopicOf[listeners'[q][k]] = q
    OBVIOUS
  <2>1. CASE q = p
    <3> DEFINE w == Without(listeners[p], r)
    <3>1. k \in 1..Len(w) /\ listeners'[q][k] = w[k]
      BY <1>6, <1>7, <2>1, LenProperties
    <3>2. Contains(w, w[k])
      BY <3>1 DEF Contains
    <3>3. Contains(listeners[p], w[k])
      BY <1>7, <3>2
    <3>4. PICK n \in DOMAIN listeners[p] : listeners[p][n] = w[k]
      BY <1>2, <3>3, LenProperties DEF Contains
    <3> QED
      BY <1>1, <1>2, <2>1, <3>1, <3>4 DEF RegistryInv
  <2>2. CASE q # p
    BY <1>1, <1>6, <2>2 DEF RegistryInv
  <2> QED
    BY <2>1, <2>2
<1>11. \A q \in Patterns : Ordered(listeners[q])'
  <2> SUFFICES ASSUME NEW q \in Patterns PROVE Ordered(listeners[q])'
    OBVIOUS
  <2>1. CASE q = p
    BY <1>2, <1>5, <1>6, <1>9, <2>1 DEF Ordered
  <2>2. CASE q # p
    BY <1>3, <1>5, <1>6, <2>2 DEF Ordered
  <2> QED
    BY <2>1, <2>2
<1>12. Ordered(wild)'
  <2>1. wild' = Without(wild, r) \/ wild' = wild
    BY <1>4
  <2> QED
    BY <1>2, <1>3, <1>5, <1>9, <2>1 DEF Ordered
<1>13. \A q \in Patterns : exact'[q] = IF IsWildcard(q) THEN <<>> ELSE listeners'[q]
  <2>1. CASE IsWildcard(p)
    <3>1. exact' = exact
      BY <1>4, <2>1, Zenon
    <3> QED
      BY <1>5, <1>6, <2>1, <3>1
  <2>2. CASE ~IsWildcard(p)
    <3>1. exact' = [exact EXCEPT ![p] = Without(exact[p], r)]
      BY <1>4, <2>2, Zenon
    <3> QED
      BY <1>2, <1>5, <1>6, <2>2, <3>1
  <2> QED
    BY <2>1, <2>2
<1>14. \A x \in Regs :
          Contains(wild', x) <=> IsWildcard(TopicOf[x]) /\ IsRegistered(x)'
  <2>1. CASE IsWildcard(p)
    <3>1. wild' = Without(wild, r)
      BY <1>4, <2>1, Zenon
    <3>2. \A x \in Regs : Contains(wild', x) <=> Contains(wild, x) /\ x # r
      BY <1>2, <1>5, <3>1, WithoutProperties
    <3> QED
      BY <1>5, <1>8, <3>2
  <2>2. CASE ~IsWildcard(p)
    <3>1. wild' = wild
      BY <1>4, <2>2, Zenon
    <3> QED
      BY <1>5, <1>8, <2>2, <3>1 DEF p
  <2> QED
    BY <2>1, <2>2
<1>15. IndexesAgree'
  BY <1>11, <1>12, <1>13, <1>14 DEF IndexesAgree
<1>16. /\ claims[r] = 0
       /\ Contains(registered, r)
       /\ \A x \in Regs : claims'[x] = claims[x] \/ (x = r /\ claims'[x] = 1)
  BY <1>1, <1>2 DEF RegistryInv
<1>17. /\ \A x \in Regs : IsRegistered(x)' => Contains(registered', x)
       /\ \A x \in Regs : IsRegistered(x)' \/ ~Contains(registered', x) => claims'[x] = 0
       /\ \A x \in Once : claims'[x] <= 1
  <2>1. /\ \A x \in Regs : IsRegistered(x) => Contains(registered, x)
        /\ \A x \in Regs : IsRegistered(x) \/ ~Contains(registered, x) => claims[x] = 0
        /\ \A x \in Once : x \in Regs /\ claims[x] <= 1
    BY <1>1, BusAssumption DEF RegistryInv
  <2>2. \A x \in Regs : IsRegistered(x)' => Contains(registered', x)
    BY <1>3, <1>8, <2>1
  <2>3. \A x \in Regs : IsRegistered(x)' \/ ~Contains(registered', x) => claims'[x] = 0
    BY <1>3, <1>8, <1>16, <2>1
  <2>4. \A x \in Once : claims'[x] <= 1
    BY <1>16, <2>1
  <2> QED
    BY <2>2, <2>3, <2>4
<1>18. Distinct(registered)'
  BY <1>1, <1>3 DEF RegistryInv, Distinct
<1> QED
  BY <1>10, <1>15, <1>17, <1>18 DEF RegistryInv

-----------------------------------------------------------------------------
(* Every step keeps the invariant.                                         *)

\* A step that leaves the indexes and the claims alone keeps what is said of them.
LEMMA RegistryUnchanged ==
    ASSUME RegistryInv, UNCHANGED <<busVars, claims>>
    PROVE  RegistryInv'
BY DEF RegistryInv, busVars, Distinct, IsRegistered, IndexesAgree, Ordered

\* ... and one that only rewrites a stack keeps the types if the stack stays sound.
LEMMA StackStep ==
    ASSUME Inv, StackOK',
           UNCHANGED <<busVars, handler, stopped, pending, emits, claims>>
    PROVE  Inv'
<1>1. RegistryInv'
  BY RegistryUnchanged DEF Inv
<1>2. TypeOK'
  BY DEF Inv, TypeOK, busVars
<1> QED
  BY <1>1, <1>2 DEF Inv

\* EventBus.register.
LEMMA RegisterInv ==
    ASSUME Inv, NEW t \in Threads, NEW r \in Regs, Register(t, r)
    PROVE  Inv'
<1>1. TypeOK
  BY DEF Inv
<1> DEFINE p == TopicOf[r]
<1>2. p \in Patterns
  BY BusAssumption
<1>3. /\ Append(listeners[p], r) \in Seq(Regs)
      /\ Append(exact[p], r) \in Seq(Regs)
      /\ Append(wild, r) \in Seq(Regs)
      /\ Append(registered, r) \in Seq(Regs)
  BY <1>1, <1>2, AppendProperties DEF TypeOK
<1>4. StackOK'
  BY <1>1 DEF TypeOK, StackOK, Register
<1>5. /\ listeners' = [listeners EXCEPT ![p] = Append(listeners[p], r)]
      /\ registered' = Append(registered, r)
      /\ wild' = wild \/ wild' = Append(wild, r)
      /\ exact' = exact \/ exact' = [exact EXCEPT ![p] = Append(exact[p], r)]
      /\ UNCHANGED <<handler, stopped, stack, pending, emits, claims>>
  BY DEF Register
<1> HIDE DEF p
<1>6. TypeOK'
  BY <1>1, <1>2, <1>3, <1>4, <1>5 DEF TypeOK
<1> QED
  BY <1>6, RegisterKeepsRegistry DEF Inv

\* Removing a registration keeps the types of the indexes.
LEMMA RemoveKeepsTypes ==
    ASSUME Inv, NEW r \in Regs, RemoveRegistration(r)
    PROVE  /\ listeners' \in [Patterns -> Seq(Regs)]
           /\ exact' \in [Patterns -> Seq(Regs)]
           /\ wild' \in Seq(Regs)
           /\ registered' \in Seq(Regs)
<1>1. TypeOK /\ RegistryInv
  BY DEF Inv
<1> DEFINE p == TopicOf[r]
<1>2. p \in Patterns
  BY BusAssumption
<1>3. /\ Without(listeners[p], r) \in Seq(Regs)
      /\ Without(wild, r) \in Seq(Regs)
  BY <1>1, <1>2, OrderedIsDistinct, WithoutProperties DEF TypeOK, RegistryInv, IndexesAgree
<1>4. ~IsWildcard(p) => Without(exact[p], r) \in Seq(Regs)
  BY <1>1, <1>2, <1>3 DEF RegistryInv, IndexesAgree
<1>5. /\ listeners' = [listeners EXCEPT ![p] = Without(listeners[p], r)]
      /\ registered' = registered
      /\ wild' = wild \/ wild' = Without(wild, r)
      /\ \/ exact' = exact
         \/ ~IsWildcard(p) /\ exact' = [exact EXCEPT ![p] = Without(exact[p], r)]
  BY DEF RemoveRegistration
<1> HIDE DEF p
<1> QED
  BY <1>1, <1>2, <1>3, <1>4, <1>5 DEF TypeOK

\* EventBus.unregister.
LEMMA UnregisterInv ==
    ASSUME Inv, NEW t \in Threads, NEW p \in Patterns, NEW func \in Funcs,
           Unregister(t, p, func)
    PROVE  Inv'
<1>1. TypeOK /\ RegistryInv
  BY DEF Inv
<1>2. PICK k \in DOMAIN listeners[p] : RemoveRegistration(listeners[p][k])
  BY DEF Unregister
<1> DEFINE r == listeners[p][k]
<1>3. k \in 1..Len(listeners[p]) /\ r \in Regs
  BY <1>1, LenProperties, ElementOfSeq DEF TypeOK
<1>4. TopicOf[r] = p
  BY <1>1, <1>2 DEF RegistryInv
<1>5. IsRegistered(r)
  BY <1>3, <1>4 DEF IsRegistered, Contains
<1>6. UNCHANGED <<handler, stopped, stack, pending, emits, claims>>
  BY DEF Unregister
<1> HIDE DEF r
<1>7. RegistryInv'
  BY <1>2, <1>3, <1>5, <1>6, RemoveKeepsRegistry DEF r
<1>8. TypeOK'
  <2>1. StackOK'
    BY <1>1, <1>6 DEF TypeOK, StackOK
  <2> QED
    BY <1>1, <1>2, <1>3, <1>6, <2>1, RemoveKeepsTypes DEF TypeOK, r
<1> QED
  BY <1>7, <1>8 DEF Inv

\* EventBus._claim_once and the start of the callback.
LEMMA ClaimInv ==
    ASSUME Inv, NEW t \in Threads, Claim(t)
    PROVE  Inv'
<1> DEFINE f == Top(t)
           r == Current(f)
<1>1. TypeOK /\ RegistryInv
  BY DEF Inv
<1>2. stack[t] # <<>> /\ f.pc = "claim"
  BY DEF Claim, AtPc
<1>3. StackOK /\ FrameOK(f)
  BY <1>1, <1>2, TopOfStack DEF TypeOK
<1>4. r \in Regs
  <2>1. f.snap \in Seq(Regs) /\ f.next \in Nat \ {0} /\ f.next <= Len(f.snap)
    BY <1>2, <1>3 DEF FrameOK, Frames
  <2>2. f.next \in 1..Len(f.snap)
    BY <2>1, LenProperties
  <2> QED
    BY <2>1, <2>2, ElementOfSeq DEF Current
<1>5. FrameOK(Invoke(f)) /\ FrameOK(Advance(f))
  <2> HIDE DEF f
  <2> QED
    BY <1>2, <1>3, FrameChanges
<1>6. UNCHANGED <<handler, stopped, pending, emits>>
  BY DEF Claim
<1>7. \/ /\ SetTop(t, Invoke(f)) \/ SetTop(t, Advance(f))
         /\ UNCHANGED <<busVars, claims>>
      \/ /\ SetTop(t, Invoke(f))
         /\ IsRegistered(r)
         /\ RemoveRegistration(r)
         /\ claims' = [claims EXCEPT ![r] = @ + 1]
  BY DEF Claim, CanClaim
<1> HIDE DEF f, r
<1>8. StackOK'
  BY <1>2, <1>3, <1>5, <1>7, SetTopKeepsStack
<1>9. CASE UNCHANGED <<busVars, claims>>
  BY <1>6, <1>8, <1>9, StackStep
<1>10. CASE /\ IsRegistered(r)
            /\ RemoveRegistration(r)
            /\ claims' = [claims EXCEPT ![r] = @ + 1]
  <2>1. RegistryInv'
    BY <1>4, <1>10, RemoveKeepsRegistry
  <2>2. claims' \in [Regs -> Nat]
    BY <1>1, <1>4, <1>10 DEF TypeOK
  <2>3. TypeOK'
    BY <1>1, <1>4, <1>6, <1>8, <1>10, <2>2, RemoveKeepsTypes DEF TypeOK
  <2> QED
    BY <2>1, <2>3 DEF Inv
<1> QED
  BY <1>7, <1>9, <1>10

\* What the loop and the except clauses may make of the innermost dispatch.
Follows(f, g) ==
    \/ /\ f.pc = "loop"
       /\ \/ g = Finished(f, FALSE) /\ AtEnd(f)
          \/ g = Finished(f, TRUE) /\ PropagationEnabled
          \/ g = Failed(f, "async") /\ f.mode = "sync"
          \/ g = [f EXCEPT !.pc = "claim"] /\ ~AtEnd(f) /\ ~ShouldStop(f)
    \/ /\ f.pc = "claim"
       /\ \/ g = Invoke(f)
          \/ g = Advance(f) /\ Current(f) \in Once /\ ~IsRegistered(Current(f))
    \/ /\ f.pc = "running"
       /\ g = Advance(f) \/ \E exc \in Exceptions : g = Thrown(f, exc)
    \/ /\ f.pc = "handling"
       /\ g = Advance(f) \/ g = [f EXCEPT !.pc = "calling"]
    \/ /\ f.pc = "calling"
       /\ g = Advance(f) \/ \E exc \in Exceptions : g = Failed(f, exc)

\* The steps that rewrite the innermost dispatch.
LEMMA LoopSteps ==
    ASSUME Inv, NEW t \in Threads,
           Select(t) \/ Claim(t) \/ CheckHandler(t) \/ CallHandler(t) \/ CallbackEnds(t)
    PROVE  /\ stack[t] # <<>> /\ FrameOK(Top(t))
           /\ \E g : FrameOK(g) /\ Follows(Top(t), g) /\ SetTop(t, g)
           /\ UNCHANGED <<pending, stopped>>
<1> DEFINE f == Top(t)
<1>1. StackOK /\ handler \in Handlers
  BY DEF Inv, TypeOK
<1>2. stack[t] # <<>> /\ f.pc \in {"loop", "claim", "handling", "calling", "running"}
  BY DEF Select, Claim, CheckHandler, CallHandler, CallbackEnds, Return, Raise, Cancel,
         EmitRefused, Awaiting, AtPc
<1>3. FrameOK(f)
  BY <1>1, <1>2, TopOfStack
<1>4. \E g : Follows(f, g) /\ SetTop(t, g)
  <2>1. CASE Select(t)
    <3>1. /\ f.pc = "loop"
          /\ SetTop(t, IF AtEnd(f) THEN Finished(f, FALSE)
                       ELSE IF ShouldStop(f) THEN Finished(f, TRUE)
                       ELSE IF f.mode = "sync" /\ Kind[FuncOf[Current(f)]] = "async"
                            THEN Failed(f, "async")
                       ELSE [f EXCEPT !.pc = "claim"])
      BY <2>1 DEF Select, AtPc, Becomes
    <3>2. ShouldStop(f) => PropagationEnabled
      BY DEF ShouldStop
    <3> HIDE DEF f
    <3> QED
      BY <3>1, <3>2 DEF Follows
  <2>2. CASE Claim(t)
    <3>1. /\ f.pc = "claim"
          /\ SetTop(t, IF CanClaim(Current(f)) THEN Invoke(f) ELSE Advance(f))
      BY <2>2 DEF Claim, AtPc
    <3>2. ~CanClaim(Current(f)) => Current(f) \in Once /\ ~IsRegistered(Current(f))
      BY DEF CanClaim
    <3> HIDE DEF f
    <3> QED
      BY <3>1, <3>2 DEF Follows
  <2>3. CASE CheckHandler(t)
    BY <2>3 DEF CheckHandler, AtPc, Becomes, Follows
  <2>4. CASE CallHandler(t)
    <3>1. handler # "returns" =>
             (IF handler = "unset" THEN "none" ELSE handler) \in Exceptions
      BY <1>1, BusAssumption DEF Exceptions, Raisable
    <3> QED
      BY <2>4, <3>1 DEF CallHandler, AtPc, Becomes, Follows
  <2>5. CASE CallbackEnds(t)
    <3>1. f.pc = "running"
      BY <2>5 DEF CallbackEnds, Return, Raise, Cancel, EmitRefused, Awaiting, AtPc
    <3>2. \/ SetTop(t, Advance(f))
          \/ \E exc \in Exceptions : SetTop(t, Thrown(f, exc))
      <4>1. CASE Return(t)
        BY <4>1 DEF Return, Becomes, Exceptions
      <4>2. ASSUME NEW exc \in Raisable, Raise(t, exc)
            PROVE  SetTop(t, Thrown(f, exc)) /\ exc \in Exceptions
        BY <4>2 DEF Raise, Becomes, Exceptions
      <4>3. CASE Cancel(t)
        BY <4>3 DEF Cancel, Becomes, Exceptions
      <4>4. ASSUME NEW e \in Events, EmitRefused(t, e)
            PROVE  SetTop(t, Thrown(f, "error")) /\ "error" \in Exceptions
        BY <4>4 DEF EmitRefused, Becomes, Exceptions, Raisable
      <4> QED
        BY <2>5, <4>1, <4>2, <4>3, <4>4 DEF CallbackEnds
    <3> HIDE DEF f
    <3> QED
      BY <3>1, <3>2 DEF Follows
  <2> QED
    BY <2>1, <2>2, <2>3, <2>4, <2>5
<1>5. ASSUME NEW g, Follows(f, g) PROVE FrameOK(g)
  <2>1. CASE f.pc # "loop"
    <3> HIDE DEF f
    <3> QED
      BY <1>2, <1>3, <1>5, <2>1, FrameChanges DEF Follows
  <2>2. CASE f.pc = "loop"
    <3> HIDE DEF f
    <3>1. f.snap \in Seq(Regs) /\ Len(f.snap) \in Nat /\ f.next \in Nat
      <4>1. f.snap \in Seq(Regs) /\ f.next \in Nat
        BY <1>3 DEF FrameOK, Frames
      <4> QED
        BY <4>1, LenProperties
    <3>2. ~AtEnd(f) => f.next <= Len(f.snap)
      BY <3>1 DEF AtEnd
    <3>3. FrameOK(Finished(f, FALSE)) /\ FrameOK(Finished(f, TRUE))
      BY <1>3, <2>2 DEF FrameOK, Frames, Finished
    <3>4. FrameOK(Failed(f, "async"))
      BY <1>3, <2>2 DEF FrameOK, Frames, Failed, Exceptions
    <3>5. ~AtEnd(f) => FrameOK([f EXCEPT !.pc = "claim"])
      BY <1>3, <2>2, <3>2 DEF FrameOK, Frames
    <3> QED
      BY <1>5, <2>2, <3>3, <3>4, <3>5 DEF Follows
  <2> QED
    BY <2>1, <2>2
<1>6. UNCHANGED <<pending, stopped>>
  BY DEF Select, Claim, CheckHandler, CallHandler, CallbackEnds, Return, Raise, Cancel,
         EmitRefused, Becomes
<1> QED
  BY <1>2, <1>3, <1>4, <1>5, <1>6

\* All of them but the claim leave the indexes alone.
LEMMA LoopStepInv ==
    ASSUME Inv, NEW t \in Threads,
           Select(t) \/ CheckHandler(t) \/ CallHandler(t) \/ CallbackEnds(t)
    PROVE  Inv'
<1>1. StackOK
  BY DEF Inv, TypeOK
<1>2. UNCHANGED <<busVars, handler, stopped, pending, emits, claims>>
  BY DEF Select, CheckHandler, CallHandler, CallbackEnds, Return, Raise, Cancel,
         EmitRefused, Becomes
<1>3. StackOK'
  BY <1>1, LoopSteps, SetTopKeepsStack
<1> QED
  BY <1>2, <1>3, StackStep

\* A dispatch returns or fails, and what is below it goes on.
LEMMA EndOfDispatchInv ==
    ASSUME Inv, NEW t \in Threads, Complete(t) \/ Leave(t) \/ LeaveThrough(t)
    PROVE  Inv'
<1>1. StackOK
  BY DEF Inv, TypeOK
<1>2. stack[t] # <<>>
  BY DEF Complete, Leave, LeaveThrough, AtPc
<1>3. UNCHANGED <<busVars, handler, stopped, pending, emits, claims>>
  BY DEF Complete, Leave, LeaveThrough, Pops
<1>4. CASE Complete(t) \/ Leave(t)
  <2>1. stack' = [stack EXCEPT ![t] = Front(@)]
    BY <1>4 DEF Complete, Leave, Pops
  <2>2. StackOK'
    BY <1>1, <1>2, <2>1, PopKeepsStack
  <2> QED
    BY <1>3, <2>2, StackStep
<1>5. CASE LeaveThrough(t)
  <2>1. Top(t).exc \in Exceptions
    <3>1. FrameOK(Top(t)) /\ Top(t).pc = "raising"
      BY <1>1, <1>2, <1>5, TopOfStack DEF LeaveThrough, AtPc
    <3> QED
      BY <3>1 DEF FrameOK, Frames
  <2>2. /\ Front(stack[t]) # <<>>
        /\ stack' = [stack EXCEPT ![t] =
              Replace(Front(stack[t]), Thrown(Last(Front(stack[t])), Top(t).exc))]
    BY <1>5 DEF LeaveThrough
  <2>3. StackOK'
    BY <1>1, <1>2, <2>1, <2>2, PopThroughKeepsStack
  <2> QED
    BY <1>3, <2>3, StackStep
<1> QED
  BY <1>4, <1>5

\* emit, emit_sync and emit_async.
LEMMA EmissionInv ==
    ASSUME Inv, NEW t \in Threads, NEW e \in Events, NEW async \in BOOLEAN,
           EmitSync(t, e) \/ EmitAsync(t, e) \/ Emit(t, e, async)
    PROVE  Inv'
<1>1. TypeOK /\ RegistryInv /\ StackOK
  BY DEF Inv, TypeOK
<1>2. /\ UNCHANGED <<busVars, handler, stopped, claims>>
      /\ emits < MaxEmits /\ emits' = emits + 1
      /\ InApp(t)
  BY DEF EmitSync, EmitAsync, Emit, StartEmission, CanAwait, Awaiting, InApp
<1>3. emits' \in 0..MaxEmits
  BY <1>1, <1>2, BusAssumption DEF TypeOK
<1>4. Due(e) \subseteq Regs
  BY DEF Due
<1>5. PICK q \in Snapshots(e) :
         \/ /\ \E mode \in {"sync", "async"} : Push(t, NewFrame(e, mode, q, Due(e)))
            /\ pending' = pending
         \/ /\ pending' = [pending EXCEPT ![t] =
                             Append(@, [ev |-> e, snap |-> q, due |-> Due(e)])]
            /\ stack' = stack
  BY DEF EmitSync, EmitAsync, Emit
<1>6. q \in Seq(Regs)
  BY <1>1, SnapshotsAreSequences
<1>7. StackOK'
  <2>1. CASE \E mode \in {"sync", "async"} : Push(t, NewFrame(e, mode, q, Due(e)))
    <3>1. PICK mode \in {"sync", "async"} : Push(t, NewFrame(e, mode, q, Due(e)))
      BY <2>1
    <3>2. FrameOK(NewFrame(e, mode, q, Due(e)))
      BY <1>4, <1>6, NewFrameOK
    <3> QED
      BY <1>1, <1>2, <3>1, <3>2, PushKeepsStack
  <2>2. CASE stack' = stack
    BY <1>1, <2>2 DEF StackOK
  <2> QED
    BY <1>5, <2>1, <2>2
<1>8. pending' \in [Threads -> Seq(Coroutines)]
  <2> DEFINE c == [ev |-> e, snap |-> q, due |-> Due(e)]
  <2>1. c \in Coroutines
    BY <1>4, <1>6 DEF Coroutines
  <2>2. pending \in [Threads -> Seq(Coroutines)]
    BY <1>1 DEF TypeOK
  <2>3. pending' = pending \/ pending' = [pending EXCEPT ![t] = Append(pending[t], c)]
    BY <1>5
  <2> HIDE DEF c
  <2>4. Append(pending[t], c) \in Seq(Coroutines)
    BY <2>1, <2>2, AppendProperties
  <2> QED
    BY <2>2, <2>3, <2>4
<1>9. RegistryInv'
  BY <1>1, <1>2, RegistryUnchanged
<1>10. TypeOK'
  BY <1>1, <1>2, <1>3, <1>7, <1>8 DEF TypeOK, busVars
<1> QED
  BY <1>9, <1>10 DEF Inv

\* The coroutine that emit() returned is awaited.
LEMMA AwaitInv ==
    ASSUME Inv, NEW t \in Threads, NEW k \in DOMAIN pending[t], Await(t, k)
    PROVE  Inv'
<1>1. TypeOK /\ RegistryInv /\ StackOK
  BY DEF Inv, TypeOK
<1> DEFINE c == pending[t][k]
<1>2. pending[t] \in Seq(Coroutines) /\ k \in 1..Len(pending[t]) /\ c \in Coroutines
  BY <1>1, LenProperties, ElementOfSeq DEF TypeOK
<1>3. /\ Push(t, NewFrame(c.ev, "async", c.snap, c.due))
      /\ pending' = [pending EXCEPT ![t] = RemoveAt(pending[t], k)]
      /\ UNCHANGED <<busVars, handler, stopped, emits, claims>>
      /\ InApp(t)
  BY DEF Await, CanAwait, Awaiting, InApp
<1> HIDE DEF c
<1>4. FrameOK(NewFrame(c.ev, "async", c.snap, c.due))
  BY <1>2, NewFrameOK DEF Coroutines
<1>5. StackOK'
  BY <1>1, <1>3, <1>4, PushKeepsStack
<1>6. RemoveAt(pending[t], k) \in Seq(Coroutines)
  BY <1>2, RemoveAtProperties
<1>7. TypeOK'
  BY <1>1, <1>3, <1>5, <1>6 DEF TypeOK, busVars
<1>8. RegistryInv'
  BY <1>1, <1>3, RegistryUnchanged
<1> QED
  BY <1>7, <1>8 DEF Inv

\* stop_propagation and set_error_handler.
LEMMA FlagsInv ==
    ASSUME Inv, NEW t \in Threads, StopEvent(t) \/ \E h \in Handlers : SetErrorHandler(t, h)
    PROVE  Inv'
<1>1. TypeOK /\ RegistryInv /\ StackOK
  BY DEF Inv, TypeOK
<1>2. /\ UNCHANGED <<busVars, stack, pending, emits, claims>>
      /\ handler' \in Handlers
      /\ \/ stopped' = stopped
         \/ stopped' = [stopped EXCEPT ![Top(t).ev] = @ \union {t}]
  BY <1>1 DEF StopEvent, SetErrorHandler, busVars, TypeOK
<1>3. StackOK'
  BY <1>1, <1>2 DEF StackOK
<1>4. stopped' \in [Events -> SUBSET Threads]
  <2>1. stopped \in [Events -> SUBSET Threads]
    BY <1>1 DEF TypeOK
  <2>2. \A e \in Events : stopped[e] \union {t} \in SUBSET Threads
    BY <2>1
  <2>3. CASE StopEvent(t)
    <3>1. Top(t).ev \in Events
      BY <1>1, <2>3, TopOfStack DEF StopEvent, AtPc, FrameOK, Frames
    <3>2. stopped' = [stopped EXCEPT ![Top(t).ev] = stopped[Top(t).ev] \union {t}]
      BY <2>3 DEF StopEvent
    <3> QED
      BY <2>1, <2>2, <3>1, <3>2
  <2>4. CASE \E h \in Handlers : SetErrorHandler(t, h)
    BY <2>1, <2>4 DEF SetErrorHandler
  <2> QED
    BY <2>3, <2>4
<1>5. TypeOK'
  BY <1>1, <1>2, <1>3, <1>4 DEF TypeOK, busVars
<1>6. RegistryInv'
  BY <1>1, <1>2, RegistryUnchanged
<1> QED
  BY <1>5, <1>6 DEF Inv

\* No step of any thread breaks the invariant.
LEMMA InvStep == Inv /\ [Next]_vars => Inv'
<1> SUFFICES ASSUME Inv, [Next]_vars PROVE Inv'
  OBVIOUS
<1>1. ASSUME NEW t \in Threads, BusStep(t) PROVE Inv'
  BY <1>1, LoopStepInv, ClaimInv, EndOfDispatchInv DEF BusStep
<1>2. ASSUME NEW t \in Threads, CallbackEnds(t) PROVE Inv'
  BY <1>2, LoopStepInv
<1>3. ASSUME NEW t \in Threads, AppCall(t) PROVE Inv'
  <2>1. ASSUME NEW r \in Regs, Register(t, r) PROVE Inv'
    BY <2>1, RegisterInv
  <2>2. ASSUME NEW p \in Patterns, NEW func \in Funcs, Unregister(t, p, func) PROVE Inv'
    BY <2>2, UnregisterInv
  <2>3. ASSUME NEW e \in Events, EmitSync(t, e) \/ EmitAsync(t, e) PROVE Inv'
    BY <2>3, EmissionInv
  <2>4. ASSUME NEW e \in Events, NEW async \in BOOLEAN, Emit(t, e, async) PROVE Inv'
    BY <2>4, EmissionInv
  <2>5. ASSUME NEW k \in DOMAIN pending[t], Await(t, k) PROVE Inv'
    BY <2>5, AwaitInv
  <2>6. CASE StopEvent(t) \/ \E h \in Handlers : SetErrorHandler(t, h)
    BY <2>6, FlagsInv
  <2> QED
    BY <1>3, <2>1, <2>2, <2>3, <2>4, <2>5, <2>6 DEF AppCall
<1>4. CASE UNCHANGED vars
  <2>1. StackOK'
    BY <1>4 DEF Inv, TypeOK, StackOK, vars
  <2> QED
    BY <1>4, <2>1, StackStep DEF vars, busVars
<1> QED
  BY <1>1, <1>2, <1>3, <1>4 DEF Next

\* The inductive invariant of the bus: types, indexes and claims (EventBus).
THEOREM InvHolds == Spec => []Inv
  BY InitInv, InvStep, PTL DEF Spec

-----------------------------------------------------------------------------
(* Dispatches.                                                             *)

\* What SnapshotIsDue and DispatchOrder say of one snapshot, and that it holds only
\* registrations that were made.
InOrder(q) ==
    \A m, n \in DOMAIN q :
        LET a == q[m]
            b == q[n]
            aWild == IsWildcard(TopicOf[a])
            bWild == IsWildcard(TopicOf[b])
        IN m < n =>
             \/ EnablePriorities /\ Priority[a] > Priority[b]
             \/ /\ EnablePriorities => Priority[a] = Priority[b]
                /\ \/ ~aWild /\ bWild
                   \/ (aWild <=> bWild) /\ Precedes(registered, a, b)

SnapshotSound(q, due) ==
    /\ ToSet(q) = due
    /\ \A r \in due : Contains(registered, r)
    /\ InOrder(q)

\* What SnapshotHonoured says of one dispatch, and that the callback it is busy with
\* is one that was started.
Honoured(f) ==
    /\ \A k \in 1..(f.next - 1) :
          k \notin f.ran => f.snap[k] \in Once /\ ~IsRegistered(f.snap[k])
    /\ f.pc \in {"running", "handling", "calling"} => f.next \in f.ran
    /\ f.pc = "done" /\ ~f.cut => f.next = Len(f.snap) + 1
    /\ f.cut => PropagationEnabled

FrameSound(f) == SnapshotSound(f.snap, f.due) /\ Honoured(f)

\* A thread that is about to claim has not stopped its event.
ClaimsClear ==
    \A t \in Threads :
        AtPc(t, "claim") /\ PropagationEnabled => t \notin stopped[Top(t).ev]

DispatchInv ==
    /\ \A t \in Threads : \A f \in ToSet(stack[t]) : FrameSound(f)
    /\ \A t \in Threads : \A c \in ToSet(pending[t]) : SnapshotSound(c.snap, c.due)
    /\ ClaimsClear

\* The history of registrations only grows, and what was unregistered or claimed does
\* not come back.
HistoryGrows ==
    /\ \A a, b : Precedes(registered, a, b) => Precedes(registered', a, b)
    /\ \A r : Contains(registered, r) => Contains(registered', r)
    /\ \A r \in Regs : Contains(registered, r) /\ ~IsRegistered(r) => ~IsRegistered(r)'

\* The members of a sequence, and of one that is an element longer or shorter.
LEMMA Members ==
    ASSUME NEW S, NEW s \in Seq(S)
    PROVE  /\ \A x : x \in ToSet(s) <=> Contains(s, x)
           /\ ToSet(s) \subseteq S
           /\ \A x \in S : ToSet(Append(s, x)) = ToSet(s) \union {x}
<1>1. Len(s) \in Nat /\ DOMAIN s = 1..Len(s)
  BY LenProperties
<1>2. \A k \in 1..Len(s) : s[k] \in S
  BY ElementOfSeq
<1>3. ASSUME NEW x \in S
      PROVE  ToSet(Append(s, x)) = ToSet(s) \union {x}
  <2>1. /\ DOMAIN Append(s, x) = 1..(Len(s) + 1)
        /\ \A k \in 1..Len(s) : Append(s, x)[k] = s[k]
        /\ Append(s, x)[Len(s) + 1] = x
    BY AppendProperties, LenProperties
  <2>2. \A k : k \in 1..(Len(s) + 1) <=> k \in 1..Len(s) \/ k = Len(s) + 1
    BY <1>1
  <2> QED
    BY <1>1, <2>1, <2>2 DEF ToSet
<1> QED
  BY <1>1, <1>2, <1>3 DEF ToSet, Contains

LEMMA MembersRemoved ==
    ASSUME NEW S, NEW s \in Seq(S), NEW k \in 1..Len(s)
    PROVE  ToSet(RemoveAt(s, k)) \subseteq ToSet(s)
<1>1. /\ Len(s) \in Nat /\ DOMAIN s = 1..Len(s)
      /\ DOMAIN RemoveAt(s, k) = 1..(Len(s) - 1)
      /\ \A n \in 1..(Len(s) - 1) : RemoveAt(s, k)[n] = IF n < k THEN s[n] ELSE s[n + 1]
  BY RemoveAtProperties, LenProperties
<1>2. \A n \in 1..(Len(s) - 1) : n \in 1..Len(s) /\ n + 1 \in 1..Len(s)
  BY <1>1
<1> QED
  BY <1>1, <1>2 DEF ToSet

\* A registration's topic is a sequence of segments, and so is an event's type.
LEMMA Paths ==
    /\ \A r \in Regs : TopicOf[r] \in Patterns /\ TopicOf[r] \in Seq(Segments)
    /\ \A e \in Events : TypeOf[e] \in Seq(Segments)
  BY BusAssumption

\* A pattern without a wildcard matches only itself.
LEMMA ExactMatch ==
    ASSUME NEW p \in Seq(Segments), NEW t \in Seq(Segments), ~IsWildcard(p), Matches(t, p)
    PROVE  p = t
<1>1. /\ Len(p) \in Nat /\ DOMAIN p = 1..Len(p)
      /\ Len(t) \in Nat /\ DOMAIN t = 1..Len(t)
  BY LenProperties
<1>2. \A k \in 1..Len(p) : p[k] # Star /\ p[k] # StarStar
  BY <1>1, SegmentsAssumption DEF IsWildcard
<1>3. CASE Len(p) = Len(t) /\ PrefixMatches(t, p, Len(p))
  <2>1. \A k \in 1..Len(p) : p[k] = t[k]
    BY <1>2, <1>3 DEF PrefixMatches, SegmentMatches
  <2> QED
    BY <1>3, <2>1, SeqEqual
<1> QED
  BY <1>2, <1>3 DEF Matches

\* The snapshot that an emission takes holds what is due, in the order promised.
LEMMA SnapshotsSound ==
    ASSUME Inv, NEW e \in Events, NEW q \in Snapshots(e)
    PROVE  SnapshotSound(q, Due(e))
<1> DEFINE p == TypeOf[e]
           x == IF p \in Patterns THEN exact[p] ELSE <<>>
           c == Candidates(e)
<1>1. TypeOK /\ RegistryInv /\ IndexesAgree
  BY DEF Inv, RegistryInv
<1>2. /\ x \in Seq(Regs) /\ wild \in Seq(Regs) /\ c = x \o wild
      /\ Len(x) \in Nat /\ Len(wild) \in Nat
      /\ DOMAIN x = 1..Len(x) /\ DOMAIN wild = 1..Len(wild)
  <2>1. x \in Seq(Regs) /\ wild \in Seq(Regs)
    BY <1>1, EmptySeq DEF TypeOK
  <2> QED
    BY <2>1, LenProperties DEF Candidates
<1>3. /\ Ordered(wild)
      /\ \A r \in ToSet(wild) : r \in Regs /\ IsWildcard(TopicOf[r]) /\ IsRegistered(r)
      /\ \A r \in Regs : IsWildcard(TopicOf[r]) /\ IsRegistered(r) => r \in ToSet(wild)
  BY <1>1, <1>2, Members DEF IndexesAgree
<1>4. /\ Ordered(x)
      /\ \A r \in ToSet(x) : r \in Regs /\ ~IsWildcard(TopicOf[r]) /\ IsRegistered(r)
      /\ \A r \in Regs : TopicOf[r] = p /\ ~IsWildcard(p) /\ IsRegistered(r) => r \in ToSet(x)
  <2>1. CASE p \in Patterns /\ ~IsWildcard(p)
    <3>1. x = listeners[p] /\ Ordered(x)
      BY <1>1, <2>1 DEF IndexesAgree
    <3>2. \A k \in DOMAIN x : TopicOf[x[k]] = p
      BY <1>1, <2>1, <3>1 DEF RegistryInv
    <3>3. \A r \in ToSet(x) : TopicOf[r] = p
      BY <3>2 DEF ToSet
    <3>4. \A r : TopicOf[r] = p => (IsRegistered(r) <=> r \in ToSet(x))
      <4>1. \A r : r \in ToSet(x) <=> Contains(x, r)
        BY <1>2, Members
      <4> QED
        BY <3>1, <4>1 DEF IsRegistered
    <3> QED
      BY <1>2, <2>1, <3>1, <3>3, <3>4, Members
  <2>2. CASE ~(p \in Patterns /\ ~IsWildcard(p))
    <3>1. x = <<>>
      BY <1>1, <2>2 DEF IndexesAgree
    <3> QED
      BY <2>2, <3>1, EmptySeq, Paths DEF ToSet, Ordered
  <2> QED
    BY <2>1, <2>2
<1> HIDE DEF x, c
<1>5. /\ DOMAIN c = 1..(Len(x) + Len(wild))
      /\ \A n \in 1..Len(x) : c[n] = x[n]
      /\ \A n \in 1..Len(wild) : c[Len(x) + n] = wild[n]
  <2>1. /\ c \in Seq(Regs) /\ Len(c) = Len(x) + Len(wild)
        /\ \A n \in 1..(Len(x) + Len(wild)) : c[n] = IF n <= Len(x) THEN x[n] ELSE wild[n - Len(x)]
    BY <1>2, ConcatProperties
  <2>2. \A n \in 1..Len(x) : n \in 1..(Len(x) + Len(wild)) /\ n <= Len(x)
    BY <1>2
  <2>3. \A n \in 1..Len(wild) : /\ Len(x) + n \in 1..(Len(x) + Len(wild))
                                /\ ~(Len(x) + n <= Len(x)) /\ Len(x) + n - Len(x) = n
    BY <1>2
  <2>4. DOMAIN c = 1..(Len(x) + Len(wild))
    BY <2>1, LenProperties
  <2>5. \A n \in 1..Len(x) : c[n] = x[n]
    BY <2>1, <2>2
  <2>6. \A n \in 1..Len(wild) : c[Len(x) + n] = wild[n]
    BY <2>1, <2>3
  <2> QED
    BY <2>4, <2>5, <2>6
<1>6. ASSUME NEW n \in DOMAIN c
      PROVE  \/ n \in 1..Len(x) /\ c[n] = x[n] /\ x[n] \in ToSet(x)
             \/ \E m \in 1..Len(wild) :
                   n = Len(x) + m /\ c[n] = wild[m] /\ wild[m] \in ToSet(wild)
  <2>1. n \in 1..Len(x) \/ \E m \in 1..Len(wild) : n = Len(x) + m
    <3>1. n \in 1..Len(x) \/ (n - Len(x) \in 1..Len(wild) /\ n = Len(x) + (n - Len(x)))
      BY <1>2, <1>5
    <3> QED
      BY <3>1
  <2> QED
    BY <1>2, <1>5, <2>1 DEF ToSet
<1>7. ToSet(c) = ToSet(x) \union ToSet(wild)
  <2>1. ToSet(c) \subseteq ToSet(x) \union ToSet(wild)
    BY <1>6 DEF ToSet
  <2>2. ASSUME NEW n \in 1..Len(x) PROVE x[n] \in ToSet(c)
    <3>1. n \in 1..(Len(x) + Len(wild))
      BY <1>2
    <3> QED
      BY <1>5, <3>1 DEF ToSet
  <2>3. ASSUME NEW n \in 1..Len(wild) PROVE wild[n] \in ToSet(c)
    <3>1. Len(x) + n \in 1..(Len(x) + Len(wild))
      BY <1>2
    <3> QED
      BY <1>5, <3>1 DEF ToSet
  <2> QED
    BY <1>2, <2>1, <2>2, <2>3 DEF ToSet
<1>8. ToSet(q) = Due(e)
  <2>1. ToSet(q) = Selected(e)
    BY DEF Snapshots
  <2>2. Selected(e) \subseteq Due(e)
    BY <1>3, <1>4, <1>7 DEF Selected, Due, c
  <2>3. ASSUME NEW r \in Due(e) PROVE r \in Selected(e)
    <3>1. r \in Regs /\ IsRegistered(r) /\ Matches(p, TopicOf[r]) /\ e \in Accepts[r]
      BY DEF Due
    <3>2. ~IsWildcard(TopicOf[r]) => TopicOf[r] = p
      BY <3>1, Paths, ExactMatch
    <3>3. r \in ToSet(c)
      BY <1>3, <1>4, <1>7, <3>1, <3>2
    <3> QED
      BY <3>1, <3>3 DEF Selected, c
  <2> QED
    BY <2>1, <2>2, <2>3
<1>9. ASSUME NEW a, NEW b, Precedes(c, a, b)
      PROVE  LET aWild == IsWildcard(TopicOf[a])
                 bWild == IsWildcard(TopicOf[b])
             IN  \/ ~aWild /\ bWild
                 \/ (aWild <=> bWild) /\ Precedes(registered, a, b)
  <2>1. PICK m \in DOMAIN c, n \in DOMAIN c : m < n /\ c[m] = a /\ c[n] = b
    BY <1>9 DEF Precedes
  <2>2. CASE m \in 1..Len(x) /\ n \in 1..Len(x)
    <3>1. x[m] = a /\ x[n] = b /\ Precedes(registered, a, b)
      BY <1>2, <1>4, <1>5, <2>1, <2>2 DEF Ordered
    <3>2. a \in ToSet(x) /\ b \in ToSet(x)
      BY <1>2, <2>2, <3>1 DEF ToSet
    <3>3. ~IsWildcard(TopicOf[a]) /\ ~IsWildcard(TopicOf[b])
      BY <1>4, <3>2
    <3> QED
      BY <3>1, <3>3, Zenon
  <2>3. CASE m \in 1..Len(x) /\ n \notin 1..Len(x)
    <3>1. a \in ToSet(x) /\ b \in ToSet(wild)
      BY <1>2, <1>5, <1>6, <2>1, <2>3
    <3> QED
      BY <1>3, <1>4, <3>1
  <2>4. CASE m \notin 1..Len(x)
    <3>1. PICK i \in 1..Len(wild) : m = Len(x) + i /\ a = wild[i] /\ a \in ToSet(wild)
      BY <1>6, <2>1, <2>4
    <3>2. n \notin 1..Len(x)
      BY <1>2, <2>1, <3>1
    <3>3. PICK j \in 1..Len(wild) : n = Len(x) + j /\ b = wild[j] /\ b \in ToSet(wild)
      BY <1>6, <2>1, <3>2
    <3>4. i < j
      BY <1>2, <2>1, <3>1, <3>3
    <3>5. Precedes(registered, a, b)
      BY <1>2, <1>3, <3>1, <3>3, <3>4 DEF Ordered
    <3> QED
      BY <1>3, <3>1, <3>3, <3>5
  <2> QED
    BY <2>2, <2>3, <2>4
<1>10. InOrder(q)
  <2>1. \A m, n \in DOMAIN q : m < n => GoesBefore(c, q[m], q[n])
    BY DEF Snapshots, c
  <2> QED
    BY <1>9, <2>1 DEF InOrder, GoesBefore
<1>11. \A r \in Due(e) : Contains(registered, r)
  BY <1>1 DEF RegistryInv, Due
<1> QED
  BY <1>8, <1>10, <1>11 DEF SnapshotSound

\* The fields of what a dispatch becomes.
SameSnapshot(f, g) ==
    /\ g.snap = f.snap /\ g.due = f.due /\ g.ev = f.ev /\ g.mode = f.mode

LEMMA Forms ==
    ASSUME NEW f \in Frames
    PROVE  /\ \A cut \in BOOLEAN :
                 LET g == Finished(f, cut)
                 IN  /\ SameSnapshot(f, g) /\ g.next = f.next /\ g.ran = f.ran
                     /\ g.pc = "done" /\ g.cut = cut
           /\ \A exc \in Exceptions :
                 LET g == Failed(f, exc)
                 IN  /\ SameSnapshot(f, g) /\ g.next = f.next /\ g.ran = f.ran
                     /\ g.pc = "raising" /\ g.exc = exc /\ g.cut = f.cut
           /\ \A pc \in {"claim", "handling", "calling"} :
                 LET g == [f EXCEPT !.pc = pc]
                 IN  /\ SameSnapshot(f, g) /\ g.next = f.next /\ g.ran = f.ran
                     /\ g.pc = pc /\ g.cut = f.cut
           /\ LET g == Invoke(f)
              IN  /\ SameSnapshot(f, g) /\ g.next = f.next /\ g.ran = f.ran \union {f.next}
                  /\ g.pc = "running" /\ g.cut = f.cut
           /\ LET g == Advance(f)
              IN  /\ SameSnapshot(f, g) /\ g.next = f.next + 1 /\ g.ran = f.ran
                  /\ g.pc = "loop" /\ g.cut = f.cut
  BY DEF Frames, SameSnapshot, Finished, Failed, Invoke, Advance

\* No step makes a dispatch unsound, and only policy makes it fail.
LEMMA FollowsSound ==
    ASSUME NEW f, FrameOK(f), NEW g, Follows(f, g)
    PROVE  /\ SameSnapshot(f, g)
           /\ FrameSound(f) => FrameSound(g)
           /\ g.ran # f.ran => f.pc = "claim"
           /\ g.pc = "claim" => f.pc = "loop" /\ ~ShouldStop(f)
           /\ g.pc = "raising" => \/ f.pc = "calling"
                                  \/ g.exc = "async" /\ g.mode = "sync"
                                  \/ g.exc = "cancel"
<1>1. /\ f \in Frames /\ f.next \in Nat \ {0} /\ Len(f.snap) \in Nat
      /\ f.next <= Len(f.snap) + 1
  <2>1. f \in Frames /\ f.next \in Nat \ {0} /\ f.snap \in Seq(Regs) /\ f.next <= Len(f.snap) + 1
    BY DEF FrameOK, Frames
  <2> QED
    BY <2>1, LenProperties
<1>2. CASE /\ g = Finished(f, FALSE) /\ AtEnd(f) /\ f.pc = "loop"
  <2>1. f.next = Len(f.snap) + 1
    BY <1>1, <1>2 DEF AtEnd
  <2>2. /\ SameSnapshot(f, g) /\ g.next = f.next /\ g.ran = f.ran
        /\ g.pc = "done" /\ g.cut = FALSE
    BY <1>1, <1>2, Forms
  <2>3. FrameSound(f) => FrameSound(g)
    BY <2>1, <2>2 DEF FrameSound, Honoured, SameSnapshot
  <2> QED
    BY <2>2, <2>3
<1>3. CASE g = Finished(f, TRUE) /\ PropagationEnabled
  <2>1. /\ SameSnapshot(f, g) /\ g.next = f.next /\ g.ran = f.ran
        /\ g.pc = "done" /\ g.cut = TRUE
    BY <1>1, <1>3, Forms
  <2>2. FrameSound(f) => FrameSound(g)
    BY <1>3, <2>1 DEF FrameSound, Honoured, SameSnapshot
  <2> QED
    BY <2>1, <2>2
<1>4. ASSUME NEW exc \in Exceptions, g = Failed(f, exc),
             \/ f.pc = "calling" \/ exc = "cancel"
             \/ exc = "async" /\ f.mode = "sync"
      PROVE  /\ SameSnapshot(f, g) /\ g.ran = f.ran /\ g.pc = "raising"
             /\ FrameSound(f) => FrameSound(g)
             /\ f.pc = "calling" \/ g.exc = "cancel" \/ (g.exc = "async" /\ g.mode = "sync")
  <2>1. /\ SameSnapshot(f, g) /\ g.next = f.next /\ g.ran = f.ran
        /\ g.pc = "raising" /\ g.exc = exc /\ g.cut = f.cut
    <3>1. g = Failed(f, exc)
      BY <1>4
    <3> QED
      BY <1>1, <3>1, Forms, ZenonT(30)
  <2>2. FrameSound(f) => FrameSound(g)
    BY <2>1 DEF FrameSound, Honoured, SameSnapshot
  <2> QED
    BY <1>4, <2>1, <2>2 DEF SameSnapshot
<1>5. ASSUME NEW pc \in {"claim", "handling", "calling"}, g = [f EXCEPT !.pc = pc],
             pc # "claim" => f.pc \in {"running", "handling"}
      PROVE  /\ SameSnapshot(f, g) /\ g.ran = f.ran /\ g.pc = pc
             /\ FrameSound(f) => FrameSound(g)
  <2>1. /\ SameSnapshot(f, g) /\ g.next = f.next /\ g.ran = f.ran
        /\ g.pc = pc /\ g.cut = f.cut
    <3>1. g = [f EXCEPT !.pc = pc]
      BY <1>5
    <3> QED
      BY <1>1, <3>1, Forms, ZenonT(30)
  <2>2. FrameSound(f) => FrameSound(g)
    BY <1>5, <2>1 DEF FrameSound, Honoured, SameSnapshot
  <2> QED
    BY <2>1, <2>2
<1>6. CASE g = Invoke(f) /\ f.pc = "claim"
  <2>1. /\ SameSnapshot(f, g) /\ g.next = f.next /\ g.ran = f.ran \union {f.next}
        /\ g.pc = "running" /\ g.cut = f.cut
    BY <1>1, <1>6, Forms
  <2>2. FrameSound(f) => FrameSound(g)
    BY <2>1 DEF FrameSound, Honoured, SameSnapshot
  <2> QED
    BY <1>6, <2>1, <2>2
<1>7. ASSUME g = Advance(f),
             \/ f.pc \in {"running", "handling", "calling"}
             \/ Current(f) \in Once /\ ~IsRegistered(Current(f))
      PROVE  /\ SameSnapshot(f, g) /\ g.ran = f.ran /\ g.pc = "loop"
             /\ FrameSound(f) => FrameSound(g)
  <2>1. /\ SameSnapshot(f, g) /\ g.next = f.next + 1 /\ g.ran = f.ran
        /\ g.pc = "loop" /\ g.cut = f.cut
    BY <1>1, <1>7, Forms
  <2>2. ASSUME FrameSound(f) PROVE FrameSound(g)
    <3>1. ASSUME NEW k \in 1..(g.next - 1), k \notin g.ran
          PROVE  g.snap[k] \in Once /\ ~IsRegistered(g.snap[k])
      <4>1. k \in 1..(f.next - 1) \/ k = f.next
        BY <1>1, <2>1
      <4>2. CASE k \in 1..(f.next - 1)
        BY <2>1, <2>2, <3>1, <4>2 DEF FrameSound, Honoured, SameSnapshot
      <4>3. CASE k = f.next
        BY <1>7, <2>1, <2>2, <3>1, <4>3 DEF FrameSound, Honoured, SameSnapshot, Current
      <4> QED
        BY <4>1, <4>2, <4>3
    <3> QED
      BY <2>1, <2>2, <3>1 DEF FrameSound, Honoured, SameSnapshot
  <2> QED
    BY <2>1, <2>2
<1>8. ASSUME NEW exc \in Exceptions, g = Thrown(f, exc), f.pc = "running"
      PROVE  \/ g = Failed(f, exc) /\ (exc = "cancel" \/ (exc = "async" /\ f.mode = "sync"))
             \/ g = Finished(f, TRUE) /\ PropagationEnabled
             \/ g = Advance(f)
             \/ g = [f EXCEPT !.pc = "handling"]
  BY <1>8 DEF Thrown
<1>9. CASE f.pc = "loop"
  <2>1. CASE g = Failed(f, "async") /\ f.mode = "sync"
    <3>1. "async" \in Exceptions
      BY DEF Exceptions
    <3> QED
      BY <1>4, <1>9, <2>1, <3>1
  <2>2. CASE g = [f EXCEPT !.pc = "claim"] /\ ~AtEnd(f) /\ ~ShouldStop(f)
    BY <1>5, <1>9, <2>2
  <2> QED
    BY <1>2, <1>3, <1>9, <2>1, <2>2 DEF Follows
<1>10. CASE f.pc = "claim"
  BY <1>6, <1>7, <1>10 DEF Follows
<1>11. CASE f.pc = "running"
  <2>1. ASSUME NEW exc \in Exceptions, g = Thrown(f, exc)
        PROVE  /\ SameSnapshot(f, g)
               /\ FrameSound(f) => FrameSound(g)
               /\ g.ran = f.ran /\ g.pc # "claim"
               /\ g.pc = "raising" => g.exc = "cancel" \/ (g.exc = "async" /\ g.mode = "sync")
    <3>1. CASE g = Failed(f, exc) /\ (exc = "cancel" \/ (exc = "async" /\ f.mode = "sync"))
      BY <1>4, <1>11, <3>1
    <3>2. CASE g = Finished(f, TRUE) /\ PropagationEnabled
      <4>1. g.pc = "done" /\ g.ran = f.ran
        BY <1>1, <3>2, Forms
      <4> QED
        BY <1>3, <3>2, <4>1
    <3>3. CASE g = Advance(f)
      BY <1>7, <1>11, <3>3
    <3>4. CASE g = [f EXCEPT !.pc = "handling"]
      BY <1>5, <1>11, <3>4
    <3> QED
      BY <1>8, <1>11, <2>1, <3>1, <3>2, <3>3, <3>4
  <2> QED
    BY <1>7, <1>11, <2>1 DEF Follows
<1>12. CASE f.pc = "handling"
  BY <1>5, <1>7, <1>12 DEF Follows
<1>13. CASE f.pc = "calling"
  BY <1>4, <1>7, <1>13 DEF Follows
<1> QED
  BY <1>9, <1>10, <1>11, <1>12, <1>13 DEF Follows

\* What each way of rewriting a stack makes of the dispatches in it.
LEMMA SetTopShape ==
    ASSUME StackOK, NEW t \in Threads, stack[t] # <<>>, NEW f, FrameOK(f), SetTop(t, f)
    PROVE  /\ \A u \in Threads \ {t} : stack'[u] = stack[u]
           /\ ToSet(stack'[t]) \subseteq ToSet(stack[t]) \union {f}
           /\ stack'[t] # <<>> /\ Len(stack'[t]) = Len(stack[t]) /\ Last(stack'[t]) = f
<1>1. /\ stack[t] \in Seq(Frames) /\ Len(stack[t]) \in Nat \ {0}
      /\ DOMAIN stack[t] = 1..Len(stack[t])
  BY TopOfStack, LenProperties
<1> DEFINE s == Replace(stack[t], f)
<1>2. /\ s \in Seq(Frames) /\ Len(s) = Len(stack[t])
      /\ \A n \in 1..Len(s) : s[n] = IF n = Len(s) THEN f ELSE stack[t][n]
  BY <1>1, ExceptSeq DEF Replace, FrameOK
<1>3. stack' = [stack EXCEPT ![t] = s]
  BY DEF SetTop
<1> HIDE DEF s
<1>4. stack'[t] = s /\ \A u \in Threads \ {t} : stack'[u] = stack[u]
  BY <1>3 DEF StackOK
<1>5. DOMAIN s = 1..Len(stack[t]) /\ s # <<>>
  BY <1>1, <1>2, LenProperties, EmptySeq
<1>6. ToSet(s) \subseteq ToSet(stack[t]) \union {f}
  BY <1>1, <1>2, <1>5 DEF ToSet
<1>7. Last(s) = f
  BY <1>1, <1>2 DEF Last
<1> QED
  BY <1>2, <1>4, <1>5, <1>6, <1>7

LEMMA PushShape ==
    ASSUME StackOK, NEW t \in Threads, NEW f, FrameOK(f), Push(t, f)
    PROVE  /\ \A u \in Threads \ {t} : stack'[u] = stack[u]
           /\ ToSet(stack'[t]) = ToSet(stack[t]) \union {f}
           /\ Len(stack'[t]) = Len(stack[t]) + 1 /\ Last(stack'[t]) = f
<1>1. stack[t] \in Seq(Frames) /\ f \in Frames
  BY DEF StackOK, FrameOK
<1>2. stack'[t] = Append(stack[t], f) /\ \A u \in Threads \ {t} : stack'[u] = stack[u]
  BY DEF Push, StackOK
<1>3. /\ Len(Append(stack[t], f)) = Len(stack[t]) + 1
      /\ Append(stack[t], f)[Len(stack[t]) + 1] = f
  BY <1>1, AppendProperties
<1> QED
  BY <1>1, <1>2, <1>3, Members DEF Last

LEMMA FrontShape ==
    ASSUME StackOK, NEW t \in Threads, stack[t] # <<>>
    PROVE  /\ ToSet(Front(stack[t])) \subseteq ToSet(stack[t])
           /\ Front(stack[t]) # <<>> => /\ Last(Front(stack[t])) \in ToSet(stack[t])
                                        /\ FrameOK(Last(Front(stack[t])))
                                        /\ Last(Front(stack[t])).pc = "running"
<1> DEFINE r == Front(stack[t])
<1>1. /\ stack[t] \in Seq(Frames) /\ Len(stack[t]) \in Nat \ {0}
      /\ DOMAIN stack[t] = 1..Len(stack[t])
  BY TopOfStack, LenProperties
<1>2. /\ r \in Seq(Frames) /\ Len(r) = Len(stack[t]) - 1
      /\ \A n \in 1..Len(r) : r[n] = stack[t][n] /\ FrameOK(r[n]) /\ r[n].pc = "running"
  BY FrontOfStack
<1> HIDE DEF r
<1>3. DOMAIN r = 1..Len(r)
  BY <1>2, LenProperties
<1>4. \A n \in 1..Len(r) : r[n] \in ToSet(stack[t])
  <2>1. \A n \in 1..Len(r) : n \in DOMAIN stack[t]
    BY <1>1, <1>2
  <2> QED
    BY <1>2, <2>1 DEF ToSet
<1>5. ToSet(r) \subseteq ToSet(stack[t])
  BY <1>3, <1>4 DEF ToSet
<1>6. r # <<>> => Len(r) \in 1..Len(r)
  BY <1>1, <1>2, EmptySeq
<1>7. r # <<>> => Last(r) \in ToSet(stack[t]) /\ FrameOK(Last(r)) /\ Last(r).pc = "running"
  BY <1>2, <1>4, <1>6 DEF Last
<1> QED
  BY <1>5, <1>7 DEF r

\* The dispatch below one that failed goes on.
LEMMA ThroughShape ==
    ASSUME StackOK, NEW t \in Threads, LeaveThrough(t)
    PROVE  \E f, g : /\ f \in ToSet(stack[t]) /\ FrameOK(f) /\ Follows(f, g)
                     /\ f.pc = "running"
                     /\ \A u \in Threads \ {t} : stack'[u] = stack[u]
                     /\ ToSet(stack'[t]) \subseteq ToSet(stack[t]) \union {g}
                     /\ Len(stack'[t]) # Len(stack[t]) /\ Last(stack'[t]) = g
<1> DEFINE r == Front(stack[t])
           f == Last(r)
           g == Thrown(f, Top(t).exc)
           s == Replace(r, g)
<1>1. stack[t] # <<>> /\ r # <<>> /\ Top(t).pc = "raising"
  BY DEF LeaveThrough, AtPc
<1>2. f \in ToSet(stack[t]) /\ FrameOK(f) /\ f.pc = "running"
  BY <1>1, FrontShape
<1>3. Top(t).exc \in Exceptions
  <2>1. FrameOK(Top(t)) /\ Top(t).pc = "raising"
    BY <1>1, TopOfStack
  <2> QED
    BY <2>1 DEF FrameOK, Frames
<1>4. Follows(f, g)
  BY <1>2, <1>3 DEF Follows
<1>5. g \in Frames
  <2> HIDE DEF f
  <2> QED
    BY <1>2, <1>3, FrameChanges DEF FrameOK
<1>6. r \in Seq(Frames) /\ Len(r) = Len(stack[t]) - 1 /\ Len(stack[t]) \in Nat \ {0}
  BY <1>1, FrontOfStack, TopOfStack
<1>7. stack'[t] = s /\ \A u \in Threads \ {t} : stack'[u] = stack[u]
  BY <1>1 DEF LeaveThrough, StackOK
<1>8. ToSet(r) \subseteq ToSet(stack[t])
  BY <1>1, FrontShape
<1> HIDE DEF g, r
<1>9. Len(r) \in Nat \ {0} /\ DOMAIN r = 1..Len(r)
  BY <1>1, <1>6, EmptySeq, LenProperties
<1>10. /\ s \in Seq(Frames) /\ Len(s) = Len(r)
       /\ \A n \in 1..Len(r) : s[n] = IF n = Len(r) THEN g ELSE r[n]
  <2>1. r \in Seq(Frames)
    BY <1>6
  <2> QED
    BY <1>5, <1>9, <2>1, ExceptSeq DEF Replace
<1>11. DOMAIN s = 1..Len(r)
  BY <1>10, LenProperties
<1> HIDE DEF s
<1>12. ToSet(s) \subseteq ToSet(stack[t]) \union {g}
  BY <1>8, <1>9, <1>10, <1>11 DEF ToSet
<1>13. Last(s) = g
  <2>1. Len(r) \in 1..Len(r)
    BY <1>9
  <2>2. Last(s) = s[Len(r)]
    BY <1>10, Zenon DEF Last
  <2> QED
    BY <1>10, <2>1, <2>2
<1>14. Len(s) # Len(stack[t])
  BY <1>6, <1>10
<1> HIDE DEF f
<1> QED
  BY <1>2, <1>4, <1>7, <1>12, <1>13, <1>14

\* No step forgets a registration or brings one back.
LEMMA Grows ==
    ASSUME Inv, [Next]_vars
    PROVE  HistoryGrows
<1>1. TypeOK /\ RegistryInv
  BY DEF Inv
<1>2. ASSUME UNCHANGED <<busVars>> PROVE HistoryGrows
  BY <1>2 DEF HistoryGrows, busVars, IsRegistered
<1>3. ASSUME NEW r \in Regs, RemoveRegistration(r) PROVE HistoryGrows
  <2> DEFINE p == TopicOf[r]
  <2>1. p \in Patterns /\ listeners[p] \in Seq(Regs) /\ Distinct(listeners[p])
    BY <1>1, BusAssumption, OrderedIsDistinct DEF TypeOK, RegistryInv, IndexesAgree
  <2>2. registered' = registered /\ listeners' = [listeners EXCEPT ![p] = Without(listeners[p], r)]
    BY <1>3 DEF RemoveRegistration
  <2>3. \A x : Contains(Without(listeners[p], r), x) => Contains(listeners[p], x)
    BY <2>1, WithoutProperties
  <2> HIDE DEF p
  <2>4. ASSUME NEW x \in Regs, IsRegistered(x)' PROVE IsRegistered(x)
    <3>1. TopicOf[x] \in Patterns /\ Contains(listeners'[TopicOf[x]], x)
      BY <2>4, BusAssumption DEF IsRegistered
    <3>2. CASE TopicOf[x] = p
      BY <1>1, <2>1, <2>2, <2>3, <3>1, <3>2 DEF IsRegistered, TypeOK
    <3>3. CASE TopicOf[x] # p
      BY <1>1, <2>2, <3>1, <3>3 DEF IsRegistered, TypeOK
    <3> QED
      BY <3>2, <3>3
  <2> QED
    BY <2>2, <2>4 DEF HistoryGrows
<1>4. ASSUME NEW t \in Threads, NEW r \in Regs, Register(t, r) PROVE HistoryGrows
  <2> DEFINE p == TopicOf[r]
  <2>1. /\ p \in Patterns /\ listeners[p] \in Seq(Regs) /\ registered \in Seq(Regs)
        /\ listeners \in [Patterns -> Seq(Regs)]
    BY <1>1, BusAssumption DEF TypeOK
  <2>2. /\ ~Contains(registered, r)
        /\ registered' = Append(registered, r)
        /\ listeners' = [listeners EXCEPT ![p] = Append(listeners[p], r)]
    BY <1>4 DEF Register
  <2> HIDE DEF p
  <2>3. /\ \A x : Contains(registered', x) <=> Contains(registered, x) \/ x = r
        /\ \A x : Contains(listeners'[p], x) <=> Contains(listeners[p], x) \/ x = r
    BY <2>1, <2>2, ContainsAppend
  <2>4. ASSUME NEW a, NEW b, Precedes(registered, a, b) PROVE Precedes(registered', a, b)
    <3>1. /\ Len(registered) \in Nat /\ DOMAIN registered = 1..Len(registered)
          /\ DOMAIN registered' = 1..(Len(registered) + 1)
          /\ \A n \in 1..Len(registered) : registered'[n] = registered[n]
      BY <2>1, <2>2, AppendProperties, LenProperties
    <3>2. PICK m, n \in 1..Len(registered) : m < n /\ registered[m] = a /\ registered[n] = b
      BY <2>4, <3>1 DEF Precedes
    <3>3. m \in DOMAIN registered' /\ n \in DOMAIN registered'
      BY <3>1
    <3> QED
      BY <3>1, <3>2, <3>3 DEF Precedes
  <2>5. ASSUME NEW x \in Regs, Contains(registered, x), IsRegistered(x)' PROVE IsRegistered(x)
    <3>1. x # r /\ Contains(listeners'[TopicOf[x]], x)
      BY <2>2, <2>5 DEF IsRegistered
    <3>2. CASE TopicOf[x] = p
      BY <2>3, <3>1, <3>2 DEF IsRegistered
    <3>3. CASE TopicOf[x] # p
      BY <2>1, <2>2, <3>1, <3>3, BusAssumption DEF IsRegistered
    <3> QED
      BY <3>2, <3>3
  <2> QED
    BY <2>3, <2>4, <2>5 DEF HistoryGrows
<1>5. ASSUME NEW t \in Threads, NEW p \in Patterns, NEW func \in Funcs, Unregister(t, p, func)
      PROVE  HistoryGrows
  <2>1. PICK k \in DOMAIN listeners[p] : RemoveRegistration(listeners[p][k])
    BY <1>5 DEF Unregister
  <2>2. listeners[p][k] \in Regs
    BY <1>1, LenProperties, ElementOfSeq DEF TypeOK
  <2> QED
    BY <1>3, <2>1, <2>2
<1>6. ASSUME NEW t \in Threads, Claim(t) PROVE HistoryGrows
  <2>1. UNCHANGED busVars \/ (Current(Top(t)) \in Once /\ RemoveRegistration(Current(Top(t))))
    BY <1>6 DEF Claim
  <2> QED
    BY <1>2, <1>3, <2>1, BusAssumption
<1>7. ASSUME NEW t \in Threads, BusStep(t) \/ CallbackEnds(t) PROVE HistoryGrows
  <2>1. Claim(t) \/ UNCHANGED busVars
    BY <1>7 DEF BusStep, Select, CheckHandler, CallHandler, Complete, Leave, LeaveThrough,
                Pops, CallbackEnds, Return, Raise, Cancel, EmitRefused, Becomes
  <2> QED
    BY <1>2, <1>6, <2>1
<1>8. ASSUME NEW t \in Threads, AppCall(t) PROVE HistoryGrows
  <2>1. \/ \E r \in Regs : Register(t, r)
        \/ \E p \in Patterns, func \in Funcs : Unregister(t, p, func)
        \/ UNCHANGED busVars
    BY <1>8 DEF AppCall, SetErrorHandler, StopEvent, EmitSync, EmitAsync, Emit, Await, busVars
  <2> QED
    BY <1>2, <1>4, <1>5, <2>1
<1>9. CASE UNCHANGED vars
  BY <1>2, <1>9 DEF vars, busVars
<1> QED
  BY <1>7, <1>8, <1>9 DEF Next

\* What was sound stays sound while registrations come and go.
LEMMA SoundStays ==
    ASSUME HistoryGrows
    PROVE  /\ \A q, due : SnapshotSound(q, due) => SnapshotSound(q, due)'
           /\ \A f : FrameOK(f) /\ FrameSound(f) => FrameSound(f)'
<1>1. ASSUME NEW q, NEW due, SnapshotSound(q, due) PROVE SnapshotSound(q, due)'
  BY <1>1 DEF HistoryGrows, SnapshotSound, InOrder
<1>2. ASSUME NEW f, FrameOK(f), FrameSound(f) PROVE FrameSound(f)'
  <2>1. SnapshotSound(f.snap, f.due)'
    BY <1>1, <1>2 DEF FrameSound
  <2>2. ASSUME NEW k \in 1..(f.next - 1), k \notin f.ran
        PROVE  f.snap[k] \in Once /\ ~IsRegistered(f.snap[k])'
    <3>1. f.snap \in Seq(Regs) /\ f.next \in Nat \ {0} /\ f.next <= Len(f.snap) + 1
      BY <1>2 DEF FrameOK, Frames
    <3>2. k \in 1..Len(f.snap) /\ DOMAIN f.snap = 1..Len(f.snap)
      BY <3>1, LenProperties
    <3>3. f.snap[k] \in Regs /\ f.snap[k] \in ToSet(f.snap)
      BY <3>1, <3>2, ElementOfSeq DEF ToSet
    <3>4. Contains(registered, f.snap[k])
      BY <1>2, <3>3 DEF FrameSound, SnapshotSound
    <3>5. f.snap[k] \in Once /\ ~IsRegistered(f.snap[k])
      BY <1>2, <2>2 DEF FrameSound, Honoured
    <3> QED
      BY <3>3, <3>4, <3>5 DEF HistoryGrows
  <2> QED
    BY <1>2, <2>1, <2>2 DEF FrameSound, Honoured
<1> QED
  BY <1>1, <1>2

\* The dispatches of a thread are well-formed, and the innermost is one of them.
LEMMA FramesOfStack ==
    ASSUME StackOK, NEW t \in Threads
    PROVE  /\ \A f \in ToSet(stack[t]) : FrameOK(f)
           /\ stack[t] # <<>> => Top(t) \in ToSet(stack[t])
<1>1. stack[t] \in Seq(Frames) /\ DOMAIN stack[t] = 1..Len(stack[t])
  BY LenProperties DEF StackOK
<1>2. ASSUME stack[t] # <<>> PROVE Top(t) \in ToSet(stack[t])
  <2>1. Len(stack[t]) \in Nat \ {0} /\ Top(t) = stack[t][Len(stack[t])]
    BY <1>2, TopOfStack
  <2>2. Len(stack[t]) \in 1..Len(stack[t])
    BY <2>1
  <2> QED
    BY <1>1, <2>1, <2>2 DEF ToSet
<1> QED
  BY <1>1, <1>2 DEF ToSet, StackOK

\* A dispatch starts sound.
LEMMA NewFrameSound ==
    ASSUME NEW e \in Events, NEW mode \in {"sync", "async"}, NEW q \in Seq(Regs),
           NEW due \in SUBSET Regs, SnapshotSound(q, due)
    PROVE  FrameSound(NewFrame(e, mode, q, due)) /\ NewFrame(e, mode, q, due).pc = "loop"
  BY DEF FrameSound, Honoured, NewFrame

LEMMA DispatchInit == Init => DispatchInv
  BY EmptySeq DEF Init, DispatchInv, ClaimsClear, ToSet, AtPc

\* If every dispatch of a thread is an old one or a sound new one, ...
LEMMA StacksStaySound ==
    ASSUME Inv, DispatchInv, HistoryGrows, NEW t \in Threads,
           \A u \in Threads \ {t} : stack'[u] = stack[u],
           \A f \in ToSet(stack'[t]) : f \in ToSet(stack[t]) \/ FrameSound(f)',
           \A u \in Threads \ {t} : \A e \in Events : u \in stopped'[e] => u \in stopped[e],
           AtPc(t, "claim")' /\ PropagationEnabled => t \notin stopped'[Top(t)'.ev],
           \A u \in Threads : \A c \in ToSet(pending'[u]) :
              c \in ToSet(pending[u]) \/ SnapshotSound(c.snap, c.due)'
    PROVE  DispatchInv'
<1>1. StackOK
  BY DEF Inv, TypeOK
<1>2. ASSUME NEW u \in Threads, NEW f \in ToSet(stack'[u]) PROVE FrameSound(f)'
  <2>1. ASSUME f \in ToSet(stack[u]) PROVE FrameSound(f)'
    <3>1. FrameOK(f) /\ FrameSound(f)
      BY <1>1, <2>1, FramesOfStack DEF DispatchInv
    <3> QED
      BY <3>1, SoundStays
  <2> QED
    BY <2>1
<1>3. ASSUME NEW u \in Threads, NEW c \in ToSet(pending'[u]) PROVE SnapshotSound(c.snap, c.due)'
  <2>1. c \in ToSet(pending[u]) => SnapshotSound(c.snap, c.due)
    BY DEF DispatchInv
  <2> QED
    BY <2>1, SoundStays
<1>4. ClaimsClear'
  <2>1. ASSUME NEW u \in Threads, u # t, AtPc(u, "claim")', PropagationEnabled
        PROVE  u \notin stopped'[Top(u)'.ev]
    <3>1. AtPc(u, "claim") /\ Top(u)' = Top(u) /\ stack[u] # <<>>
      BY <2>1 DEF AtPc, Top
    <3>2. u \notin stopped[Top(u).ev] /\ Top(u).ev \in Events
      BY <1>1, <2>1, <3>1, TopOfStack DEF DispatchInv, ClaimsClear, FrameOK, Frames
    <3> QED
      BY <2>1, <3>1, <3>2
  <2> QED
    BY <2>1 DEF ClaimsClear
<1> QED
  BY <1>2, <1>3, <1>4 DEF DispatchInv

\* ... as the loop leaves them, ...
LEMMA LoopDispatch ==
    ASSUME Inv, DispatchInv, HistoryGrows, NEW t \in Threads,
           Select(t) \/ Claim(t) \/ CheckHandler(t) \/ CallHandler(t) \/ CallbackEnds(t)
    PROVE  DispatchInv'
<1>1. StackOK
  BY DEF Inv, TypeOK
<1>2. PICK g : FrameOK(g) /\ Follows(Top(t), g) /\ SetTop(t, g)
  BY LoopSteps
<1>3. stack[t] # <<>> /\ FrameOK(Top(t)) /\ UNCHANGED <<pending, stopped>>
  BY LoopSteps
<1>4. /\ \A u \in Threads \ {t} : stack'[u] = stack[u]
      /\ ToSet(stack'[t]) \subseteq ToSet(stack[t]) \union {g}
      /\ Last(stack'[t]) = g
  BY <1>1, <1>2, <1>3, SetTopShape
<1>5. FrameSound(g)'
  <2>1. FrameSound(Top(t))
    BY <1>1, <1>3, FramesOfStack DEF DispatchInv
  <2>2. FrameSound(g)
    BY <1>2, <1>3, <2>1, FollowsSound
  <2> QED
    BY <1>2, <2>2, SoundStays
<1>6. AtPc(t, "claim")' /\ PropagationEnabled => t \notin stopped'[Top(t)'.ev]
  <2>1. SUFFICES ASSUME g.pc = "claim", PropagationEnabled PROVE t \notin stopped[g.ev]
    BY <1>3, <1>4 DEF AtPc, Top
  <2>2. ~ShouldStop(Top(t)) /\ g.ev = Top(t).ev
    BY <1>2, <1>3, <2>1, FollowsSound DEF SameSnapshot
  <2> QED
    BY <2>1, <2>2 DEF ShouldStop
<1> QED
  BY <1>3, <1>4, <1>5, <1>6, StacksStaySound

\* ... as the end of a dispatch does, ...
LEMMA EndDispatch ==
    ASSUME Inv, DispatchInv, HistoryGrows, NEW t \in Threads,
           Complete(t) \/ Leave(t) \/ LeaveThrough(t)
    PROVE  DispatchInv'
<1>1. StackOK
  BY DEF Inv, TypeOK
<1>2. stack[t] # <<>> /\ UNCHANGED <<pending, stopped>>
  BY DEF Complete, Leave, LeaveThrough, Pops, AtPc
<1>3. CASE Complete(t) \/ Leave(t)
  <2>1. stack'[t] = Front(stack[t]) /\ \A u \in Threads \ {t} : stack'[u] = stack[u]
    BY <1>1, <1>3 DEF Complete, Leave, Pops, StackOK
  <2>2. ToSet(stack'[t]) \subseteq ToSet(stack[t])
    BY <1>1, <1>2, <2>1, FrontShape
  <2>3. ~AtPc(t, "claim")'
    BY <1>1, <1>2, <2>1, FrontShape DEF AtPc, Top
  <2> QED
    BY <1>2, <2>1, <2>2, <2>3, StacksStaySound
<1>4. CASE LeaveThrough(t)
  <2>1. PICK f, g :
           /\ f \in ToSet(stack[t]) /\ FrameOK(f) /\ Follows(f, g) /\ f.pc = "running"
           /\ \A u \in Threads \ {t} : stack'[u] = stack[u]
           /\ ToSet(stack'[t]) \subseteq ToSet(stack[t]) \union {g}
           /\ Last(stack'[t]) = g
    BY <1>1, <1>4, ThroughShape
  <2>2. FrameSound(g) /\ g.pc # "claim"
    BY <2>1, FollowsSound DEF DispatchInv
  <2>3. FrameOK(g)
    BY <2>1, FrameChanges DEF Follows
  <2>4. FrameSound(g)'
    BY <2>2, <2>3, SoundStays
  <2>5. ~AtPc(t, "claim")'
    BY <2>1, <2>2 DEF AtPc, Top
  <2> QED
    BY <1>2, <2>1, <2>4, <2>5, StacksStaySound
<1> QED
  BY <1>3, <1>4

\* ... and as a new dispatch does.
LEMMA EmissionDispatch ==
    ASSUME Inv, DispatchInv, HistoryGrows, NEW t \in Threads, NEW e \in Events,
           NEW async \in BOOLEAN,
           EmitSync(t, e) \/ EmitAsync(t, e) \/ Emit(t, e, async)
    PROVE  DispatchInv'
<1>1. StackOK /\ TypeOK
  BY DEF Inv, TypeOK
<1>2. UNCHANGED stopped
  BY DEF EmitSync, EmitAsync, Emit
<1>3. PICK q \in Snapshots(e) :
         \/ /\ \E mode \in {"sync", "async"} : Push(t, NewFrame(e, mode, q, Due(e)))
            /\ pending' = pending
         \/ /\ pending' = [pending EXCEPT ![t] =
                             Append(@, [ev |-> e, snap |-> q, due |-> Due(e)])]
            /\ stack' = stack
  BY DEF EmitSync, EmitAsync, Emit
<1>4. q \in Seq(Regs) /\ Due(e) \subseteq Regs /\ SnapshotSound(q, Due(e))
  BY <1>1, SnapshotsAreSequences, SnapshotsSound DEF Due
<1>5. PICK due : due = Due(e) /\ due \subseteq Regs /\ SnapshotSound(q, due)
  BY <1>4
<1>6. SnapshotSound(q, due)'
  BY <1>5, SoundStays
<1>7. CASE /\ \E mode \in {"sync", "async"} : Push(t, NewFrame(e, mode, q, due))
           /\ pending' = pending
  <2>1. PICK mode \in {"sync", "async"} : Push(t, NewFrame(e, mode, q, due))
    BY <1>7
  <2>2. PICK f : /\ f = NewFrame(e, mode, q, due)
                 /\ FrameOK(f) /\ FrameSound(f) /\ f.pc = "loop"
    BY <1>4, <1>5, NewFrameOK, NewFrameSound
  <2>3. FrameSound(f)'
    BY <2>2, SoundStays
  <2>4. /\ \A u \in Threads \ {t} : stack'[u] = stack[u]
        /\ ToSet(stack'[t]) = ToSet(stack[t]) \union {f}
        /\ Last(stack'[t]) = f
    BY <1>1, <2>1, <2>2, PushShape
  <2>5. ~AtPc(t, "claim")'
    BY <2>2, <2>4 DEF AtPc, Top
  <2> QED
    BY <1>2, <1>7, <2>3, <2>4, <2>5, StacksStaySound
<1>8. CASE /\ pending' = [pending EXCEPT ![t] = Append(@, [ev |-> e, snap |-> q, due |-> due])]
           /\ stack' = stack
  <2>1. PICK c : /\ c = [ev |-> e, snap |-> q, due |-> due]
                 /\ c \in Coroutines /\ c.snap = q /\ c.due = due
    <3>1. q \in Seq(Regs) /\ due \in SUBSET Regs
      BY <1>4, <1>5
    <3> DEFINE d == [ev |-> e, snap |-> q, due |-> due]
    <3>2. d \in Coroutines /\ d.snap = q /\ d.due = due
      BY <3>1 DEF Coroutines
    <3> QED
      BY <3>2
  <2>2. pending \in [Threads -> Seq(Coroutines)]
    BY <1>1 DEF TypeOK
  <2>3. pending' = [pending EXCEPT ![t] = Append(pending[t], c)]
    BY <1>8, <2>1
  <2>4. ToSet(pending'[t]) = ToSet(pending[t]) \union {c}
    BY <2>1, <2>2, <2>3, Members
  <2>5. \A u \in Threads : \A d \in ToSet(pending'[u]) :
           d \in ToSet(pending[u]) \/ SnapshotSound(d.snap, d.due)'
    BY <1>6, <2>1, <2>2, <2>3, <2>4
  <2>6. AtPc(t, "claim")' /\ PropagationEnabled => t \notin stopped'[Top(t)'.ev]
    BY <1>2, <1>8 DEF AtPc, Top, DispatchInv, ClaimsClear
  <2> QED
    BY <1>2, <1>8, <2>5, <2>6, StacksStaySound
<1> QED
  BY <1>3, <1>5, <1>7, <1>8

\* A coroutine brings the snapshot of its emission along.
LEMMA AwaitDispatch ==
    ASSUME Inv, DispatchInv, HistoryGrows, NEW t \in Threads, NEW k \in DOMAIN pending[t],
           Await(t, k)
    PROVE  DispatchInv'
<1>1. StackOK /\ pending \in [Threads -> Seq(Coroutines)]
  BY DEF Inv, TypeOK
<1>2. /\ pending[t] \in Seq(Coroutines) /\ k \in 1..Len(pending[t])
      /\ pending[t][k] \in Coroutines /\ pending[t][k] \in ToSet(pending[t])
  BY <1>1, LenProperties, ElementOfSeq DEF ToSet
<1>3. PICK c : c = pending[t][k] /\ c \in Coroutines /\ SnapshotSound(c.snap, c.due)
  BY <1>2 DEF DispatchInv
<1>4. PICK f : /\ f = NewFrame(c.ev, "async", c.snap, c.due)
               /\ FrameOK(f) /\ FrameSound(f) /\ f.pc = "loop"
  BY <1>3, NewFrameOK, NewFrameSound DEF Coroutines
<1>5. /\ Push(t, f) /\ pending' = [pending EXCEPT ![t] = RemoveAt(pending[t], k)]
      /\ UNCHANGED stopped
  BY <1>3, <1>4 DEF Await
<1>6. FrameSound(f)'
  BY <1>4, SoundStays
<1>7. /\ \A u \in Threads \ {t} : stack'[u] = stack[u]
      /\ ToSet(stack'[t]) = ToSet(stack[t]) \union {f}
      /\ Last(stack'[t]) = f
  BY <1>1, <1>4, <1>5, PushShape
<1>8. ~AtPc(t, "claim")'
  BY <1>4, <1>7 DEF AtPc, Top
<1>9. \A u \in Threads : ToSet(pending'[u]) \subseteq ToSet(pending[u])
  <2>1. ToSet(RemoveAt(pending[t], k)) \subseteq ToSet(pending[t])
    BY <1>2, MembersRemoved
  <2> QED
    BY <1>1, <1>5, <2>1
<1> QED
  BY <1>5, <1>6, <1>7, <1>8, <1>9, StacksStaySound

\* Everything else the application does leaves the dispatches as they are.
LEMMA OtherDispatch ==
    ASSUME Inv, DispatchInv, HistoryGrows, NEW t \in Threads,
           UNCHANGED <<stack, pending>>, UNCHANGED stopped \/ StopEvent(t)
    PROVE  DispatchInv'
<1>1. \A u \in Threads \ {t} : \A e \in Events : u \in stopped'[e] => u \in stopped[e]
  BY DEF StopEvent, Inv, TypeOK
<1>2. AtPc(t, "claim")' /\ PropagationEnabled => t \notin stopped'[Top(t)'.ev]
  <2>1. CASE UNCHANGED stopped
    BY <2>1 DEF AtPc, Top, DispatchInv, ClaimsClear
  <2>2. CASE StopEvent(t)
    BY <2>2 DEF StopEvent, AtPc, Top
  <2> QED
    BY <2>1, <2>2
<1> QED
  BY <1>1, <1>2, StacksStaySound

LEMMA DispatchStep ==
    ASSUME Inv, DispatchInv, [Next]_vars
    PROVE  DispatchInv'
<1>1. HistoryGrows
  BY Grows
<1>2. ASSUME NEW t \in Threads, BusStep(t) \/ CallbackEnds(t) PROVE DispatchInv'
  BY <1>1, <1>2, LoopDispatch, EndDispatch DEF BusStep
<1>3. ASSUME NEW t \in Threads, AppCall(t) PROVE DispatchInv'
  <2>1. ASSUME NEW e \in Events, EmitSync(t, e) \/ EmitAsync(t, e) PROVE DispatchInv'
    BY <1>1, <2>1, EmissionDispatch
  <2>2. ASSUME NEW e \in Events, NEW async \in BOOLEAN, Emit(t, e, async) PROVE DispatchInv'
    BY <1>1, <2>2, EmissionDispatch
  <2>3. ASSUME NEW k \in DOMAIN pending[t], Await(t, k) PROVE DispatchInv'
    BY <1>1, <2>3, AwaitDispatch
  <2>4. CASE \/ \E r \in Regs : Register(t, r)
             \/ \E p \in Patterns, func \in Funcs : Unregister(t, p, func)
             \/ \E h \in Handlers : SetErrorHandler(t, h)
             \/ StopEvent(t)
    <3>1. UNCHANGED <<stack, pending>> /\ (UNCHANGED stopped \/ StopEvent(t))
      BY <2>4 DEF Register, Unregister, SetErrorHandler, StopEvent
    <3> QED
      BY <1>1, <3>1, OtherDispatch
  <2> QED
    BY <1>3, <2>1, <2>2, <2>3, <2>4 DEF AppCall
<1>4. CASE UNCHANGED vars
  <2>1. CASE \E t \in Threads : TRUE
    BY <1>1, <1>4, <2>1, OtherDispatch DEF vars
  <2>2. CASE Threads = {}
    BY <2>2 DEF DispatchInv, ClaimsClear
  <2> QED
    BY <2>1, <2>2
<1> QED
  BY <1>2, <1>3, <1>4 DEF Next

\* The inductive invariant of the bus and its dispatches (EventBus).
THEOREM DispatchInvHolds == Spec => [](Inv /\ DispatchInv)
<1>1. Init => Inv /\ DispatchInv
  BY InitInv, DispatchInit
<1>2. Inv /\ DispatchInv /\ [Next]_vars => Inv' /\ DispatchInv'
  BY InvStep, DispatchStep
<1> QED
  BY <1>1, <1>2, PTL DEF Spec

\* What a step, of whatever thread, does to the stack of t: nothing, a move of the
\* innermost dispatch, or its beginning or end, when the one below goes on.
LEMMA StackMoves ==
    ASSUME Inv, [Next]_vars, NEW t \in Threads
    PROVE  \/ stack'[t] = stack[t]
           \/ /\ stack[t] # <<>> /\ FrameOK(Top(t))
              /\ Follows(Top(t), Last(stack'[t]))
           \/ /\ Len(stack'[t]) # Len(stack[t])
              /\ \/ stack'[t] = <<>>
                 \/ Last(stack'[t]).pc \in {"loop", "running"}
                 \/ \E f : f.pc = "running" /\ FrameOK(f) /\ Follows(f, Last(stack'[t]))
<1> DEFINE Goal == \/ stack'[t] = stack[t]
                   \/ /\ stack[t] # <<>> /\ FrameOK(Top(t))
                      /\ Follows(Top(t), Last(stack'[t]))
                   \/ /\ Len(stack'[t]) # Len(stack[t])
                      /\ \/ stack'[t] = <<>>
                         \/ Last(stack'[t]).pc \in {"loop", "running"}
                         \/ \E f : f.pc = "running" /\ FrameOK(f) /\ Follows(f, Last(stack'[t]))
<1> SUFFICES Goal
  OBVIOUS
<1>1. StackOK /\ TypeOK
  BY DEF Inv, TypeOK
<1>2. ASSUME NEW s \in Threads,
             Select(s) \/ Claim(s) \/ CheckHandler(s) \/ CallHandler(s) \/ CallbackEnds(s)
      PROVE  Goal
  <2>1. PICK g : FrameOK(g) /\ Follows(Top(s), g) /\ SetTop(s, g)
    BY <1>2, LoopSteps
  <2>2. stack[s] # <<>> /\ FrameOK(Top(s))
    BY <1>2, LoopSteps
  <2>3. Last(stack'[s]) = g /\ \A u \in Threads \ {s} : stack'[u] = stack[u]
    BY <1>1, <2>1, <2>2, SetTopShape
  <2> QED
    BY <2>1, <2>2, <2>3
<1>3. ASSUME NEW s \in Threads, Complete(s) \/ Leave(s)
      PROVE  Goal
  <2>1. /\ stack[s] # <<>> /\ stack'[s] = Front(stack[s])
        /\ \A u \in Threads \ {s} : stack'[u] = stack[u]
    BY <1>1, <1>3 DEF Complete, Leave, Pops, AtPc, StackOK
  <2>2. stack'[s] = <<>> \/ Last(stack'[s]).pc = "running"
    BY <1>1, <2>1, FrontShape
  <2>3. Len(stack'[s]) # Len(stack[s])
    <3>1. Len(Front(stack[s])) = Len(stack[s]) - 1 /\ Len(stack[s]) \in Nat
      BY <1>1, <2>1, FrontOfStack, TopOfStack
    <3> QED
      BY <2>1, <3>1
  <2> QED
    BY <2>1, <2>2, <2>3
<1>4. ASSUME NEW s \in Threads, LeaveThrough(s)
      PROVE  Goal
  <2>1. PICK f, g : /\ FrameOK(f) /\ Follows(f, g) /\ f.pc = "running"
                    /\ \A u \in Threads \ {s} : stack'[u] = stack[u]
                    /\ Len(stack'[s]) # Len(stack[s]) /\ Last(stack'[s]) = g
    BY <1>1, <1>4, ThroughShape
  <2> QED
    BY <2>1
<1>5. ASSUME NEW s \in Threads, NEW f, FrameOK(f), f.pc = "loop", Push(s, f)
      PROVE  Goal
  <2>1. /\ \A u \in Threads \ {s} : stack'[u] = stack[u]
        /\ Len(stack'[s]) = Len(stack[s]) + 1 /\ Last(stack'[s]) = f
    BY <1>1, <1>5, PushShape
  <2>2. Len(stack'[s]) # Len(stack[s])
    <3>1. Len(stack[s]) \in Nat
      BY <1>1, LenProperties DEF StackOK
    <3> QED
      BY <2>1, <3>1
  <2> QED
    BY <1>5, <2>1, <2>2
<1>6. ASSUME NEW s \in Threads, NEW e \in Events, NEW async \in BOOLEAN,
             EmitSync(s, e) \/ EmitAsync(s, e) \/ Emit(s, e, async)
      PROVE  Goal
  <2>1. PICK q \in Snapshots(e) :
           \/ \E mode \in {"sync", "async"} : Push(s, NewFrame(e, mode, q, Due(e)))
           \/ stack' = stack
    BY <1>6 DEF EmitSync, EmitAsync, Emit
  <2>2. q \in Seq(Regs) /\ Due(e) \in SUBSET Regs
    BY <1>1, SnapshotsAreSequences DEF Due
  <2>3. \A mode \in {"sync", "async"} :
           FrameOK(NewFrame(e, mode, q, Due(e))) /\ NewFrame(e, mode, q, Due(e)).pc = "loop"
    BY <2>2, NewFrameOK DEF NewFrame
  <2> QED
    BY <1>5, <2>1, <2>3
<1>7. ASSUME NEW s \in Threads, NEW k \in DOMAIN pending[s], Await(s, k)
      PROVE  Goal
  <2>1. pending[s][k] \in Coroutines
    BY <1>1, LenProperties, ElementOfSeq DEF TypeOK
  <2>2. PICK c : c = pending[s][k] /\ c \in Coroutines
    BY <2>1
  <2>3. /\ FrameOK(NewFrame(c.ev, "async", c.snap, c.due))
        /\ NewFrame(c.ev, "async", c.snap, c.due).pc = "loop"
    BY <2>2, NewFrameOK DEF NewFrame, Coroutines
  <2>4. Push(s, NewFrame(c.ev, "async", c.snap, c.due))
    BY <1>7, <2>2 DEF Await
  <2> QED
    BY <1>5, <2>3, <2>4
<1>8. ASSUME NEW s \in Threads, AppCall(s) PROVE Goal
  <2>1. CASE \/ \E r \in Regs : Register(s, r)
             \/ \E p \in Patterns, func \in Funcs : Unregister(s, p, func)
             \/ \E h \in Handlers : SetErrorHandler(s, h)
             \/ StopEvent(s)
    BY <2>1 DEF Register, Unregister, SetErrorHandler, StopEvent
  <2> HIDE DEF Goal
  <2> QED
    BY <1>6, <1>7, <1>8, <2>1 DEF AppCall
<1>9. CASE UNCHANGED vars
  BY <1>9 DEF vars
<1> HIDE DEF Goal
<1> QED
  BY <1>2, <1>3, <1>4, <1>8, <1>9 DEF Next, BusStep

-----------------------------------------------------------------------------
(* Theorems.                                                               *)

\* The variables of the bus keep their types and every dispatch stays within its
\* snapshot, with any number of threads and any depth of nesting (EventBus).
THEOREM TypeCorrect == Spec => []TypeOK
<1>1. Inv => TypeOK
  BY DEF Inv
<1> QED
  BY <1>1, InvHolds, PTL

\* The bus's index and the router's two never disagree, whatever the threads
\* register, unregister and claim (EventBus._remove_registration).
THEOREM IndexesAlwaysAgree == Spec => []IndexesAgree
<1>1. Inv => IndexesAgree
  BY DEF Inv, RegistryInv
<1> QED
  BY <1>1, InvHolds, PTL

\* A once-registration is claimed by one dispatch at most, however many threads
\* and nested dispatches hold it in their snapshots (EventBus._claim_once).
THEOREM OnceIsClaimedAtMostOnce == Spec => []OnceAtMostOnce
<1>1. Inv => OnceAtMostOnce
  <2> SUFFICES ASSUME Inv, NEW r \in Once
               PROVE  /\ claims[r] <= 1
                      /\ claims[r] = 1 => /\ ~IsRegistered(r)
                                          /\ ~Contains(exact[TopicOf[r]], r)
                                          /\ ~Contains(wild, r)
    BY DEF OnceAtMostOnce
  <2>1. r \in Regs /\ TopicOf[r] \in Patterns
    BY BusAssumption
  <2>2. claims[r] <= 1 /\ (claims[r] = 1 => ~IsRegistered(r))
    BY <2>1 DEF Inv, RegistryInv
  <2>3. ~IsRegistered(r) => ~Contains(wild, r)
    BY <2>1 DEF Inv, RegistryInv, IndexesAgree
  <2>4. ~IsRegistered(r) => ~Contains(exact[TopicOf[r]], r)
    <3>1. exact[TopicOf[r]] = <<>> \/ exact[TopicOf[r]] = listeners[TopicOf[r]]
      BY <2>1 DEF Inv, RegistryInv, IndexesAgree
    <3>2. ~Contains(<<>>, r)
      BY EmptySeq DEF Contains
    <3> QED
      BY <3>1, <3>2 DEF IsRegistered
  <2> QED
    BY <2>2, <2>3, <2>4
<1> QED
  BY <1>1, InvHolds, PTL

\* A dispatch runs over exactly the registrations that matched when the event was
\* emitted, also if it is awaited after others came and went (EventBus.emit,
\* Router.get_listeners).
THEOREM SnapshotIsAlwaysDue == Spec => []SnapshotIsDue
<1>1. Inv /\ DispatchInv => SnapshotIsDue
  BY DEF DispatchInv, FrameSound, SnapshotSound, SnapshotIsDue, Dispatches
<1> QED
  BY <1>1, DispatchInvHolds, PTL

\* It takes them by priority, and among equals whose topics are both exact or both
\* wildcards the oldest first (Dispatcher.dispatch_order).
THEOREM DispatchIsInOrder == Spec => []DispatchOrder
<1>1. Inv /\ DispatchInv => DispatchOrder
  <2> SUFFICES ASSUME Inv, DispatchInv,
                      NEW f \in Dispatches, NEW m \in DOMAIN f.snap, NEW n \in DOMAIN f.snap,
                      m < n
               PROVE  /\ EnablePriorities => Priority[f.snap[m]] >= Priority[f.snap[n]]
                      /\ /\ SamePriority(f.snap[m], f.snap[n])
                         /\ IsWildcard(TopicOf[f.snap[m]]) <=> IsWildcard(TopicOf[f.snap[n]])
                         => Precedes(registered, f.snap[m], f.snap[n])
    BY DEF DispatchOrder
  <2>1. InOrder(f.snap)
    BY DEF DispatchInv, FrameSound, SnapshotSound, Dispatches
  <2>2. PICK t \in Threads : f \in ToSet(stack[t])
    BY DEF Dispatches
  <2>3. stack[t] \in Seq(Frames)
    BY DEF Inv, TypeOK, StackOK
  <2>4. f \in Frames
    BY <2>2, <2>3, Members
  <2>5. f.snap \in Seq(Regs)
    BY <2>4 DEF Frames
  <2>6. f.snap[m] \in Regs /\ f.snap[n] \in Regs
    BY <2>5, LenProperties, ElementOfSeq
  <2>7. Priority[f.snap[m]] \in Int /\ Priority[f.snap[n]] \in Int
    BY <2>6, BusAssumption
  <2> QED
    BY <2>1, <2>7 DEF InOrder, SamePriority
<1> QED
  BY <1>1, DispatchInvHolds, PTL

\* It leaves none of them out but once-registrations that are gone, however callbacks
\* fail and other threads claim (EventBus._emit_sync, _emit_async).
THEOREM SnapshotIsHonoured == Spec => []SnapshotHonoured
<1>1. Inv /\ DispatchInv => SnapshotHonoured
  BY DEF DispatchInv, FrameSound, Honoured, SnapshotHonoured, Dispatches
<1> QED
  BY <1>1, DispatchInvHolds, PTL

\* A thread starts no callback for an event that one of its callbacks stopped
\* (EventBus._should_stop).
THEOREM StopIsRespected == Spec => StopRespected
<1>1. Inv /\ DispatchInv /\ [Next]_vars =>
         \A t \in Threads :
            StartsCallback(t) /\ PropagationEnabled => t \notin stopped[Top(t).ev]
  <2> SUFFICES ASSUME Inv, DispatchInv, [Next]_vars, NEW t \in Threads,
                      StartsCallback(t), PropagationEnabled
               PROVE  t \notin stopped[Top(t).ev]
    OBVIOUS
  <2>1. stack[t] # <<>> /\ Len(stack'[t]) = Len(stack[t]) /\ Last(stack'[t]).ran # Top(t).ran
    BY DEF StartsCallback
  <2>2. stack'[t] # stack[t]
    BY <2>1 DEF Top
  <2>3. FrameOK(Top(t)) /\ Follows(Top(t), Last(stack'[t]))
    BY <2>1, <2>2, StackMoves
  <2>4. AtPc(t, "claim")
    BY <2>1, <2>3, FollowsSound DEF AtPc
  <2> QED
    BY <2>4 DEF DispatchInv, ClaimsClear
<1> QED
  BY <1>1, DispatchInvHolds, PTL DEF Spec, StopRespected

\* Whatever callbacks raise, a dispatch fails only if its error handler makes it fail,
\* it is a sync dispatch that met an awaitable, or it was cancelled
\* (EventBus._handle_error).
THEOREM FailureIsByPolicy == Spec => FailsOnlyByPolicy
<1>1. Inv /\ [Next]_vars =>
         \A t \in Threads :
            /\ stack'[t] # <<>>
            /\ Last(stack'[t]).pc = "raising"
            /\ stack'[t] # stack[t]
            => \/ Last(stack'[t]).exc = "async" /\ Last(stack'[t]).mode = "sync"
               \/ Last(stack'[t]).exc = "cancel"
               \/ AtPc(t, "calling")
  <2> SUFFICES ASSUME Inv, [Next]_vars, NEW t \in Threads, stack'[t] # <<>>,
                      Last(stack'[t]).pc = "raising", stack'[t] # stack[t]
               PROVE  \/ Last(stack'[t]).exc = "async" /\ Last(stack'[t]).mode = "sync"
                      \/ Last(stack'[t]).exc = "cancel"
                      \/ AtPc(t, "calling")
    OBVIOUS
  <2> DEFINE g == Last(stack'[t])
  <2>1. CASE stack[t] # <<>> /\ FrameOK(Top(t)) /\ Follows(Top(t), g)
    BY <2>1, FollowsSound DEF AtPc
  <2>2. CASE \E f : f.pc = "running" /\ FrameOK(f) /\ Follows(f, g)
    BY <2>2, FollowsSound
  <2> QED
    BY <2>1, <2>2, StackMoves
<1> QED
  BY <1>1, InvHolds, PTL DEF Spec, FailsOnlyByPolicy
=============================================================================
