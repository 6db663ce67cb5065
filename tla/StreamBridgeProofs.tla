-------------------------- MODULE StreamBridgeProofs --------------------------
(***************************************************************************)
(* Proofs about streaming.py for any texts and any number of segments:     *)
(* the cleanup and the cancellation first, then induction over the joined  *)
(* texts, the invariant IInv, and what follows from it; then the stream    *)
(* with its engine, and as its handler sees it.                            *)
(***************************************************************************)
EXTENDS HandledStream, FiniteSetTheorems, SequenceTheorems, WellFoundedInduction, TLAPS

\* on_done releases the slot and deletes the file only once produce() is
\* over, or was cancelled before it began.
THEOREM CleanupIsLate == Spec => []CleanupAfterProducer
<1>1. Init => CleanupAfterProducer
  BY DEF Init, CleanupAfterProducer
<1>2. CleanupAfterProducer /\ [Next]_vars => CleanupAfterProducer'
  <2> SUFFICES ASSUME CleanupAfterProducer, [Next]_vars
               PROVE  CleanupAfterProducer'
    OBVIOUS
  <2> USE DEF CleanupAfterProducer
  <2>1. CASE Produce
    BY <2>1 DEF Produce, ProducerStart, Emit, Finish, OnDone
  <2>2. CASE Put \/ Consume
    BY <2>2 DEF Put, Consume, Take, Suspend, Finally
  <2>3. CASE Respond \/ Collect
    BY <2>3 DEF Respond, Timeout, Sent, Leave, Abort, ShutdownCancels, Collect,
                Finally
  <2>4. CASE UNCHANGED vars
    BY <2>4 DEF vars
  <2> QED
    BY <2>1, <2>2, <2>3, <2>4 DEF Next
<1> QED
  BY <1>1, <1>2, PTL DEF Spec

\* The cancel event is never set while the consumer still wants segments, so
\* a stream that somebody reads is not cut short.
THEOREM CancelIsLate == Spec => []CancelOnlyWhenOver
<1>1. Init => CancelOnlyWhenOver
  BY DEF Init, CancelOnlyWhenOver
<1>2. CancelOnlyWhenOver /\ [Next]_vars => CancelOnlyWhenOver'
  <2> SUFFICES ASSUME CancelOnlyWhenOver, [Next]_vars
               PROVE  CancelOnlyWhenOver'
    OBVIOUS
  <2> USE DEF CancelOnlyWhenOver
  <2>1. CASE Produce \/ Put
    BY <2>1 DEF Produce, Put, ProducerStart, Emit, Finish, OnDone
  <2>2. CASE Consume
    <3>1. ~cancel
      BY <2>2 DEF Consume, Take, Suspend
    <3>2. \/ UNCHANGED cancel
          \/ consumer' = "sending" /\ frame' \in {FullText(Join(parts)), ErrorEvent}
      BY <2>2 DEF Consume, Take, Suspend, Yield
    <3>3. UNCHANGED cancel => ~cancel'
      BY <3>1
    <3>4. ASSUME frame' \in {FullText(Join(parts)), ErrorEvent}
          PROVE  frame'.type \in {"done", "error"}
      BY <3>4 DEF FullText, ErrorEvent
    <3> QED
      BY <3>2, <3>3, <3>4
  <2>3. CASE Sent
    BY <2>3 DEF Sent, After, Yield, Terminator
  <2>4. CASE Timeout \/ Leave \/ Abort \/ ShutdownCancels \/ Collect
    BY <2>4 DEF Timeout, Leave, Abort, ShutdownCancels, Collect, Finally, Yield
  <2>5. CASE UNCHANGED vars
    BY <2>5 DEF vars
  <2> QED
    BY <2>1, <2>2, <2>3, <2>4, <2>5 DEF Next, Respond
<1> QED
  BY <1>1, <1>2, PTL DEF Spec

------------------------------------------------------------------------------
(* Joined is recursive: what it computes for every number of texts follows  *)
(* by induction, in the form of a set of numbers that is all of Nat.        *)

LEMMA LeastElement ==
  ASSUME NEW T \in SUBSET Nat, T # {}
  PROVE  \E x \in T : \A y \in T : x <= y
<1> DEFINE Upto == {0..x : x \in T}
<1>1. Upto \subseteq FiniteSubsetsOf(Nat) /\ Upto # {}
  <2>1. ASSUME NEW x \in T PROVE 0..x \in FiniteSubsetsOf(Nat)
    <3>1. x \in Int /\ 0 \in Int /\ 0..x \subseteq Nat
      OBVIOUS
    <3>2. IsFiniteSet(0..x)
      BY <3>1, FS_Interval
    <3> QED
      BY <3>1, <3>2 DEF FiniteSubsetsOf
  <2> QED
    BY <2>1
<1>2. PICK U \in Upto : \A V \in Upto : ~ (<<V, U>> \in StrictSubsetOrdering(Nat))
  BY <1>1, FS_StrictSubsetOrderingWellFounded, WFMin
<1>3. PICK x \in T : U = 0..x
  OBVIOUS
<1>4. ASSUME NEW y \in T, y < x PROVE FALSE
  <2>1. 0..y \subseteq 0..x /\ 0..y # 0..x
    <3>1. x \in 0..x /\ x \notin 0..y
      BY <1>4
    <3> QED
      BY <1>4, <3>1
  <2>2. 0..y \in Upto /\ 0..x \in SUBSET Nat /\ 0..y \in SUBSET Nat
    OBVIOUS
  <2> QED
    BY <2>1, <2>2, <1>2, <1>3 DEF StrictSubsetOrdering
<1> QED
  BY <1>4

\* Induction on the naturals, with the property as a set.
LEMMA SetInduction ==
  ASSUME NEW S \in SUBSET Nat, 0 \in S, \A n \in S : n + 1 \in S
  PROVE  S = Nat
<1> SUFFICES ASSUME S # Nat PROVE FALSE
  OBVIOUS
<1>1. PICK x \in Nat \ S : \A y \in Nat \ S : x <= y
  BY LeastElement
<1>2. x - 1 \in Nat /\ x - 1 \in S /\ (x - 1) + 1 = x
  BY <1>1
<1> QED
  BY <1>1, <1>2

------------------------------------------------------------------------------
(* sep.join(texts). *)

\* soFar with text number n added.
Plus(soFar, n, sep, text) == soFar \o (IF n = 1 THEN <<>> ELSE sep) \o text

IsJoin(f, sep, texts, k) ==
  f = [n \in 0..k |-> IF n = 0 THEN <<>> ELSE Plus(f[n - 1], n, sep, texts[n])]

LEMMA JoinExists ==
  ASSUME NEW sep, NEW texts, NEW k \in Nat
  PROVE  \E f : IsJoin(f, sep, texts, k)
<1> DEFINE S == {m \in Nat : \E f : IsJoin(f, sep, texts, m)}
<1>1. 0 \in S
  <2>1. IsJoin([n \in 0..0 |-> <<>>], sep, texts, 0)
    BY DEF IsJoin
  <2> QED
    BY <2>1
<1>2. ASSUME NEW m \in S PROVE m + 1 \in S
  <2>1. PICK f : IsJoin(f, sep, texts, m)
    OBVIOUS
  <2> DEFINE g == [n \in 0..(m + 1) |-> IF n = m + 1 THEN Plus(f[m], n, sep, texts[n])
                                                    ELSE f[n]]
  <2>2. ASSUME NEW n \in 0..(m + 1)
        PROVE  g[n] = IF n = 0 THEN <<>> ELSE Plus(g[n - 1], n, sep, texts[n])
    <3>1. CASE n = m + 1
      BY <3>1
    <3>2. CASE n \in 0..m
      <4>1. f[n] = IF n = 0 THEN <<>> ELSE Plus(f[n - 1], n, sep, texts[n])
        BY <2>1, <3>2 DEF IsJoin
      <4>2. n = 0 \/ (n - 1 # m + 1 /\ n - 1 \in 0..(m + 1))
        BY <3>2
      <4> QED
        BY <3>2, <4>1, <4>2
    <3> QED
      BY <3>1, <3>2
  <2> HIDE DEF g
  <2>3. g = [n \in 0..(m + 1) |-> g[n]]
    BY DEF g
  <2>4. IsJoin(g, sep, texts, m + 1)
    BY <2>2, <2>3 DEF IsJoin
  <2> QED
    BY <2>4
<1>3. S = Nat
  <2> S \in SUBSET Nat
    OBVIOUS
  <2> HIDE DEF S
  <2> QED
    BY <1>1, <1>2, SetInduction
<1> QED
  BY <1>3

\* f builds the join of the texts, one text at a time.
Builds(f, sep, texts) ==
  /\ f[0] = <<>>
  /\ \A n \in 1..Len(texts) : f[n] = Plus(f[n - 1], n, sep, texts[n])
  /\ Joined(sep, texts) = f[Len(texts)]

LEMMA JoinedSteps ==
  ASSUME NEW sep, NEW texts, Len(texts) \in Nat
  PROVE  \E f : Builds(f, sep, texts)
<1> DEFINE f == CHOOSE g : IsJoin(g, sep, texts, Len(texts))
<1>1. IsJoin(f, sep, texts, Len(texts))
  BY JoinExists
<1>2. Joined(sep, texts) = f[Len(texts)]
  BY DEF Joined, IsJoin, Plus
<1> HIDE DEF f
<1>3. \A n \in 0..Len(texts) : f[n] = IF n = 0 THEN <<>> ELSE Plus(f[n - 1], n, sep, texts[n])
  BY <1>1 DEF IsJoin
<1>4. Builds(f, sep, texts)
  BY <1>2, <1>3 DEF Builds
<1> QED
  BY <1>4

LEMMA PlusType ==
  ASSUME NEW X, NEW a \in Seq(X), NEW n, NEW sep \in Seq(X), NEW t \in Seq(X)
  PROVE  Plus(a, n, sep, t) \in Seq(X)
<1>1. a \o sep \in Seq(X) /\ a \o <<>> = a
  BY ConcatProperties, ConcatEmptySeq
<1>2. (a \o sep) \o t \in Seq(X) /\ a \o t \in Seq(X)
  BY <1>1, ConcatProperties
<1> QED
  BY <1>1, <1>2 DEF Plus

\* The separator may as well be put in front of the text.
DeltaOf(n, sep, text) == IF n = 1 THEN text ELSE sep \o text

LEMMA PlusDelta ==
  ASSUME NEW X, NEW a \in Seq(X), NEW n, NEW sep \in Seq(X), NEW t \in Seq(X)
  PROVE  Plus(a, n, sep, t) = Plus(a, n, <<>>, DeltaOf(n, sep, t))
<1>1. (a \o sep) \o t = a \o (sep \o t)
  BY ConcatAssociative
<1>2. a \o <<>> = a
  BY ConcatEmptySeq
<1> QED
  BY <1>1, <1>2 DEF Plus, DeltaOf

LEMMA PlusNothing ==
  ASSUME NEW X, NEW a \in Seq(X), NEW n
  PROVE  Plus(a, n, <<>>, <<>>) = a
<1>1. a \o <<>> = a
  BY ConcatEmptySeq
<1> QED
  BY <1>1 DEF Plus

LEMMA JoinedType ==
  ASSUME NEW X, NEW sep \in Seq(X), NEW texts \in Seq(Seq(X))
  PROVE  Joined(sep, texts) \in Seq(X)
<1>1. Len(texts) \in Nat /\ \A i \in 1..Len(texts) : texts[i] \in Seq(X)
  OBVIOUS
<1>2. PICK f : Builds(f, sep, texts)
  BY <1>1, JoinedSteps
<1> DEFINE P(n) == n <= Len(texts) => f[n] \in Seq(X)
           S == {n \in Nat : P(n)}
<1>3. P(0)
  BY <1>2 DEF Builds
<1>4. ASSUME NEW n \in Nat, P(n) PROVE P(n + 1)
  <2> SUFFICES ASSUME n + 1 <= Len(texts) PROVE f[n + 1] \in Seq(X)
    OBVIOUS
  <2>1. f[n] \in Seq(X) /\ texts[n + 1] \in Seq(X) /\ n + 1 \in 1..Len(texts)
        /\ (n + 1) - 1 = n
    BY <1>1, <1>4
  <2>2. f[n + 1] = Plus(f[n], n + 1, sep, texts[n + 1])
    BY <1>2, <2>1 DEF Builds
  <2>3. Plus(f[n], n + 1, sep, texts[n + 1]) \in Seq(X)
    BY <2>1, PlusType, Zenon
  <2> QED
    BY <2>2, <2>3
<1> HIDE DEF P
<1>5. S = Nat
  <2>1. S \in SUBSET Nat /\ 0 \in S /\ \A n \in S : n + 1 \in S
    BY <1>3, <1>4
  <2> HIDE DEF S
  <2> QED
    BY <2>1, SetInduction
<1>6. P(Len(texts))
  BY <1>1, <1>5
<1> QED
  BY <1>1, <1>2, <1>6 DEF P, Builds

\* The separators are in front of all texts but the first, nothing follows.
Separated(d, sep, texts) ==
  /\ Len(texts) <= Len(d)
  /\ \A i \in 1..Len(texts) : d[i] = DeltaOf(i, sep, texts[i])
  /\ \A i \in 1..Len(d) : i > Len(texts) => d[i] = <<>>

\* The client's concatenation of the deltas is the join of the texts.
LEMMA DeltasJoin ==
  ASSUME NEW X, NEW sep \in Seq(X), NEW texts \in Seq(Seq(X)), NEW d,
         Len(d) \in Nat, Separated(d, sep, texts)
  PROVE  Joined(<<>>, d) = Joined(sep, texts)
<1>1. /\ Len(texts) \in Nat /\ \A i \in 1..Len(texts) : texts[i] \in Seq(X)
      /\ Len(texts) <= Len(d)
  BY DEF Separated
<1>2. PICK f : Builds(f, sep, texts)
  BY <1>1, JoinedSteps
<1>3. PICK h : Builds(h, <<>>, d)
  BY <1>1, JoinedSteps
<1>9. \A a, t \in Seq(X), n \in Nat :
        Plus(a, n, sep, t) = Plus(a, n, <<>>, DeltaOf(n, sep, t))
  BY PlusDelta
<1> DEFINE at_(n) == IF n <= Len(texts) THEN n ELSE Len(texts)
           P(n) == n <= Len(d) => h[n] \in Seq(X) /\ h[n] = f[at_(n)]
           S == {n \in Nat : P(n)}
<1>4. P(0)
  BY <1>1, <1>2, <1>3 DEF Builds
<1>5. ASSUME NEW n \in Nat, P(n) PROVE P(n + 1)
  <2> SUFFICES ASSUME n + 1 <= Len(d)
               PROVE  h[n + 1] \in Seq(X) /\ h[n + 1] = f[at_(n + 1)]
    OBVIOUS
  <2>1. h[n] \in Seq(X) /\ h[n] = f[at_(n)] /\ n + 1 \in 1..Len(d) /\ (n + 1) - 1 = n
    BY <1>1, <1>5
  <2>2. h[n + 1] = Plus(h[n], n + 1, <<>>, d[n + 1])
    BY <1>3, <2>1 DEF Builds
  <2>3. CASE n + 1 <= Len(texts)
    <3>1. /\ at_(n) = n /\ at_(n + 1) = n + 1 /\ texts[n + 1] \in Seq(X)
          /\ n + 1 \in 1..Len(texts)
      BY <1>1, <2>3
    <3>2. f[n + 1] = Plus(h[n], n + 1, sep, texts[n + 1])
      BY <1>2, <2>1, <3>1 DEF Builds
    <3>3. d[n + 1] = DeltaOf(n + 1, sep, texts[n + 1])
      BY <3>1 DEF Separated
    <3>4. Plus(h[n], n + 1, sep, texts[n + 1]) \in Seq(X)
      BY <2>1, <3>1, PlusType, Zenon
    <3>5. Plus(h[n], n + 1, sep, texts[n + 1])
            = Plus(h[n], n + 1, <<>>, DeltaOf(n + 1, sep, texts[n + 1]))
      BY <1>9, <2>1, <3>1
    <3> QED
      BY <2>2, <3>1, <3>2, <3>3, <3>4, <3>5
  <2>4. CASE n + 1 > Len(texts)
    <3>1. d[n + 1] = <<>>
      BY <2>1, <2>4 DEF Separated
    <3>2. at_(n) = Len(texts) /\ at_(n + 1) = Len(texts)
      BY <1>1, <2>4
    <3>3. Plus(h[n], n + 1, <<>>, <<>>) = h[n]
      BY <2>1, PlusNothing, Zenon
    <3> QED
      BY <2>1, <2>2, <3>1, <3>2, <3>3
  <2> QED
    BY <1>1, <2>3, <2>4
<1> HIDE DEF P
<1>6. S = Nat
  <2>1. S \in SUBSET Nat /\ 0 \in S /\ \A n \in S : n + 1 \in S
    BY <1>4, <1>5
  <2> HIDE DEF S
  <2> QED
    BY <2>1, SetInduction
<1>7. P(Len(d))
  BY <1>1, <1>6
<1>8. at_(Len(d)) = Len(texts)
  BY <1>1
<1> QED
  BY <1>1, <1>2, <1>3, <1>7, <1>8 DEF P, Builds

------------------------------------------------------------------------------
(* Types. *)

LEMMA FrameTypes ==
  /\ \A t \in Seq(Tokens) : Delta(t) \in Frames /\ FullText(t) \in Frames
  /\ Terminator \in Frames /\ ErrorEvent \in Frames /\ Heartbeat \in Frames
<1>1. <<>> \in Seq(Tokens)
  OBVIOUS
<1> QED
  BY <1>1 DEF Frames, Delta, FullText, Terminator, ErrorEvent, Heartbeat

LEMMA JoinType ==
  ASSUME NEW texts \in Seq(Texts)
  PROVE  Join(texts) \in Seq(Tokens)
<1>1. Texts \subseteq Seq(Tokens) /\ <<Space>> \in Seq(Tokens)
  BY StreamAssumption DEF Tokens
<1>2. texts \in Seq(Seq(Tokens))
  BY <1>1
<1> QED
  BY <1>1, <1>2, JoinedType DEF Join

LEMMA RenderedType ==
  ASSUME TypeOK, NEW t \in Texts
  PROVE  Delta(IF parts = <<>> THEN t ELSE <<Space>> \o t) \in Frames
<1>1. t \in Seq(Tokens) /\ <<Space>> \in Seq(Tokens)
  BY StreamAssumption DEF Tokens
<1>2. <<Space>> \o t \in Seq(Tokens)
  BY <1>1, ConcatProperties
<1> QED
  BY <1>1, <1>2, FrameTypes

THEOREM TypeCorrect == Spec => []TypeOK
<1>1. Init => TypeOK
  <2>1. Heartbeat \in Frames
    BY FrameTypes
  <2>2. \A S : <<>> \in Seq(S)
    OBVIOUS
  <2> QED
    BY <2>1, <2>2 DEF Init, TypeOK
<1>2. TypeOK /\ [Next]_vars => TypeOK'
  <2> SUFFICES ASSUME TypeOK, [Next]_vars PROVE TypeOK'
    OBVIOUS
  <2> USE DEF TypeOK
  <2>1. CASE ProducerStart \/ OnDone \/ ShutdownCancels
    BY <2>1 DEF ProducerStart, OnDone, ShutdownCancels
  <2>9. CASE Finish
    <3>1. Done \in Messages /\ Error \in Messages
      BY DEF Messages
    <3>2. PICK m \in {Done, Error} : posted' = Append(posted, m)
      BY <2>9 DEF Finish, Post
    <3>3. posted' \in Seq(Messages)
      BY <3>1, <3>2
    <3> QED
      BY <2>9, <3>3 DEF Finish
  <2>2. ASSUME NEW t \in Texts, Emit(t) PROVE TypeOK'
    <3>1. Segment(t) \in Messages
      BY DEF Messages
    <3> QED
      BY <2>2, <3>1 DEF Emit, Post
  <2>3. CASE Put
    <3>1. Head(posted) \in Messages /\ Tail(posted) \in Seq(Messages)
      BY <2>3 DEF Put
    <3> QED
      BY <2>3, <3>1 DEF Put
  <2>4. CASE Take
    <3> DEFINE m == Head(queue)
    <3>1. m \in Messages /\ Tail(queue) \in Seq(Messages)
      BY <2>4 DEF Take
    <3>2. CASE m.kind = "segment" /\ Render(m.text) /\ UNCHANGED <<cancel, cleaned>>
      <4>1. m.text \in Texts
        BY <3>1, <3>2 DEF Messages, Segment, Done, Error
      <4>2. Delta(IF parts = <<>> THEN m.text ELSE <<Space>> \o m.text) \in Frames
        BY <4>1, RenderedType
      <4> HIDE DEF m
      <4> QED
        BY <2>4, <3>1, <3>2, <4>1, <4>2 DEF Take, Render, Yield, m
    <3>3. CASE m.kind = "done" /\ Yield(FullText(Join(parts))) /\ Finally /\ UNCHANGED parts
      <4>1. FullText(Join(parts)) \in Frames
        BY JoinType, FrameTypes
      <4> QED
        BY <2>4, <3>1, <3>3, <4>1 DEF Take, Yield, Finally
    <3>4. CASE m.kind = "error" /\ Yield(ErrorEvent) /\ Finally /\ UNCHANGED parts
      BY <2>4, <3>1, <3>4, FrameTypes DEF Take, Yield, Finally
    <3> QED
      BY <2>4, <3>2, <3>3, <3>4 DEF Take
  <2>5. CASE Sent
    BY <2>5, FrameTypes DEF Sent, After, Yield
  <2>6. CASE Suspend \/ Timeout
    BY <2>6, FrameTypes DEF Suspend, Timeout, Yield
  <2>7. CASE Leave \/ Abort \/ Collect
    BY <2>7 DEF Leave, Abort, Collect, Finally
  <2>8. CASE UNCHANGED vars
    BY <2>8 DEF vars
  <2> QED
    BY <2>1, <2>2, <2>3, <2>4, <2>5, <2>6, <2>7, <2>8, <2>9
       DEF Next, Produce, Consume, Respond
<1> QED
  BY <1>1, <1>2, PTL DEF Spec

------------------------------------------------------------------------------
(* Between the thread and the generators. *)

LEMMA OnePosted ==
  ASSUME TypeOK, NEW m \in Messages, posted' = Append(posted, m), queue' = queue
  PROVE  /\ Coming' = Coming + 1
         /\ \A i \in 1..Coming : Underway(i)' = Underway(i)
         /\ \A i : i = Coming + 1 => Underway(i)' = m
<1>1. Len(posted) \in Nat /\ Len(queue) \in Nat /\ Len(posted') = Len(posted) + 1
  BY DEF TypeOK
<1>2. \A i \in 1..Len(posted) : posted'[i] = posted[i]
  BY DEF TypeOK
<1>3. posted'[Len(posted) + 1] = m
  BY DEF TypeOK
<1>4. ASSUME NEW i \in 1..Coming PROVE Underway(i)' = Underway(i)
  <2>1. i - Len(queue) \in 1..Len(posted) \/ i <= Len(queue)
    BY <1>1 DEF Coming
  <2> QED
    BY <1>1, <1>2, <2>1 DEF Underway
<1>5. ASSUME NEW i, i = Coming + 1 PROVE Underway(i)' = m
  <2>1. ~(i <= Len(queue')) /\ i - Len(queue') = Len(posted) + 1
    BY <1>1, <1>5 DEF Coming
  <2> QED
    BY <1>1, <1>3, <2>1 DEF Underway
<1> QED
  BY <1>1, <1>4, <1>5 DEF Coming

LEMMA OnePut ==
  ASSUME TypeOK, posted # <<>>, queue' = Append(queue, Head(posted)), posted' = Tail(posted)
  PROVE  /\ Coming' = Coming
         /\ \A i \in 1..Coming : Underway(i)' = Underway(i)
<1>1. /\ Len(posted) \in Nat \ {0} /\ Len(queue) \in Nat
      /\ Len(posted') = Len(posted) - 1 /\ Len(queue') = Len(queue) + 1
  BY DEF TypeOK
<1>2. \A i \in 1..(Len(posted) - 1) : posted'[i] = posted[i + 1]
  BY DEF TypeOK
<1>3. /\ \A i \in 1..Len(queue) : queue'[i] = queue[i]
      /\ queue'[Len(queue) + 1] = posted[1]
  BY DEF TypeOK
<1>4. ASSUME NEW i \in 1..Coming PROVE Underway(i)' = Underway(i)
  <2>1. CASE i <= Len(queue)
    BY <1>1, <1>3, <2>1 DEF Coming, Underway
  <2>2. CASE i = Len(queue) + 1
    BY <1>1, <1>3, <2>2 DEF Coming, Underway
  <2>3. CASE i > Len(queue) + 1
    BY <1>1, <1>2, <2>3 DEF Coming, Underway
  <2> QED
    BY <1>1, <2>1, <2>2, <2>3 DEF Coming
<1> QED
  BY <1>1, <1>4 DEF Coming

LEMMA OneTaken ==
  ASSUME TypeOK, queue # <<>>, queue' = Tail(queue), posted' = posted
  PROVE  /\ Coming \in Nat \ {0} /\ Coming' = Coming - 1
         /\ Head(queue) = Underway(1)
         /\ \A i \in 1..(Coming - 1) : Underway(i)' = Underway(i + 1)
<1>1. Len(posted) \in Nat /\ Len(queue) \in Nat \ {0} /\ Len(queue') = Len(queue) - 1
  BY DEF TypeOK
<1>2. Head(queue) = queue[1] /\ \A i \in 1..(Len(queue) - 1) : queue'[i] = queue[i + 1]
  BY DEF TypeOK
<1> QED
  BY <1>1, <1>2 DEF Coming, Underway

LEMMA Kinds ==
  /\ \A t : Segment(t).kind = "segment" /\ Segment(t).text = t
  /\ Done.kind = "done" /\ Error.kind = "error"
BY DEF Segment, Done, Error

\* The next message is the next segment, or the end when all were taken.
LEMMA NextMessage ==
  ASSUME TypeOK, InTransit, queue # <<>>
  PROVE  /\ ~EndTaken
         /\ \/ /\ Len(parts) < Len(produced)
               /\ Head(queue) = Segment(produced[Len(parts) + 1])
            \/ /\ Len(parts) = Len(produced) /\ Coming = 1
               /\ \/ producer = "done" /\ Head(queue) = Done
                  \/ producer = "error" /\ Head(queue) = Error
<1>1. Coming \in Nat \ {0} /\ Head(queue) = Underway(1)
  <2>1. Len(queue) \in Nat \ {0} /\ Len(posted) \in Nat /\ Head(queue) = queue[1]
    BY DEF TypeOK
  <2> QED
    BY <2>1 DEF Coming, Underway
<1>2. ~EndTaken
  BY <1>1 DEF EndTaken
<1>3. Len(parts) \in Nat /\ Len(produced) \in Nat /\ Head(queue) = Message(Len(parts) + 1)
  BY <1>1 DEF TypeOK, InTransit
<1>4. CASE Len(parts) < Len(produced)
  BY <1>2, <1>3, <1>4 DEF Message
<1>5. CASE Len(parts) >= Len(produced)
  <2>1. Len(parts) = Len(produced) /\ Coming = 1 /\ ProducerEnded
    BY <1>1, <1>2, <1>3, <1>5 DEF InTransit
  <2> QED
    BY <1>2, <1>3, <2>1 DEF Message, ProducerEnded
<1> QED
  BY <1>3, <1>4, <1>5

LEMMA TransitStarts == Init => InTransit
<1> SUFFICES ASSUME Init PROVE InTransit
  OBVIOUS
<1> QED
  BY DEF Init, InTransit, Coming, ProducerEnded, EndTaken

\* A new message, the next segment or the end of the producer.
LEMMA TransitPosted ==
  ASSUME TypeOK, InTransit, producer = "running", UNCHANGED <<parts, queue>>,
         NEW m \in Messages, posted' = Append(posted, m), produced' \in Seq(Texts),
         \A i \in 1..Len(produced) : produced'[i] = produced[i],
         \/ /\ producer' = "running" /\ Len(produced') = Len(produced) + 1
            /\ m = Segment(produced'[Len(produced')])
         \/ produced' = produced /\ producer' = "done" /\ m = Done
         \/ produced' = produced /\ producer' = "error" /\ m = Error
  PROVE  InTransit'
<1>1. /\ Coming \in Nat /\ Coming' = Coming + 1
      /\ \A i \in 1..Coming : Underway(i)' = Underway(i)
      /\ \A i : i = Coming + 1 => Underway(i)' = m
  BY OnePosted DEF TypeOK, Coming
<1>2. Len(parts) \in Nat /\ Len(produced) \in Nat /\ Len(produced') \in Nat
  BY DEF TypeOK
<1>3. /\ Len(parts) + Coming = Len(produced) /\ Len(parts) <= Len(produced)
      /\ \A i \in 1..Len(parts) : parts[i] = produced[i]
      /\ \A i \in 1..Coming : Underway(i) = Message(Len(parts) + i)
  BY <1>1, <1>2 DEF InTransit, ProducerEnded
<1>4. \A j \in 1..Len(produced) : Message(j)' = Message(j)
  BY <1>2 DEF Message
<1>5. ASSUME NEW j, j = Len(produced) + 1 PROVE Message(j)' = m
  BY <1>2, <1>5 DEF Message
<1>6. ASSUME NEW i \in 1..(Coming + 1) PROVE Underway(i)' = Message(Len(parts) + i)'
  <2>1. CASE i <= Coming
    <3>1. i \in 1..Coming /\ Len(parts) + i \in 1..Len(produced)
      BY <1>1, <1>2, <1>3, <2>1
    <3> QED
      BY <1>1, <1>3, <1>4, <3>1
  <2>2. CASE i = Coming + 1
    <3>1. Len(parts) + i = Len(produced) + 1
      BY <1>1, <1>2, <1>3, <2>2
    <3> QED
      BY <1>1, <1>5, <2>2, <3>1
  <2> QED
    BY <1>1, <2>1, <2>2
<1>7. ~EndTaken' /\ (ProducerEnded' <=> producer' \in {"done", "error"})
  BY <1>1 DEF EndTaken, ProducerEnded
<1>8. Len(parts') + Coming' = Len(produced') + (IF ProducerEnded' /\ ~EndTaken' THEN 1 ELSE 0)
  BY <1>1, <1>2, <1>3, <1>7
<1>9. Len(parts') <= Len(produced') /\ \A i \in 1..Len(parts') : parts'[i] = produced'[i]
  BY <1>2, <1>3
<1> QED
  BY <1>1, <1>6, <1>8, <1>9 DEF InTransit

LEMMA TransitTaken ==
  ASSUME TypeOK, InTransit, Take
  PROVE  InTransit'
<1> DEFINE m == Head(queue)
<1>1. /\ Coming \in Nat \ {0} /\ Coming' = Coming - 1
      /\ \A i \in 1..(Coming - 1) : Underway(i)' = Underway(i + 1)
  BY OneTaken DEF Take
<1>2. Len(parts) \in Nat /\ Len(produced) \in Nat
  BY DEF TypeOK
<1>3. UNCHANGED <<producer, produced>>
  BY DEF Take
<1>4. \A i : Message(i)' = Message(i)
  BY <1>3 DEF Message
<1>5. CASE Len(parts) < Len(produced) /\ m = Segment(produced[Len(parts) + 1])
  <2>1. parts' = Append(parts, produced[Len(parts) + 1])
    BY <1>5, Kinds DEF Take, Render
  <2>2. produced[Len(parts) + 1] \in Texts
    BY <1>2, <1>5 DEF TypeOK
  <2>3. /\ Len(parts') = Len(parts) + 1
        /\ \A i \in 1..Len(parts') : parts'[i] = produced[i]
    BY <1>2, <2>1, <2>2 DEF TypeOK, InTransit
  <2>4. ASSUME NEW i \in 1..(Coming - 1) PROVE Underway(i)' = Message(Len(parts) + i)'
    <3>1. i + 1 \in 1..Coming /\ Len(parts) + (i + 1) = Len(parts') + i
      <4>1. Coming \in Nat /\ Len(parts) \in Nat /\ Len(parts') = Len(parts) + 1
        BY <1>1, <1>2, <2>3
      <4>2. i \in Nat /\ 1 <= i /\ i <= Coming - 1
        BY <4>1
      <4> QED
        BY <4>1, <4>2
    <3>2. Underway(i + 1) = Message(Len(parts) + (i + 1))
      BY <3>1 DEF InTransit
    <3>3. Underway(i)' = Underway(i + 1)
      BY <1>1
    <3>4. Message(Len(parts') + i) = Message(Len(parts) + i)'
      BY <1>4
    <3> QED
      BY <3>1, <3>2, <3>3, <3>4
  <2>5. ~EndTaken'
    BY <1>1, <1>2, <1>3, <1>5 DEF InTransit, EndTaken, ProducerEnded
  <2>6. ~EndTaken
    BY <1>1 DEF EndTaken
  <2>7. Len(parts') + Coming' = Len(produced') + (IF ProducerEnded' /\ ~EndTaken' THEN 1 ELSE 0)
    BY <1>1, <1>2, <1>3, <2>3, <2>5, <2>6 DEF InTransit, ProducerEnded
  <2> QED
    BY <1>1, <1>2, <1>3, <1>5, <2>3, <2>4, <2>7 DEF InTransit
<1>6. CASE /\ Len(parts) = Len(produced) /\ Coming = 1
           /\ \/ producer = "done" /\ m = Done
              \/ producer = "error" /\ m = Error
  <2>1. parts' = parts
    BY <1>6, Kinds DEF Take
  <2>2. EndTaken'
    BY <1>1, <1>3, <1>6 DEF EndTaken, ProducerEnded
  <2> QED
    BY <1>1, <1>2, <1>3, <1>6, <2>1, <2>2 DEF InTransit
<1> QED
  BY <1>5, <1>6, NextMessage DEF Take

LEMMA TransitStep == TypeOK /\ TypeOK' /\ InTransit /\ [Next]_vars => InTransit'
<1> SUFFICES ASSUME TypeOK, TypeOK', InTransit, [Next]_vars PROVE InTransit'
  OBVIOUS
<1>1. CASE UNCHANGED <<produced, posted, queue, parts>> /\ UNCHANGED producer
  BY <1>1 DEF InTransit, Coming, Underway, Message, ProducerEnded, EndTaken
<1>2. CASE UNCHANGED <<produced, posted, queue, parts>> /\ ~ProducerEnded /\ ~ProducerEnded'
  <2>1. \A i \in 1..Coming : Message(Len(parts) + i)' = Message(Len(parts) + i)
    BY <1>2 DEF InTransit, TypeOK, Message, Coming, ProducerEnded
  <2> QED
    BY <1>2, <2>1 DEF InTransit, Coming, Underway, EndTaken
<1>3. ASSUME NEW t \in Texts, Emit(t) PROVE InTransit'
  <2>1. Segment(t) \in Messages /\ Len(produced') = Len(produced) + 1
        /\ produced'[Len(produced')] = t
        /\ \A i \in 1..Len(produced) : produced'[i] = produced[i]
    BY <1>3 DEF Emit, TypeOK, Messages
  <2> QED
    BY <1>3, <2>1, TransitPosted DEF Emit, Post, TypeOK
<1>4. CASE Finish
  <2>1. Done \in Messages /\ Error \in Messages
    BY DEF Messages
  <2> QED
    BY <1>4, <2>1, TransitPosted DEF Finish, Post, TypeOK
<1>5. CASE Put
  <2>1. /\ Coming' = Coming /\ \A i \in 1..Coming : Underway(i)' = Underway(i)
        /\ UNCHANGED <<producer, produced, parts>>
    BY <1>5, OnePut DEF Put
  <2> QED
    BY <2>1 DEF InTransit, Message, ProducerEnded, EndTaken
<1>6. CASE Take
  BY <1>6, TransitTaken
<1>7. CASE ProducerStart \/ ShutdownCancels
  BY <1>2, <1>7 DEF ProducerStart, ShutdownCancels, ProducerEnded
<1>8. CASE OnDone \/ Suspend \/ Timeout \/ Sent \/ Leave \/ Abort \/ Collect
  BY <1>1, <1>8 DEF OnDone, Suspend, Timeout, Sent, Leave, Abort, Collect
<1>9. CASE UNCHANGED vars
  BY <1>1, <1>9 DEF vars
<1> QED
  BY <1>3, <1>4, <1>5, <1>6, <1>7, <1>8, <1>9 DEF Next, Produce, Consume, Respond

------------------------------------------------------------------------------
(* The frames. *)

LEMMA FrameKinds ==
  /\ \A t : Delta(t).type = "delta" /\ FullText(t).type = "done"
  /\ \A t : Delta(t).text = t /\ FullText(t).text = t
  /\ Terminator.type = "[DONE]" /\ ErrorEvent.type = "error" /\ Heartbeat.type = "heartbeat"
BY DEF Delta, FullText, Terminator, ErrorEvent, Heartbeat

\* What frame number i is.
LEMMA ScriptCases ==
  ASSUME TypeOK, NEW i \in Nat
  PROVE  /\ i <= Len(parts) => Script(i) = Delta(Rendered(i))
         /\ i > Len(parts) /\ producer = "error" => Script(i) = ErrorEvent
         /\ i = Len(parts) + 1 /\ producer # "error" => Script(i) = FullText(Join(parts))
         /\ i > Len(parts) + 1 /\ producer # "error" => Script(i) = Terminator
<1>1. Len(parts) \in Nat
  BY DEF TypeOK
<1> QED
  BY <1>1 DEF Script

LEMMA ScriptTypes ==
  ASSUME TypeOK, NEW i \in Nat
  PROVE  /\ Script(i) # Heartbeat
         /\ Script(i).type = "delta" <=> i <= Len(parts)
         /\ Script(i).type = "done" <=> i = Len(parts) + 1 /\ producer # "error"
         /\ Script(i).type = "error" <=> i > Len(parts) /\ producer = "error"
         /\ Script(i).type = "[DONE]" <=> i > Len(parts) + 1 /\ producer # "error"
<1>1. Len(parts) \in Nat
  BY DEF TypeOK
<1> HIDE DEF Script
<1>2. CASE i <= Len(parts)
  BY <1>1, <1>2, ScriptCases, FrameKinds
<1>3. CASE i > Len(parts) /\ producer = "error"
  BY <1>1, <1>3, ScriptCases, FrameKinds
<1>4. CASE i = Len(parts) + 1 /\ producer # "error"
  BY <1>1, <1>4, ScriptCases, FrameKinds
<1>5. CASE i > Len(parts) + 1 /\ producer # "error"
  BY <1>1, <1>5, ScriptCases, FrameKinds
<1> QED
  BY <1>1, <1>2, <1>3, <1>4, <1>5

LEMMA ScriptStarts == Init => OnScript
BY DEF Init, OnScript, EndTaken, ProducerEnded

\* A step that leaves the frames alone and takes no message.
LEMMA ScriptKept ==
  ASSUME TypeOK, TypeOK', OnScript, UNCHANGED <<parts, sent>>,
         EndTaken' <=> EndTaken, EndTaken => UNCHANGED producer,
         \/ UNCHANGED <<frame, consumer>> /\ (client = "gone" => client' = "gone")
         \/ consumer \in {"getting", "waiting"} /\ consumer' \in {"getting", "waiting"}
         \/ consumer' = "sending" /\ frame' = Heartbeat /\ consumer \in {"getting", "waiting"}
         \/ consumer' \in {"dropped", "closed"} /\ client' = "gone"
         \/ /\ consumer \in {"dropped", "closed"} /\ consumer' \in {"dropped", "closed"}
            /\ client = "gone" => client' = "gone"
  PROVE  OnScript'
<1>1. Len(parts) \in Nat /\ Len(sent) \in Nat /\ Len(parts') = Len(parts) /\ Len(sent') = Len(sent)
  BY DEF TypeOK
<1>2. \A i \in 1..Len(parts) : Rendered(i)' = Rendered(i)
  BY DEF Rendered
<1>3. Join(parts)' = Join(parts)
  BY DEF Join
<1>4. ASSUME NEW i \in Nat, i <= Len(parts) \/ EndTaken PROVE Script(i)' = Script(i)
  <2>1. CASE i <= Len(parts)
    BY <1>1, <2>1 DEF Script, Rendered
  <2>2. CASE i > Len(parts) /\ EndTaken
    BY <1>1, <1>3, <2>2 DEF Script
  <2> QED
    BY <1>1, <1>4, <2>1, <2>2
<1>5. EndTaken => EndFrames' = EndFrames
  BY DEF EndFrames
<1>6. EndFrames \in {1, 2}
  BY DEF EndFrames
<1>7. /\ \A i \in 1..Len(sent') : sent'[i] = Script(i)'
      /\ Len(sent') <= Len(parts') + (IF EndTaken' THEN EndFrames' ELSE 0)
  BY <1>1, <1>4, <1>5, <1>6 DEF OnScript
<1>8. consumer' \in {"getting", "waiting"} => Len(sent') = Len(parts') /\ ~EndTaken'
  BY <1>1 DEF OnScript, TypeOK
<1>9. consumer' = "sending" =>
        \/ frame' = Heartbeat /\ Len(sent') = Len(parts') /\ ~EndTaken'
        \/ /\ \A i : i = Len(sent) + 1 => frame' = Script(i)'
           /\ IF EndTaken' THEN Len(sent') \in Len(parts')..(Len(parts') + EndFrames' - 1)
                           ELSE Len(sent') = Len(parts') - 1
  <2> SUFFICES ASSUME consumer' = "sending", ~(frame' = Heartbeat /\ Len(sent') = Len(parts') /\ ~EndTaken')
               PROVE  /\ \A i : i = Len(sent) + 1 => frame' = Script(i)'
                      /\ IF EndTaken' THEN Len(sent') \in Len(parts')..(Len(parts') + EndFrames' - 1)
                                      ELSE Len(sent') = Len(parts') - 1
    OBVIOUS
  <2>1. UNCHANGED <<frame, consumer>> /\ consumer = "sending"
    BY <1>1 DEF OnScript
  <2>2. /\ frame = Script(Len(sent) + 1)
        /\ IF EndTaken THEN Len(sent) \in Len(parts)..(Len(parts) + EndFrames - 1)
                       ELSE Len(sent) = Len(parts) - 1
    BY <1>1, <2>1 DEF OnScript
  <2>3. Len(sent) + 1 \in Nat /\ (Len(sent) + 1 <= Len(parts) \/ EndTaken)
    BY <1>1, <2>2
  <2> QED
    BY <1>1, <1>4, <1>5, <2>1, <2>2, <2>3
<1>10. consumer' \in {"dropped", "closed"} =>
         client' = "gone" \/ (EndTaken' /\ Len(sent') = Len(parts') + EndFrames')
  BY <1>1, <1>5 DEF OnScript
<1> QED
  BY <1>1, <1>7, <1>8, <1>9, <1>10 DEF OnScript

LEMMA ScriptTaken ==
  ASSUME TypeOK, TypeOK', InTransit, OnScript, Take
  PROVE  OnScript'
<1> DEFINE m == Head(queue)
<1>1. Len(parts) \in Nat /\ Len(sent) = Len(parts) /\ ~EndTaken /\ UNCHANGED <<sent, producer>>
  BY DEF TypeOK, OnScript, Take
<1>2. \A i \in 1..Len(sent) : sent[i] = Script(i)
  BY DEF OnScript
<1>3. consumer' = "sending"
  BY DEF Take, Render, Yield
<1>4. /\ Coming \in Nat \ {0} /\ Coming' = Coming - 1
  BY OneTaken DEF Take
<1>5. CASE Len(parts) < Len(produced) /\ m = Segment(produced[Len(parts) + 1])
  <2> DEFINE t == produced[Len(parts) + 1]
  <2>1. parts' = Append(parts, t) /\ frame' = Delta(IF parts = <<>> THEN t ELSE <<Space>> \o t)
    BY <1>5, Kinds DEF Take, Render, Yield
  <2>2. t \in Texts
    BY <1>1, <1>5 DEF TypeOK
  <2>3. /\ Len(parts') = Len(parts) + 1 /\ parts'[Len(parts) + 1] = t
        /\ \A i \in 1..Len(parts) : parts'[i] = parts[i]
    BY <2>1, <2>2 DEF TypeOK
  <2>4. \A i \in 1..Len(parts) : Script(i)' = Script(i)
    BY <1>1, <2>3 DEF Script, Rendered
  <2>5. ASSUME NEW i, i = Len(parts) + 1 PROVE Script(i)' = frame'
    <3>1. Script(i)' = Delta(Rendered(i)')
      BY <1>1, <2>3, <2>5 DEF Script
    <3>2. Rendered(i)' = IF parts = <<>> THEN t ELSE <<Space>> \o t
      BY <1>1, <2>3, <2>5 DEF Rendered, TypeOK
    <3> QED
      BY <2>1, <3>1, <3>2
  <2>6. ~EndTaken'
    BY <1>1, <1>4, <1>5 DEF InTransit, EndTaken, ProducerEnded
  <2> HIDE DEF t
  <2>7. frame' = Script(Len(sent) + 1)'
    BY <1>1, <2>5
  <2>8. \A i \in 1..Len(sent') : sent'[i] = Script(i)'
    BY <1>1, <1>2, <2>4
  <2> QED
    BY <1>1, <1>3, <2>3, <2>6, <2>7, <2>8 DEF OnScript
<1>6. CASE /\ Len(parts) = Len(produced) /\ Coming = 1
           /\ \/ producer = "done" /\ m = Done
              \/ producer = "error" /\ m = Error
  <2>1. parts' = parts
        /\ frame' = IF producer = "error" THEN ErrorEvent ELSE FullText(Join(parts))
    BY <1>6, Kinds DEF Take, Yield
  <2>2. EndTaken' /\ EndFrames' \in {1, 2}
    BY <1>1, <1>4, <1>6 DEF EndTaken, ProducerEnded, EndFrames
  <2>3. \A i \in 1..Len(parts) : Script(i)' = Script(i)
    BY <1>1, <2>1 DEF Script, Rendered
  <2>4. ASSUME NEW i, i = Len(parts) + 1 PROVE Script(i)' = frame'
    <3>1. Join(parts)' = Join(parts)
      BY <2>1 DEF Join
    <3> QED
      BY <1>1, <2>1, <2>4, <3>1 DEF Script
  <2>5. frame' = Script(Len(sent) + 1)'
    BY <1>1, <2>4
  <2>6. \A i \in 1..Len(sent') : sent'[i] = Script(i)'
    BY <1>1, <1>2, <2>3
  <2> QED
    BY <1>1, <1>3, <2>1, <2>2, <2>5, <2>6 DEF OnScript
<1> QED
  BY <1>5, <1>6, NextMessage DEF Take

LEMMA ScriptSent ==
  ASSUME TypeOK, TypeOK', OnScript, Sent
  PROVE  OnScript'
<1>1. Len(parts) \in Nat /\ Len(sent) \in Nat
      /\ UNCHANGED <<producer, produced, posted, queue, parts>>
  BY DEF TypeOK, Sent
<1>2. /\ EndTaken' <=> EndTaken
      /\ EndFrames' = EndFrames /\ EndFrames \in {1, 2}
      /\ \A i : Script(i)' = Script(i)
  BY <1>1 DEF EndTaken, ProducerEnded, Coming, EndFrames, Script, Rendered, Join
<1>3. CASE frame = Heartbeat
  <2>1. sent' = sent /\ consumer' = "getting"
    BY <1>3, FrameKinds DEF Sent, After
  <2>2. Len(sent) = Len(parts) /\ ~EndTaken
    <3>1. consumer = "sending" /\ Len(sent) + 1 \in Nat
      BY <1>1 DEF Sent
    <3>2. Script(Len(sent) + 1) # Heartbeat
      BY <3>1, ScriptTypes
    <3> QED
      BY <1>3, <3>1, <3>2 DEF OnScript
  <2> QED
    BY <1>1, <1>2, <2>1, <2>2 DEF OnScript
<1>4. CASE frame # Heartbeat
  <2> DEFINE k == Len(sent) + 1
  <2>1. /\ frame = Script(k)
        /\ IF EndTaken THEN Len(sent) \in Len(parts)..(Len(parts) + EndFrames - 1)
                       ELSE Len(sent) = Len(parts) - 1
    BY <1>4 DEF OnScript, Sent
  <2>2. /\ sent' = Append(sent, frame) /\ Len(sent') = k /\ sent'[k] = frame
        /\ \A i \in 1..Len(sent) : sent'[i] = sent[i]
    BY <1>4 DEF Sent, TypeOK
  <2>3. k \in Nat /\ k = Len(sent) + 1
    BY <1>1
  <2> HIDE DEF k
  <2>4. \A i \in 1..Len(sent') : sent'[i] = Script(i)'
    BY <1>1, <1>2, <2>1, <2>2, <2>3 DEF OnScript
  <2>5. CASE ~EndTaken
    <3>1. k = Len(parts)
      BY <1>1, <2>1, <2>3, <2>5
    <3>2. frame.type = "delta"
      BY <2>1, <2>3, <3>1, ScriptTypes
    <3>3. consumer' = "getting"
      BY <3>2 DEF Sent, After, Yield
    <3> QED
      BY <1>1, <1>2, <2>2, <2>4, <2>5, <3>1, <3>3 DEF OnScript
  <2>6. CASE EndTaken /\ producer = "error"
    <3>1. k = Len(parts) + 1 /\ EndFrames = 1
      BY <1>1, <2>1, <2>3, <2>6 DEF EndFrames
    <3>2. frame.type = "error"
      BY <1>1, <2>1, <2>3, <2>6, <3>1, ScriptTypes
    <3>3. consumer' = "closed"
      BY <3>2 DEF Sent, After, Yield
    <3> QED
      BY <1>1, <1>2, <2>2, <2>4, <2>6, <3>1, <3>3 DEF OnScript
  <2>7. CASE EndTaken /\ producer # "error" /\ k = Len(parts) + 1
    <3>1. EndFrames = 2
      BY <2>7 DEF EndFrames
    <3>2. frame.type = "done"
      BY <1>1, <2>1, <2>3, <2>7, ScriptTypes
    <3>3. consumer' = "sending" /\ frame' = Terminator
      BY <3>2 DEF Sent, After, Yield
    <3>4. Script(k + 1) = Terminator
      BY <1>1, <2>3, <2>7, ScriptCases
    <3>5. frame' = Script(Len(sent') + 1)
      BY <2>2, <3>3, <3>4
    <3> QED
      BY <1>1, <1>2, <2>2, <2>4, <2>7, <3>1, <3>3, <3>5 DEF OnScript
  <2>8. CASE EndTaken /\ producer # "error" /\ k # Len(parts) + 1
    <3>1. k = Len(parts) + 2 /\ EndFrames = 2
      BY <1>1, <2>1, <2>3, <2>8 DEF EndFrames
    <3>2. frame.type = "[DONE]"
      BY <1>1, <2>1, <2>3, <2>8, <3>1, ScriptTypes
    <3>3. consumer' = "closed"
      BY <3>2 DEF Sent, After, Yield
    <3> QED
      BY <1>1, <1>2, <2>2, <2>4, <2>8, <3>1, <3>3 DEF OnScript
  <2> QED
    BY <2>5, <2>6, <2>7, <2>8
<1> QED
  BY <1>3, <1>4

LEMMA ScriptStep ==
  TypeOK /\ TypeOK' /\ InTransit /\ OnScript /\ [Next]_vars => OnScript'
<1> SUFFICES ASSUME TypeOK, TypeOK', InTransit, OnScript, [Next]_vars PROVE OnScript'
  OBVIOUS
<1>1. Coming \in Nat
  BY DEF TypeOK, Coming
<1>2. ASSUME NEW t \in Texts, Emit(t) PROVE OnScript'
  BY <1>2, ScriptKept DEF Emit, EndTaken, ProducerEnded
<1>3. CASE Finish
  <2>1. ~EndTaken
    BY <1>3 DEF Finish, EndTaken, ProducerEnded
  <2>2. Len(posted') # 0 /\ Len(posted') \in Nat /\ Len(queue') \in Nat
    BY <1>3 DEF Finish, Post, TypeOK
  <2>3. ~EndTaken'
    BY <2>2 DEF EndTaken, Coming
  <2> QED
    BY <1>3, <2>1, <2>3, ScriptKept DEF Finish
<1>4. CASE Put
  <2>1. Coming' = Coming
    BY <1>4, OnePut DEF Put
  <2> QED
    BY <1>4, <2>1, ScriptKept DEF Put, EndTaken, ProducerEnded
<1>5. CASE Take
  BY <1>5, ScriptTaken
<1>6. CASE Sent
  BY <1>6, ScriptSent
<1>7. CASE ProducerStart \/ ShutdownCancels
  BY <1>7, ScriptKept DEF ProducerStart, ShutdownCancels, EndTaken, ProducerEnded
<1>8. CASE OnDone
  BY <1>8, ScriptKept DEF OnDone, EndTaken, ProducerEnded, Coming
<1>9. CASE Suspend
  BY <1>9, ScriptKept DEF Suspend, EndTaken, ProducerEnded, Coming
<1>10. CASE Timeout
  BY <1>10, ScriptKept DEF Timeout, Yield, EndTaken, ProducerEnded, Coming
<1>11. CASE Leave
  BY <1>11, ScriptKept DEF Leave, EndTaken, ProducerEnded, Coming
<1>12. CASE Abort
  BY <1>12, ScriptKept DEF Abort, EndTaken, ProducerEnded, Coming
<1>13. CASE Collect
  BY <1>13, ScriptKept DEF Collect, EndTaken, ProducerEnded, Coming
<1>14. CASE UNCHANGED vars
  BY <1>14, ScriptKept DEF vars, EndTaken, ProducerEnded, Coming
<1> QED
  BY <1>2, <1>3, <1>4, <1>5, <1>6, <1>7, <1>8, <1>9, <1>10, <1>11, <1>12, <1>13, <1>14
     DEF Next, Produce, Consume, Respond

THEOREM Invariance == Spec => []IInv
<1>1. Init => InTransit /\ OnScript
  BY TransitStarts, ScriptStarts
<1>2. TypeOK /\ TypeOK' /\ InTransit /\ OnScript /\ [Next]_vars => InTransit' /\ OnScript'
  BY TransitStep, ScriptStep
<1> QED
  BY <1>1, <1>2, TypeCorrect, PTL DEF Spec, IInv

------------------------------------------------------------------------------
(* The two ends of a response. *)

LEMMA EndingStep == TypeOK /\ Ending /\ [Next]_vars => Ending'
<1> SUFFICES ASSUME TypeOK, Ending, [Next]_vars PROVE Ending'
  OBVIOUS
<1> USE DEF Ending, ClosedMeansTold
<1>1. CASE ProducerStart \/ Finish \/ OnDone \/ Put
  BY <1>1 DEF ProducerStart, Finish, OnDone, Put
<1>2. ASSUME NEW t \in Texts, Emit(t) PROVE Ending'
  BY <1>2 DEF Emit
<1>3. CASE Take
  <2>1. ASSUME NEW t, Render(t), UNCHANGED producer, consumer \in {"getting", "waiting"}
        PROVE  Ending'
    BY <2>1 DEF Render, Yield, Delta
  <2> QED
    BY <1>3, <2>1 DEF Take, Yield, Finally
<1>4. CASE Suspend \/ Timeout
  BY <1>4 DEF Suspend, Timeout, Yield, Heartbeat
<1>5. CASE Sent
  BY <1>5 DEF Sent, After, Yield
<1>6. CASE Leave \/ Abort \/ Collect \/ ShutdownCancels
  BY <1>6 DEF Leave, Abort, Collect, ShutdownCancels, Finally
<1>7. CASE UNCHANGED vars
  BY <1>7 DEF vars
<1> QED
  BY <1>1, <1>2, <1>3, <1>4, <1>5, <1>6, <1>7 DEF Next, Produce, Consume, Respond

LEMMA EndingKept == Spec => []Ending
<1>1. Init => Ending
  BY DEF Init, Ending, ClosedMeansTold
<1> QED
  BY <1>1, EndingStep, TypeCorrect, PTL DEF Spec

\* For any segments: whoever waits for a message will get one.
THEOREM NoLostWakeup == Spec => []NobodyWaitsInVain
<1>1. IInv /\ Ending => NobodyWaitsInVain
  <2> SUFFICES ASSUME IInv, Ending, consumer \in {"getting", "waiting"},
                      producer \notin {"queued", "running"}, queue \o posted = <<>>
               PROVE  FALSE
    BY DEF NobodyWaitsInVain
  <2>1. producer \in {"done", "error"} /\ ~EndTaken
    BY DEF Ending, IInv, TypeOK, OnScript
  <2>2. queue \in Seq(Messages) /\ posted \in Seq(Messages)
    BY DEF IInv, TypeOK
  <2>3. Len(queue) + Len(posted) = Len(queue \o posted)
    BY <2>2
  <2>4. Coming = 0
    BY <2>3 DEF Coming
  <2> QED
    BY <2>1, <2>4 DEF EndTaken, ProducerEnded
<1> QED
  BY <1>1, Invariance, EndingKept, PTL

\* For any segments: a response that is over has told the engine to stop.
THEOREM EngineTold == Spec => []ClosedMeansTold
<1>1. Ending => ClosedMeansTold
  BY DEF Ending
<1> QED
  BY <1>1, EndingKept, PTL

------------------------------------------------------------------------------
(* What follows from the invariant. *)

LEMMA SentTypes ==
  ASSUME IInv, NEW i \in DOMAIN sent
  PROVE  /\ i \in 1..Len(sent) /\ sent[i] = Script(i)
         /\ sent[i].type = "delta" <=> i <= Len(parts)
         /\ sent[i].type = "done" <=> i = Len(parts) + 1 /\ producer # "error"
         /\ sent[i].type = "error" <=> i > Len(parts) /\ producer = "error"
         /\ sent[i].type = "[DONE]" <=> i > Len(parts) + 1 /\ producer # "error"
         /\ i > Len(parts) => EndTaken
<1>1. DOMAIN sent = 1..Len(sent) /\ Len(sent) \in Nat /\ Len(parts) \in Nat
  BY DEF IInv, TypeOK
<1>2. i \in Nat /\ sent[i] = Script(i)
  BY <1>1 DEF IInv, OnScript
<1>3. i > Len(parts) => EndTaken
  BY <1>1 DEF IInv, OnScript
<1> QED
  BY <1>1, <1>2, <1>3, ScriptTypes DEF IInv

\* For any segments: deltas, then done and [DONE], or one error event, and a
\* response nobody cut got that far.
THEOREM FramesInOrder == Spec => []FrameOrder
<1>1. IInv => FrameOrder
  <2> SUFFICES ASSUME IInv PROVE FrameOrder
    OBVIOUS
  <2>1. /\ Len(sent) \in Nat /\ Len(parts) \in Nat /\ DOMAIN sent = 1..Len(sent)
        /\ EndFrames = IF producer = "error" THEN 1 ELSE 2
        /\ Len(sent) <= Len(parts) + (IF EndTaken THEN EndFrames ELSE 0)
    BY DEF IInv, TypeOK, OnScript, EndFrames
  <2>2. ASSUME NEW i \in DOMAIN sent
        PROVE  /\ sent[i].type = "done" => i >= Len(sent) - 1
               /\ sent[i].type = "error" => i = Len(sent)
               /\ sent[i].type = "[DONE]" =>
                    i = Len(sent) /\ i > 1 /\ sent[i - 1].type = "done"
    <3>1. /\ sent[i].type = "done" => i = Len(parts) + 1 /\ producer # "error"
          /\ sent[i].type = "error" => i > Len(parts) /\ producer = "error"
          /\ sent[i].type = "[DONE]" => i > Len(parts) + 1 /\ producer # "error"
      BY SentTypes
    <3>2. CASE sent[i].type = "[DONE]"
      <4>1. i = Len(parts) + 2 /\ i = Len(sent) /\ i - 1 \in DOMAIN sent
        BY <2>1, <3>1, <3>2
      <4>2. sent[i - 1].type = "done"
        BY <2>1, <3>1, <3>2, <4>1, SentTypes
      <4>3. Len(sent) \in Nat /\ Len(parts) \in Nat
        BY <2>1
      <4>4. i >= Len(sent) - 1 /\ i > 1
        BY <4>1, <4>3
      <4> QED
        BY <3>2, <4>1, <4>2, <4>4
    <3>3. CASE sent[i].type = "done"
      <4>1. i >= Len(sent) - 1
        BY <2>1, <3>1, <3>3
      <4> QED
        BY <3>3, <4>1
    <3>4. CASE sent[i].type = "error"
      <4>1. i = Len(sent)
        BY <2>1, <3>1, <3>4
      <4> QED
        BY <3>4, <4>1
    <3> QED
      BY <3>2, <3>3, <3>4
  <2>3. ASSUME consumer = "closed" /\ client = "here"
        PROVE  OfType("error") \cup OfType("[DONE]") # {}
    <3>0. Len(sent) = Len(parts) + EndFrames
      BY <2>3 DEF IInv, OnScript
    <3>1. Len(sent) = Len(parts) + EndFrames /\ Len(sent) \in DOMAIN sent
      BY <2>1, <3>0
    <3>2. sent[Len(sent)].type \in {"error", "[DONE]"}
      BY <2>1, <3>1, SentTypes
    <3> QED
      BY <3>1, <3>2 DEF OfType
  <2> QED
    BY <2>2, <2>3 DEF FrameOrder
<1> QED
  BY <1>1, Invariance, PTL

\* For any segments, silent ones included: what the client concatenates is
\* done.text, and both are the join of everything the engine made.
THEOREM DeltasTellAll == Spec => []DeltasMakeTheText
<1>1. IInv => DeltasMakeTheText
  <2> SUFFICES ASSUME IInv, NEW k \in OfType("done")
               PROVE  sent[k].text = DeltaText /\ DeltaText = Join(produced)
    BY DEF DeltasMakeTheText
  <2>1. /\ Len(sent) \in Nat /\ Len(parts) \in Nat /\ DOMAIN sent = 1..Len(sent)
        /\ Texts \subseteq Seq(Tokens) /\ <<Space>> \in Seq(Tokens)
        /\ parts \in Seq(Texts)
    BY StreamAssumption DEF IInv, TypeOK, Tokens
  <2>2. k = Len(parts) + 1 /\ EndTaken /\ sent[k] = Script(k) /\ producer # "error"
        /\ k \in 1..Len(sent)
    BY <2>1, SentTypes DEF OfType
  <2>3. parts = produced
    <3>1. Len(parts) = Len(produced) /\ \A i \in 1..Len(parts) : parts[i] = produced[i]
      BY <2>1, <2>2 DEF IInv, InTransit, EndTaken, TypeOK
    <3>2. parts \in Seq(Texts) /\ produced \in Seq(Texts)
      BY DEF IInv, TypeOK
    <3> QED
      BY <3>1, <3>2, SeqEqual
  <2>4. sent[k].text = Join(parts)
    BY <2>1, <2>2, ScriptCases, FrameKinds DEF IInv
  <2> DEFINE d == [i \in DOMAIN sent |-> IF sent[i].type = "delta" THEN sent[i].text ELSE <<>>]
  <2>5. Len(d) = Len(sent)
    BY <2>1
  <2>6. ASSUME NEW i \in 1..Len(sent)
        PROVE  d[i] = IF i <= Len(parts) THEN Rendered(i) ELSE <<>>
    <3>1. sent[i] = Script(i) /\ (sent[i].type = "delta" <=> i <= Len(parts))
      BY <2>1, SentTypes
    <3>2. i <= Len(parts) => Script(i).text = Rendered(i)
      BY <2>1, ScriptCases, FrameKinds DEF IInv
    <3> QED
      BY <2>1, <3>1, <3>2
  <2> HIDE DEF d
  <2>7. Separated(d, <<Space>>, parts)
    <3>1. Len(parts) <= Len(d)
      BY <2>1, <2>2, <2>5
    <3>2. ASSUME NEW i \in 1..Len(parts) PROVE d[i] = DeltaOf(i, <<Space>>, parts[i])
      <4>1. i \in 1..Len(sent) /\ i <= Len(parts)
        BY <2>1, <2>2
      <4>2. d[i] = Rendered(i)
        BY <2>6, <4>1
      <4> QED
        BY <4>2 DEF Rendered, DeltaOf
    <3>3. ASSUME NEW i \in 1..Len(d), i > Len(parts) PROVE d[i] = <<>>
      <4>1. i \in 1..Len(sent) /\ ~(i <= Len(parts))
        BY <2>1, <2>5, <3>3
      <4> QED
        BY <2>6, <4>1
    <3> QED
      BY <3>1, <3>2, <3>3 DEF Separated
  <2>8. parts \in Seq(Seq(Tokens))
    BY <2>1
  <2>9. Joined(<<>>, d) = Joined(<<Space>>, parts)
    BY <2>1, <2>5, <2>7, <2>8, DeltasJoin
  <2> QED
    BY <2>3, <2>4, <2>9 DEF DeltaText, Join, d
<1> QED
  BY <1>1, Invariance, PTL

------------------------------------------------------------------------------
(* The response implements Delivery. *)

LEMMA TailConcat ==
  ASSUME NEW X, NEW s \in X, NEW t \in Seq(X)
  PROVE  Tail(<<s>> \o t) = t
<1>1. <<s>> \in Seq(X) /\ Len(<<s>>) = 1
  OBVIOUS
<1>2. /\ <<s>> \o t \in Seq(X) /\ Len(<<s>> \o t) = 1 + Len(t)
      /\ \A i \in 1..Len(t) : (<<s>> \o t)[i + 1] = t[i]
  <2>1. /\ <<s>> \o t \in Seq(X) /\ Len(<<s>> \o t) = Len(<<s>>) + Len(t)
        /\ \A i \in 1..(Len(<<s>>) + Len(t)) :
             (<<s>> \o t)[i] = IF i <= Len(<<s>>) THEN <<s>>[i] ELSE t[i - Len(<<s>>)]
    BY <1>1, ConcatProperties
  <2> QED
    BY <1>1, <2>1
<1> DEFINE u == <<s>> \o t
<1> HIDE DEF u
<1>3. u \in Seq(X) /\ Len(u) = 1 + Len(t) /\ \A i \in 1..Len(t) : u[i + 1] = t[i]
  BY <1>2 DEF u
<1>4. /\ Tail(u) \in Seq(X) /\ Len(Tail(u)) = Len(t)
      /\ \A i \in 1..Len(t) : Tail(u)[i] = t[i]
  BY <1>3
<1>5. Tail(u) = t
  BY <1>4, SeqEqual
<1> QED
  BY <1>5 DEF u

\* How many of the taken texts the client was shown.
Told == IF Len(sent) <= Len(parts) THEN Len(sent) ELSE Len(parts)

ShownFacts == Told \in 0..Len(produced) /\ Shown = [i \in 1..Told |-> produced[i]]

LEMMA ShownIs == IInv => ShownFacts
<1> SUFFICES ASSUME IInv
             PROVE  Told \in 0..Len(produced) /\ Shown = [i \in 1..Told |-> produced[i]]
  BY DEF ShownFacts
<1>1. /\ Len(sent) \in Nat /\ Len(parts) \in Nat /\ DOMAIN sent = 1..Len(sent)
      /\ Len(produced) \in Nat /\ Len(parts) <= Len(produced)
      /\ \A i \in 1..Len(parts) : parts[i] = produced[i] /\ parts[i] \in Texts
  BY DEF IInv, TypeOK, InTransit
<1>2. Told \in Nat /\ Told <= Len(sent) /\ Told <= Len(parts)
  BY <1>1 DEF Told
<1>3. OfType("delta") = 1..Told
  <2>1. \A i \in 1..Len(sent) : sent[i].type = "delta" <=> i <= Len(parts)
    BY <1>1, SentTypes
  <2> QED
    BY <1>1, <2>1 DEF OfType, Told
<1>4. Cardinality(OfType("delta")) = Told
  BY <1>2, <1>3, FS_Interval
<1>5. ASSUME NEW i \in 1..Told
      PROVE  (IF i = 1 THEN sent[i].text ELSE Tail(sent[i].text)) = produced[i]
  <2>1. i \in 1..Len(sent) /\ i \in 1..Len(parts)
    BY <1>2
  <2>2. sent[i].text = Rendered(i)
    <3>1. sent[i] = Script(i) /\ Script(i) = Delta(Rendered(i))
      BY <1>1, <2>1, SentTypes, ScriptCases DEF IInv
    <3> QED
      BY <3>1, FrameKinds
  <2>3. parts[i] \in Seq(Tokens) /\ Space \in Tokens
    BY <1>1, <2>1, StreamAssumption DEF Tokens
  <2>4. Tail(<<Space>> \o parts[i]) = parts[i]
    BY <2>3, TailConcat
  <2>5. parts[i] = produced[i]
    BY <1>1, <2>1
  <2> QED
    BY <2>2, <2>4, <2>5 DEF Rendered
<1>6. Shown = [i \in 1..Told |-> produced[i]]
  BY <1>4, <1>5 DEF Shown
<1> QED
  BY <1>1, <1>2, <1>6

Source == IF producer \in {"done", "error"} THEN producer ELSE "open"
Over   == consumer \in {"closed", "dropped"}

VerdictFacts ==
  /\ Len(sent) > Len(parts) => Verdict = producer /\ ProducerEnded
  /\ Len(sent) <= Len(parts) => Verdict = IF Over THEN "cut" ELSE "open"

LEMMA VerdictIs == IInv => VerdictFacts
<1> SUFFICES ASSUME IInv
             PROVE  /\ Len(sent) > Len(parts) => Verdict = producer /\ ProducerEnded
                    /\ Len(sent) <= Len(parts) => Verdict = IF Over THEN "cut" ELSE "open"
  BY DEF VerdictFacts
<1>1. /\ Len(sent) \in Nat /\ Len(parts) \in Nat /\ DOMAIN sent = 1..Len(sent)
  BY DEF IInv, TypeOK
<1>2. CASE Len(sent) > Len(parts)
  <2> DEFINE k == Len(parts) + 1
  <2>1. k \in DOMAIN sent /\ k > Len(parts)
    BY <1>1, <1>2
  <2>2. ProducerEnded
    BY <2>1, SentTypes DEF EndTaken
  <2>3. CASE producer = "done"
    <3>1. sent[k].type = "done"
      BY <1>1, <2>1, <2>3, SentTypes
    <3>2. OfType("done") # {}
      BY <2>1, <3>1 DEF OfType
    <3>3. OfType("error") = {}
      BY <2>3, SentTypes DEF OfType
    <3>4. Verdict = "done"
      BY <3>2, <3>3 DEF Verdict
    <3> QED
      BY <1>1, <1>2, <2>2, <2>3, <3>4
  <2>4. CASE producer = "error"
    <3>1. sent[k].type = "error"
      BY <1>1, <2>1, <2>4, SentTypes
    <3>2. OfType("error") # {}
      BY <2>1, <3>1 DEF OfType
    <3>3. OfType("done") = {}
      BY <2>4, SentTypes DEF OfType
    <3>4. Verdict = "error"
      BY <3>2, <3>3 DEF Verdict
    <3> QED
      BY <1>1, <1>2, <2>2, <2>4, <3>4
  <2> QED
    BY <2>2, <2>3, <2>4 DEF ProducerEnded
<1>3. CASE Len(sent) <= Len(parts)
  <2>1. ASSUME NEW i \in DOMAIN sent PROVE sent[i].type = "delta"
    BY <1>1, <1>3, SentTypes
  <2>2. OfType("done") = {} /\ OfType("error") = {}
    BY <2>1 DEF OfType
  <2> QED
    BY <1>1, <1>3, <2>2 DEF Verdict, Over
<1> QED
  BY <1>1, <1>2, <1>3

\* Both hold before and after a step.
LEMMA FactsNext == IInv' => ShownFacts' /\ VerdictFacts'
BY ShownIs, VerdictIs, PTL

\* A step that neither makes a text, ends the producer, sends a frame nor
\* closes the response is not seen by the client.
LEMMA Stutters ==
  ASSUME UNCHANGED <<produced, sent>>, Source' = Source, Over' <=> Over
  PROVE  UNCHANGED <<produced, Source, Shown, Verdict>>
BY DEF Shown, Verdict, OfType, Over

LEMMA SentDelivers ==
  ASSUME IInv, IInv', Sent
  PROVE  \/ /\ Verdict = "open" /\ Len(Shown) < Len(produced)
            /\ Shown' = Append(Shown, produced[Len(Shown) + 1])
            /\ UNCHANGED <<produced, Source, Verdict>>
         \/ /\ Verdict = "open" /\ Source # "open" /\ Shown = produced
            /\ Verdict' = Source
            /\ UNCHANGED <<produced, Source, Shown>>
         \/ UNCHANGED <<produced, Source, Shown, Verdict>>
<1>1. /\ Len(sent) \in Nat /\ Len(parts) \in Nat /\ Len(produced) \in Nat
      /\ produced \in Seq(Texts) /\ parts' = parts /\ Len(parts) <= Len(produced)
  BY DEF IInv, TypeOK, Sent, InTransit
<1>2. UNCHANGED <<produced, producer>> /\ UNCHANGED Source /\ consumer = "sending" /\ ~Over
  BY DEF Sent, Source, Over
<1>3. /\ Told \in Nat /\ Shown = [i \in 1..Told |-> produced[i]]
      /\ Told \in 0..Len(produced)
  BY <1>1, ShownIs DEF ShownFacts
<1>4. /\ Told' \in Nat /\ Shown' = [i \in 1..Told' |-> produced[i]]
      /\ Told' \in 0..Len(produced)
  BY <1>1, <1>2, FactsNext DEF ShownFacts
<1>5. CASE frame = Heartbeat
  <2>1. UNCHANGED sent /\ ~Over'
    BY <1>2, <1>5 DEF Sent, After, Heartbeat, Over
  <2> QED
    BY <1>2, <2>1, Stutters
<1>6. CASE frame # Heartbeat /\ ~EndTaken
  <2>1. Len(sent) = Len(parts) - 1 /\ frame = Script(Len(sent) + 1)
    BY <1>2, <1>6 DEF IInv, OnScript
  <2>2. frame.type = "delta"
    BY <1>1, <2>1, ScriptTypes DEF IInv
  <2>3. ~Over'
    BY <1>2, <2>2 DEF Sent, After, Over
  <2>4. Len(sent') = Len(sent) + 1
    BY <1>6 DEF Sent, IInv, TypeOK
  <2>5. Told = Len(parts) - 1 /\ Told' = Len(parts)
    BY <1>1, <2>1, <2>4 DEF Told
  <2>6. Verdict = "open" /\ Verdict' = "open"
    <3>1. Len(sent) <= Len(parts) /\ Len(sent') <= Len(parts')
      BY <1>1, <2>1, <2>4
    <3> QED
      BY <1>2, <2>3, <3>1, VerdictIs, FactsNext DEF VerdictFacts
  <2>7. Len(Shown) = Told
    BY <1>3
  <2>8. Shown' = Append(Shown, produced[Len(Shown) + 1])
    BY <1>1, <1>3, <1>4, <2>5, <2>7
  <2> QED
    BY <1>1, <1>2, <1>3, <2>5, <2>6, <2>7, <2>8
<1>7. CASE frame # Heartbeat /\ EndTaken
  <2>1. /\ Len(sent) \in Len(parts)..(Len(parts) + EndFrames - 1)
        /\ frame = Script(Len(sent) + 1)
    BY <1>2, <1>7 DEF IInv, OnScript
  <2>2. Len(sent') = Len(sent) + 1 /\ Len(sent) >= Len(parts)
    BY <1>1, <1>7, <2>1 DEF Sent, IInv, TypeOK, EndFrames
  <2>3. Told = Len(parts) /\ Told' = Len(parts) /\ Shown' = Shown
    BY <1>1, <1>3, <1>4, <2>2 DEF Told
  <2>4. Verdict' = producer
    <3>1. Len(sent') > Len(parts')
      BY <1>1, <2>2
    <3> QED
      BY <1>2, <3>1, VerdictIs, FactsNext DEF VerdictFacts
  <2>5. Source = producer /\ Source # "open"
    BY <1>7 DEF Source, EndTaken, ProducerEnded
  <2>6. Len(parts) = Len(produced)
    BY <1>1, <1>7 DEF EndTaken, IInv, InTransit
  <2>7. Shown = produced
    BY <1>1, <1>3, <2>3, <2>6
  <2>8. CASE Len(sent) > Len(parts)
    <3>1. Verdict = producer
      BY <2>8, VerdictIs, FactsNext DEF VerdictFacts
    <3> QED
      BY <1>2, <2>3, <2>4, <3>1
  <2>9. CASE Len(sent) = Len(parts)
    <3>1. Len(sent) <= Len(parts)
      BY <1>1, <2>9
    <3>2. Verdict = "open"
      BY <1>2, <3>1, VerdictIs, FactsNext DEF VerdictFacts
    <3> QED
      BY <1>2, <2>3, <2>4, <2>5, <2>7, <3>2
  <2> QED
    BY <1>1, <2>2, <2>8, <2>9
<1> QED
  BY <1>5, <1>6, <1>7

LEMMA AbortDelivers ==
  ASSUME IInv, IInv', Abort
  PROVE  UNCHANGED <<produced, Source, Shown>> /\
         \/ Verdict = "open" /\ Verdict' = "cut"
         \/ UNCHANGED Verdict
<1>1. UNCHANGED <<produced, producer, sent, parts>> /\ Over' /\ ~Over
  BY DEF Abort, Over
<1>2. UNCHANGED <<produced, Source, Shown>>
  BY <1>1 DEF Source, Shown, OfType
<1>3. Len(sent) \in Nat /\ Len(parts) \in Nat
  BY DEF IInv, TypeOK
<1>4. CASE Len(sent) > Len(parts)
  <2>1. Len(sent') > Len(parts')
    BY <1>1, <1>4
  <2>2. Verdict = producer /\ Verdict' = producer'
    BY <1>4, <2>1, VerdictIs, FactsNext DEF VerdictFacts
  <2> QED
    BY <1>1, <1>2, <2>2
<1>5. CASE Len(sent) <= Len(parts)
  <2>1. Len(sent') <= Len(parts')
    BY <1>1, <1>5
  <2>2. Verdict = "open" /\ Verdict' = "cut"
    BY <1>1, <1>5, <2>1, VerdictIs, FactsNext DEF VerdictFacts
  <2> QED
    BY <1>2, <2>2
<1> QED
  BY <1>3, <1>4, <1>5

\* For any segments, the frames sent to the client are one run of Delivery:
\* every text once and in order, the end as the engine ended, unless cut.
THEOREM DeliversAsPromised == Spec => ImplementsDelivery
<1> USE DEF Source
<1>1. Init => Promise!Init
  <2> SUFFICES ASSUME Init PROVE Promise!Init
    OBVIOUS
  <2>1. OfType("delta") = {} /\ OfType("done") = {} /\ OfType("error") = {}
    BY DEF Init, OfType
  <2>2. Cardinality(OfType("delta")) = 0
    BY <2>1, FS_EmptySet
  <2>3. Shown = <<>>
    BY <2>2 DEF Shown
  <2>4. Verdict = "open"
    BY <2>1 DEF Verdict, Init
  <2> QED
    BY <2>3, <2>4 DEF Init, Promise!Init
<1>2. IInv /\ IInv' /\ [Next]_vars => [Promise!Next]_(Promise!vars)
  <2> SUFFICES ASSUME IInv, IInv', [Next]_vars
               PROVE  [Promise!Next]_(Promise!vars)
    OBVIOUS
  <2> USE DEF Promise!Next, Promise!vars
  <2>1. ASSUME NEW t \in Texts, Emit(t) PROVE Promise!Make(t)
    <3>1. UNCHANGED <<producer, sent, consumer>> /\ producer = "running"
      BY <2>1 DEF Emit
    <3>2. UNCHANGED <<Shown, Verdict>>
      BY <3>1 DEF Shown, Verdict, OfType
    <3> QED
      BY <2>1, <3>1, <3>2 DEF Promise!Make, Emit
  <2>2. ASSUME Finish PROVE \E r \in {"done", "error"} : Promise!Stop(r)
    <3>1. /\ UNCHANGED <<produced, sent, consumer>> /\ producer = "running"
          /\ producer' \in {"done", "error"}
      BY <2>2 DEF Finish
    <3>2. UNCHANGED <<Shown, Verdict>>
      BY <3>1 DEF Shown, Verdict, OfType
    <3> QED
      BY <3>1, <3>2 DEF Promise!Stop
  <2>3. CASE Sent
    BY <2>3, SentDelivers DEF Promise!Show, Promise!Conclude
  <2>4. CASE Abort
    BY <2>4, AbortDelivers DEF Promise!Cut
  <2>5. ASSUME UNCHANGED <<produced, sent>>, Source' = Source, Over' <=> Over
        PROVE  UNCHANGED Promise!vars
    BY <2>5, Stutters
  <2>6. CASE ProducerStart \/ OnDone \/ Put \/ Leave \/ Collect \/ ShutdownCancels
    BY <2>5, <2>6 DEF ProducerStart, OnDone, Put, Leave, Collect, ShutdownCancels, Over
  <2>7. CASE Take \/ Suspend \/ Timeout
    BY <2>5, <2>7 DEF Take, Suspend, Timeout, Yield, Render, Over
  <2>8. CASE UNCHANGED vars
    BY <2>5, <2>8 DEF vars, Over
  <2> QED
    BY <2>1, <2>2, <2>3, <2>4, <2>6, <2>7, <2>8 DEF Next, Produce, Consume, Respond
<1> QED
  BY <1>1, <1>2, Invariance, PTL DEF Spec, ImplementsDelivery, Promise!Spec
------------------------------------------------------------------------------
(* The stream with the engine behind it. *)

LEMMA ServedStep == [ServedNext]_served => [Next]_vars
BY DEF ServedNext, Iterate, Around, Give, Exhausted, Raises, Next, Produce, served

\* Whatever the engine does, the stream is a stream: all of the above holds.
THEOREM ServedIsStream == ServedSpec => Spec
<1>1. ServedInit => Init
  BY DEF ServedInit
<1> QED
  BY <1>1, ServedStep, PTL DEF ServedSpec, Spec

\* How far the engine call has come with the contract.
LEMMA Giving ==
  ASSUME TypeOK, TypeOK', total \in Nat, Exhausted
  PROVE  Len(produced) = total /\ end = "open" /\ end' = "ok" /\ UNCHANGED <<produced, total>>
<1>1. [i \in 1..Len(produced') |-> i] = C!First(total)
  BY DEF Exhausted, C!Succeed
<1>2. Len(produced') \in Nat
  BY DEF TypeOK
<1>3. 1..Len(produced') = 1..total
  BY <1>1 DEF C!First
<1>4. Len(produced') = total
  BY <1>2, <1>3
<1> QED
  BY <1>4 DEF Exhausted, Finish, C!Succeed

\* A cancelled engine call finds its stream already over.
LEMMA CancelledUnseen ==
  ASSUME IInv, CancelOnlyWhenOver, cancel, producer = "running"
  PROVE  consumer \in {"closed", "dropped"} /\ OfType("error") = {}
<1>1. ~EndTaken
  BY DEF EndTaken, ProducerEnded
<1>2. consumer # "sending"
  <2> SUFFICES ASSUME consumer = "sending" PROVE FALSE
    OBVIOUS
  <2>1. frame.type \in {"done", "[DONE]", "error"}
    BY DEF CancelOnlyWhenOver
  <2>2. (Len(sent) = Len(parts) - 1 /\ frame = Script(Len(sent) + 1)) \/ frame = Heartbeat
    BY <1>1 DEF IInv, OnScript
  <2>3. Len(parts) \in Nat /\ Len(sent) \in Nat
    BY DEF IInv, TypeOK
  <2>4. frame.type \in {"delta", "heartbeat"}
    BY <2>2, <2>3 DEF Script, Delta, Heartbeat
  <2> QED
    BY <2>1, <2>4
<1>3. OfType("error") = {}
  BY <1>1, SentTypes DEF OfType
<1> QED
  BY <1>2, <1>3 DEF CancelOnlyWhenOver

LEMMA EndsAgreeStep ==
  IInv /\ TypeOK' /\ CancelOnlyWhenOver /\ EndsAgree /\ [ServedNext]_served
    => EndsAgree'
<1> SUFFICES ASSUME IInv, TypeOK', CancelOnlyWhenOver, EndsAgree, [ServedNext]_served
             PROVE  EndsAgree'
  OBVIOUS
<1>1. ASSUME NEW t \in Texts, Give(t) PROVE EndsAgree'
  BY <1>1 DEF Give, Emit, C!Give, EndsAgree, OfType
<1>2. CASE Exhausted
  BY <1>2, Giving DEF IInv, Exhausted, EndsAgree
<1>3. CASE Raises
  <2>1. producer = "running" /\ UNCHANGED <<produced, consumer, sent, cancel, total>> /\ producer' = "error"
    BY <1>3 DEF Raises, Finish, C!Cancel, C!Fail
  <2>2. CASE end' = "cancelled"
    <3>1. cancel
      BY <1>3, <2>2 DEF Raises, C!Cancel, C!Fail
    <3> QED
      BY <2>1, <2>2, <3>1, CancelledUnseen DEF EndsAgree, OfType
  <2>3. CASE end' # "cancelled"
    <3>1. end' = "failed"
      BY <1>3, <2>3 DEF Raises, C!Cancel, C!Fail
    <3> QED
      BY <2>1, <3>1 DEF EndsAgree
  <2> QED
    BY <2>2, <2>3
<1>4. CASE Around(ProducerStart \/ OnDone \/ Put \/ Consume \/ Respond \/ Collect)
  <2>1. UNCHANGED <<total, end, produced>>
    BY <1>4 DEF Around, ProducerStart, OnDone, Put, Consume, Take, Suspend, Respond,
                Timeout, Sent, Leave, Abort, ShutdownCancels, Collect
  <2>2. producer' = producer \/ (producer = "queued" /\ producer' \in {"running", "cancelled"})
    BY <1>4 DEF Around, ProducerStart, OnDone, Put, Consume, Take, Suspend, Respond,
                Timeout, Sent, Leave, Abort, ShutdownCancels, Collect
  <2>3. consumer \in {"closed", "dropped"} => consumer' \in {"closed", "dropped"} /\ sent' = sent
    BY <1>4 DEF Around, ProducerStart, OnDone, Put, Consume, Take, Suspend, Respond,
                Timeout, Sent, Leave, Abort, ShutdownCancels, Collect
  <2> QED
    BY <2>1, <2>2, <2>3 DEF EndsAgree, OfType
<1>5. CASE UNCHANGED served
  BY <1>5 DEF served, vars, EndsAgree, OfType
<1> QED
  BY <1>1, <1>2, <1>3, <1>4, <1>5 DEF ServedNext, Iterate

LEMMA ServedInvariance == ServedSpec => [](IInv /\ EndsAgree)
<1>1. ServedInit => EndsAgree
  BY StreamAssumption DEF ServedInit, Init, EndsAgree
<1>2. IInv => TypeOK
  BY DEF IInv
<1> QED
  BY <1>1, <1>2, EndsAgreeStep, ServedIsStream, Invariance, CancelIsLate, PTL DEF ServedSpec

\* For any audio and any failure or cancellation: who gets done or [DONE]
\* got the text of the whole audio.
THEOREM DoneIsTheWhole == ServedSpec => []DoneTellsAll
<1>1. IInv /\ EndsAgree => DoneTellsAll
  <2> SUFFICES ASSUME IInv, EndsAgree, NEW i \in DOMAIN sent, sent[i].type \in {"done", "[DONE]"}
               PROVE  end = "ok" /\ Len(produced) = total
    BY DEF DoneTellsAll, OfType
  <2>1. i > Len(parts) /\ producer # "error"
    BY SentTypes DEF IInv, TypeOK
  <2>2. producer = "done"
    BY <2>1, SentTypes DEF EndTaken, ProducerEnded
  <2> QED
    BY <2>2 DEF EndsAgree
<1> QED
  BY <1>1, ServedInvariance, PTL

\* For any audio: an error event is about a failure, never a cancellation.
THEOREM ErrorsAreReal == ServedSpec => []ErrorsAreFailures
<1>1. IInv /\ EndsAgree => ErrorsAreFailures
  <2> SUFFICES ASSUME IInv, EndsAgree, NEW i \in DOMAIN sent, sent[i].type = "error"
               PROVE  end = "failed"
    BY DEF ErrorsAreFailures, OfType
  <2>1. producer = "error"
    BY SentTypes
  <2>2. OfType("error") # {}
    BY DEF OfType
  <2> QED
    BY <2>1, <2>2 DEF EndsAgree
<1> QED
  BY <1>1, ServedInvariance, PTL

------------------------------------------------------------------------------
(* The stream in its handler. *)

LEMMA HandledStep == [HandledNext]_handled => [ServedNext]_served
BY DEF HandledNext, handled, ServedNext, Around, Loop, InLoop, Shutdown, Drop, DrainEnd, Respond

\* A stream in its handler is a stream with its engine: all of the above holds.
THEOREM HandledIsServed == HandledSpec => ServedSpec
<1>1. HandledInit => ServedInit
  BY DEF HandledInit
<1> QED
  BY <1>1, HandledStep, PTL DEF HandledSpec, ServedSpec

\* When the executor shuts down the response is over, and it drops what waits.
Stopping ==
  /\ pool \in {"open", "draining", "closed"}
  /\ pool # "open" => consumer \in {"closed", "dropped"}
  /\ cleaned => producer \notin {"queued", "running"}
  /\ producer = "cancelled" => cleaned

LEMMA StoppingStep == TypeOK /\ Stopping /\ [HandledNext]_handled => Stopping'
<1> SUFFICES ASSUME TypeOK, Stopping, [HandledNext]_handled PROVE Stopping'
  OBVIOUS
<1> USE DEF Stopping
<1>1. CASE Iterate /\ UNCHANGED pool
  BY <1>1 DEF Iterate, Give, Emit, Exhausted, Raises, Finish
<1>2. CASE Around(ProducerStart \/ OnDone \/ Leave) /\ UNCHANGED pool
  BY <1>2 DEF Around, ProducerStart, OnDone, Leave
<1>3. CASE InLoop(Loop)
  BY <1>3 DEF InLoop, Around, Loop, Put, Consume, Take, Suspend, Timeout, Sent, Abort, Collect,
              Render, Yield, Finally
<1>4. CASE Shutdown \/ DrainEnd
  BY <1>4 DEF Shutdown, DrainEnd, served, vars
<1>5. CASE Drop
  BY <1>5 DEF Drop, Around, ShutdownCancels
<1>6. CASE UNCHANGED handled
  BY <1>6 DEF handled, served, vars
<1> QED
  BY <1>1, <1>2, <1>3, <1>4, <1>5, <1>6 DEF HandledNext

LEMMA HandledInvariance ==
  HandledSpec => [](IInv /\ Ending /\ CancelOnlyWhenOver /\ Stopping)
<1>1. HandledInit => Stopping
  BY DEF HandledInit, ServedInit, Init, Stopping
<1>2. IInv => TypeOK
  BY DEF IInv
<1> QED
  BY <1>1, <1>2, StoppingStep, HandledIsServed, ServedIsStream, Invariance, EndingKept,
     CancelIsLate, PTL DEF HandledSpec

LEMMA OnlyOne ==
  ASSUME NEW a, NEW b
  PROVE  /\ Only(a)["stream"] = a
         /\ [Only(a) EXCEPT !["stream"] = b] = Only(b)
BY DEF Only

\* The message that ends the generators is taken only after the future ended.
LEMMA EndIsReal ==
  ASSUME IInv, Take, Head(queue).kind # "segment"
  PROVE  producer \in {"done", "error"}
<1>1. TypeOK /\ InTransit /\ ~EndTaken
  BY DEF IInv, OnScript, Take
<1> QED
  BY <1>1, NextMessage, Kinds DEF Take, Segment

\* The instance brings its own copy of Cardinality.
LEMMA SameCardinality == ASSUME NEW S PROVE H!R!Cardinality(S) = Cardinality(S)
BY DEF H!R!Cardinality, Cardinality, H!R!IsFiniteSet, IsFiniteSet

LEMMA HandlerStarts == HandledInit => H!IInv
<1> SUFFICES ASSUME HandledInit PROVE H!IInv
  OBVIOUS
<1>1. /\ producer = "queued" /\ consumer = "getting" /\ ~cleaned /\ ~cancel
      /\ client = "here" /\ pool = "open"
      /\ Stage = "queued" /\ Place = "streaming"
      /\ Slots = 1 /\ Executor = <<"stream">> /\ Outcome = "none" /\ Answered = "none"
  BY DEF HandledInit, ServedInit, Init, Stage, Place, Slots, Executor, Outcome, Answered
<1>2. /\ Only(Stage) = [r \in {"stream"} |-> "queued"]
      /\ H!R!Jobs = {"stream"} /\ H!Requests = {"stream"}
  BY <1>1 DEF Only, H!R!Jobs, H!Requests
<1>3. H!R!TypeOK
  BY <1>1, <1>2 DEF H!R!TypeOK, H!R!Stages
<1>4. H!R!SlotAccounting
  <2>1. H!R!Holders = {"stream"}
    BY <1>2 DEF H!R!Holders, H!R!In, H!R!HolderStages
  <2> QED
    BY <1>1, <2>1, FS_Singleton, SameCardinality DEF H!R!SlotAccounting
<1>5. H!R!OneWorker
  <2>1. H!R!Busy = {}
    BY <1>2 DEF H!R!Busy, H!R!In, H!R!BusyStages
  <2> QED
    BY <2>1, FS_EmptySet, SameCardinality DEF H!R!OneWorker, H!R!MaxWorkers
<1>6. H!R!QueueOK /\ H!R!OrphansAreCancelled
  BY <1>1, <1>2 DEF H!R!QueueOK, H!R!OrphansAreCancelled
<1>7. H!TypeOK
  <2>1. (~cleaned) \in BOOLEAN /\ cancel \in BOOLEAN
    BY DEF HandledInit, ServedInit, Init
  <2>2. Only(~cleaned) \in [{"stream"} -> BOOLEAN] /\ Only(cancel) \in [{"stream"} -> BOOLEAN]
        /\ Only(FALSE) \in [{"stream"} -> BOOLEAN]
    BY <2>1, Zenon DEF Only
  <2> QED
    BY <1>1, <1>2, <1>3, <2>2 DEF H!TypeOK, H!Places, H!Results, H!Statuses, Only
<1>8. H!Owned("stream") /\ H!Told("stream")
  <2>1. Only(~cleaned)["stream"] = (~cleaned) /\ Only(cancel)["stream"] = cancel
        /\ Only(FALSE)["stream"] = FALSE
    BY OnlyOne
  <2>2. Only(~cleaned)["stream"] /\ ~Only(cancel)["stream"] /\ ~Only(FALSE)["stream"]
    BY <1>1, <2>1, Zenon
  <2>3. /\ Only(Place)["stream"] = "streaming" /\ Only(Stage)["stream"] = "queued"
        /\ Only(Outcome)["stream"] = "none" /\ Only(Answered)["stream"] = "none"
    BY <1>1, OnlyOne
  <2> QED
    BY <2>2, <2>3 DEF H!Owned, H!Told
<1> QED
  BY <1>2, <1>3, <1>4, <1>5, <1>6, <1>7, <1>8 DEF H!IInv, H!R!IInv
\* The handler's variables, when the stream's stand still or move.
LEMMA Unmoved ==
  /\ \A e : Only(e)["stream"] = e
  /\ UNCHANGED Only(FALSE)
  /\ UNCHANGED Stage => UNCHANGED Only(Stage)
  /\ UNCHANGED Place => UNCHANGED Only(Place)
  /\ UNCHANGED cleaned => UNCHANGED Only(~cleaned)
  /\ UNCHANGED client => UNCHANGED Only(client)
  /\ UNCHANGED cancel => UNCHANGED Only(cancel)
  /\ UNCHANGED Outcome => UNCHANGED Only(Outcome)
  /\ UNCHANGED Answered => UNCHANGED Only(Answered)
BY DEF Only
LEMMA Moved ==
  /\ \A e : Stage' = e => Only(Stage)' = [Only(Stage) EXCEPT !["stream"] = e]
  /\ \A e : Place' = e => Only(Place)' = [Only(Place) EXCEPT !["stream"] = e]
  /\ \A e : Answered' = e => Only(Answered)' = [Only(Answered) EXCEPT !["stream"] = e]
  /\ \A e : Outcome' = e => Only(Outcome)' = [Only(Outcome) EXCEPT !["stream"] = e]
  /\ \A e : client' = e => Only(client)' = [Only(client) EXCEPT !["stream"] = e]
  /\ (~cleaned') = FALSE => Only(~cleaned)' = [Only(~cleaned) EXCEPT !["stream"] = FALSE]
  /\ cancel' = TRUE => Only(cancel)' = [Only(cancel) EXCEPT !["stream"] = TRUE]
BY DEF Only

Quiet == UNCHANGED <<Stage, Slots, Executor, Place, Answered, Outcome, cleaned, cancel,
                     client, pool>>

LEMMA QuietStutters == Quiet => UNCHANGED H!vars
BY Unmoved DEF Quiet, H!vars, H!runner, H!local

\* The worker thread: the job's side of the stream.
LEMMA JobSteps ==
  ASSUME TypeOK, Stopping, UNCHANGED pool,
         \/ \E t \in Texts : Emit(t)
         \/ Finish
         \/ ProducerStart
         \/ OnDone
  PROVE  \/ Quiet
         \/ H!WorkerFinish("stream") \/ H!WorkerStart("stream") \/ H!Cleanup("stream")
<1> USE DEF H!local, H!R!Move, H!R!Release
<1>1. ASSUME NEW t \in Texts, Emit(t) PROVE Quiet
  BY <1>1 DEF Emit, Quiet, Stage, Slots, Executor, Place, Answered, Outcome
<1>2. CASE Finish
  <2>1. /\ Stage = "running" /\ Stage' = "callback" /\ Outcome' = "told"
        /\ UNCHANGED <<Slots, Executor, Place, Answered, cleaned, cancel, client, pool>>
    BY <1>2 DEF Finish, Stopping, Stage, Slots, Executor, Place, Answered, Outcome
  <2>2. H!R!WorkerFinish("stream")
    BY <2>1, Unmoved, Moved DEF H!R!WorkerFinish
  <2>3. "told" \in H!Outcomes("stream")
    BY DEF H!Outcomes
  <2>4. Only(Outcome)' = [Only(Outcome) EXCEPT !["stream"] = "told"]
    BY <2>1, Moved
  <2> QED
    BY <2>1, <2>2, <2>3, <2>4, Unmoved DEF H!WorkerFinish
<1>3. CASE ProducerStart
  <2>1. /\ Stage = "queued" /\ Stage' = "running"
        /\ Executor = <<"stream">> /\ Executor' = <<>>
        /\ UNCHANGED <<Slots, Place, Answered, Outcome, cleaned, cancel, client, pool>>
    BY <1>3 DEF ProducerStart, Stage, Slots, Executor, Place, Answered, Outcome
  <2>2. H!R!Busy = {}
    BY <2>1, Unmoved DEF H!R!Busy, H!R!In, H!R!BusyStages, H!R!Jobs
  <2>3. H!R!Cardinality(H!R!Busy) < H!R!MaxWorkers
    BY <2>2, FS_EmptySet, SameCardinality DEF H!R!MaxWorkers
  <2>4. Only(Stage)["stream"] = "queued"
        /\ Only(Stage)' = [Only(Stage) EXCEPT !["stream"] = "running"]
    BY <2>1, Unmoved, Moved
  <2>5. H!R!WorkerStart("stream")
    BY <2>1, <2>3, <2>4 DEF H!R!WorkerStart
  <2> QED
    BY <2>1, <2>5, Unmoved DEF H!WorkerStart
<1>4. CASE OnDone
  <2>1. /\ Stage = "callback" /\ Stage' = "outside" /\ Slots = 1 /\ Slots' = 0
        /\ (~cleaned') = FALSE
        /\ UNCHANGED <<Executor, Place, Answered, Outcome, cancel, client, pool>>
    BY <1>4 DEF OnDone, Stage, Slots, Executor, Place, Answered, Outcome
  <2>2. Only(Stage)["stream"] = "callback"
        /\ Only(Stage)' = [Only(Stage) EXCEPT !["stream"] = "outside"]
    BY <2>1, Unmoved, Moved
  <2>3. H!R!DoneCallback("stream")
    BY <2>1, <2>2 DEF H!R!DoneCallback
  <2>4. H!Unlink("stream")
    BY <2>1, Moved DEF H!Unlink
  <2> QED
    BY <2>1, <2>3, <2>4, Unmoved DEF H!Cleanup
<1> QED
  BY <1>1, <1>2, <1>3, <1>4

\* The event loop: the generators' side of the stream.
LEMMA LoopSteps ==
  ASSUME IInv, Ending, CancelOnlyWhenOver, Stopping, UNCHANGED pool, pool # "draining", Loop
  PROVE  \/ Quiet
         \/ H!StreamTold("stream") \/ H!StreamEnds("stream")
         \/ H!StreamCut("stream") \/ H!Collect("stream")
<1> USE DEF H!runner, H!R!LoopFree, H!Go
<1>1. UNCHANGED <<Stage, Slots, Executor, Outcome, cleaned, client>>
  BY DEF Loop, Put, Consume, Take, Suspend, Timeout, Sent, Abort, Collect, Finally,
         Stage, Slots, Executor, Outcome
<1>2. UNCHANGED <<Only(Stage), Only(~cleaned), Only(Outcome), Only(client)>>
  BY <1>1, Unmoved
<1>3. CASE Put \/ Suspend \/ Timeout
  BY <1>1, <1>3 DEF Put, Suspend, Timeout, Yield, Quiet, Place, Answered
<1>4. CASE Take
  <2>1. Place = "streaming" /\ UNCHANGED <<Place, Answered>> /\ ~cancel
    BY <1>4 DEF Take, Render, Yield, Place, Answered, CancelOnlyWhenOver
  <2>2. CASE Head(queue).kind = "segment"
    BY <1>1, <1>4, <2>1, <2>2 DEF Take, Quiet
  <2>3. CASE Head(queue).kind # "segment"
    <3>1. cancel' = TRUE /\ Outcome = "told"
      BY <1>4, <2>3, EndIsReal DEF Take, Finally, Outcome
    <3>2. H!SetCancel("stream")
      BY <3>1, Moved DEF H!SetCancel
    <3>3. /\ Only(Place)["stream"] = "streaming" /\ Only(Outcome)["stream"] = "told"
          /\ ~Only(cancel)["stream"]
      <4>1. Only(cancel)["stream"] = cancel
        BY Unmoved
      <4>2. ~Only(cancel)["stream"]
        BY <2>1, <4>1, Zenon
      <4> QED
        BY <2>1, <3>1, <4>2, Unmoved
    <3> QED
      BY <1>1, <1>2, <2>1, <3>2, <3>3, Unmoved DEF H!StreamTold
  <2> QED
    BY <2>2, <2>3
<1>5. CASE Sent
  <2>1. CASE consumer' # "closed"
    BY <1>1, <1>5, <2>1 DEF Sent, After, Yield, Quiet, Place, Answered
  <2>2. CASE consumer' = "closed"
    <3>1. cancel /\ Place = "streaming" /\ Place' = "over" /\ Answered' = "200" /\ UNCHANGED cancel
      BY <1>5, <2>2 DEF Sent, After, Yield, Ending, Place, Answered
    <3>2. Only(cancel)["stream"]
      <4>1. Only(cancel)["stream"] = cancel
        BY Unmoved
      <4> QED
        BY <3>1, <4>1, Zenon
    <3>3. H!Answer("stream", "200")
      BY <3>1, Moved DEF H!Answer
    <3> QED
      BY <1>1, <1>2, <3>1, <3>2, <3>3, Unmoved DEF H!StreamEnds
  <2> QED
    BY <2>1, <2>2
<1>6. CASE Abort
  <2>1. Place = "streaming" /\ client = "gone"
    BY <1>6 DEF Abort, Place
  <2>2. CASE consumer = "waiting"
    <3>1. cancel' = TRUE /\ Place' = "over" /\ Answered' = "200"
      BY <1>6, <2>2 DEF Abort, Finally, Place, Answered
    <3>2. H!SetCancel("stream") /\ H!Answer("stream", "200")
      BY <3>1, Moved DEF H!SetCancel, H!Answer
    <3> QED
      BY <1>1, <1>2, <2>1, <3>2, Unmoved DEF H!StreamCut
  <2>3. CASE consumer = "sending"
    <3>1. Place' = "dropped" /\ UNCHANGED <<cancel, Answered>>
      BY <1>6, <2>3 DEF Abort, Place, Answered
    <3>2. Only(Place)' = [Only(Place) EXCEPT !["stream"] = "dropped"]
      BY <3>1, Moved
    <3> QED
      BY <1>1, <1>2, <2>1, <3>1, <3>2, Unmoved DEF H!StreamCut
  <2> QED
    BY <1>6, <2>2, <2>3 DEF Abort
<1>7. CASE Collect
  <2>1. Place = "dropped" /\ Place' = "over" /\ Answered' = "200" /\ cancel' = TRUE
    BY <1>7 DEF Collect, Finally, Place, Answered
  <2>2. H!SetCancel("stream") /\ H!Answer("stream", "200")
    BY <2>1, Moved DEF H!SetCancel, H!Answer
  <2> QED
    BY <1>1, <1>2, <2>1, <2>2, Unmoved DEF H!Collect
<1> QED
  BY <1>3, <1>4, <1>5, <1>6, <1>7 DEF Loop, Consume
\* The client leaves, and the executor is shut down.
LEMMA StopSteps ==
  ASSUME Stopping, CleanupAfterProducer
  PROVE  /\ Around(Leave) /\ UNCHANGED pool => H!Leave("stream")
         /\ Shutdown => H!Shutdown
         /\ Drop => H!Drain("stream")
         /\ DrainEnd => H!DrainEnd
<1> USE DEF H!runner, H!local, H!R!LoopFree, H!R!Move, H!R!Release
<1>1. ASSUME Around(Leave), UNCHANGED pool PROVE H!Leave("stream")
  <2>1. /\ Place \in {"streaming", "dropped"} /\ client = "here" /\ client' = "gone"
        /\ UNCHANGED <<Stage, Slots, Executor, Place, Answered, Outcome, cleaned, cancel, pool>>
    BY <1>1 DEF Around, Leave, Stage, Slots, Executor, Place, Answered, Outcome
  <2>2. Only(client)["stream"] = "here"
        /\ Only(client)' = [Only(client) EXCEPT !["stream"] = "gone"]
    BY <2>1, Unmoved, Moved
  <2>3. Only(Place)["stream"] \notin {"idle", "over"}
    BY <2>1, Unmoved
  <2> QED
    BY <2>1, <2>2, <2>3, Unmoved DEF H!Leave
<1>2. ASSUME Shutdown PROVE H!Shutdown
  <2>1. /\ Place \in {"over", "dropped"} /\ pool = "open" /\ pool' = "draining"
        /\ UNCHANGED <<Stage, Slots, Executor, Place, Answered, Outcome, cleaned, cancel, client>>
    BY <1>2 DEF Shutdown, served, vars, Stage, Slots, Executor, Place, Answered, Outcome
  <2>2. Only(Place)["stream"] \in {"over", "dropped"}
    BY <2>1, Unmoved
  <2> QED
    BY <2>1, <2>2, Unmoved DEF H!Shutdown, H!R!Shutdown, H!Requests
<1>3. ASSUME Drop PROVE H!Drain("stream")
  <2>1. /\ Stage = "queued" /\ Stage' = "outside" /\ Slots = 1 /\ Slots' = 0
        /\ Executor = <<"stream">> /\ Executor' = <<>> /\ (~cleaned') = FALSE
        /\ pool = "draining"
        /\ UNCHANGED <<Place, Answered, Outcome, cancel, client, pool>>
    BY <1>3 DEF Drop, Around, ShutdownCancels, Stopping,
                Stage, Slots, Executor, Place, Answered, Outcome
  <2>2. Only(Stage)["stream"] = "queued"
        /\ Only(Stage)' = [Only(Stage) EXCEPT !["stream"] = "outside"]
    BY <2>1, Unmoved, Moved
  <2>3. H!R!DrainOne("stream")
    BY <2>1, <2>2 DEF H!R!DrainOne
  <2>4. H!Unlink("stream")
    BY <2>1, Moved DEF H!Unlink
  <2> QED
    BY <2>1, <2>3, <2>4, Unmoved DEF H!Drain
<1>4. ASSUME DrainEnd PROVE H!DrainEnd
  <2>1. /\ Executor = <<>> /\ pool = "draining" /\ pool' = "closed"
        /\ UNCHANGED <<Stage, Slots, Executor, Place, Answered, Outcome, cleaned, cancel, client>>
    BY <1>4 DEF DrainEnd, served, vars, Stage, Slots, Executor, Place, Answered, Outcome
  <2> QED
    BY <2>1, Unmoved DEF H!DrainEnd, H!R!DrainEnd
<1> QED
  BY <1>1, <1>2, <1>3, <1>4

\* For any texts and any audio: every step of the thread, the queue and the
\* generators is, for handler and runner, the step Transcriptions says, or none.
THEOREM StreamsAsHandled == HandledSpec => ImplementsHandler
<1>1. /\ IInv /\ Ending /\ CancelOnlyWhenOver /\ Stopping /\ [HandledNext]_handled
      => [H!Next]_(H!vars)
  <2> SUFFICES ASSUME IInv, Ending, CancelOnlyWhenOver, Stopping, [HandledNext]_handled,
                      ~Quiet
               PROVE  H!Next
    BY QuietStutters
  <2> USE DEF H!Next, H!Requests
  <2>1. TypeOK /\ CleanupAfterProducer
    BY DEF IInv, Stopping, CleanupAfterProducer
  <2>2. CASE Iterate /\ UNCHANGED pool
    <3>1. (\E t \in Texts : Emit(t)) \/ Finish
      BY <2>2 DEF Iterate, Give, Exhausted, Raises
    <3> QED
      BY <2>1, <2>2, <3>1, JobSteps DEF H!Worker
  <2>3. CASE Around(ProducerStart \/ OnDone \/ Leave) /\ UNCHANGED pool
    <3>1. ProducerStart \/ OnDone \/ Around(Leave)
      BY <2>3 DEF Around
    <3> QED
      BY <2>1, <2>3, <3>1, JobSteps, StopSteps DEF H!Worker
  <2>4. CASE InLoop(Loop)
    BY <2>4, LoopSteps DEF InLoop, Around, H!Loop, H!Handler
  <2>5. CASE Shutdown \/ Drop \/ DrainEnd
    BY <2>1, <2>5, StopSteps
  <2>6. CASE UNCHANGED handled
    BY <2>6 DEF handled, served, vars, Quiet, Stage, Slots, Executor, Place, Answered, Outcome
  <2> QED
    BY <2>2, <2>3, <2>4, <2>5, <2>6 DEF HandledNext
<1> QED
  BY <1>1, HandlerStarts, HandledInvariance, PTL DEF HandledSpec, ImplementsHandler
===============================================================================
