--------------------------- MODULE SubtitlesProofs ---------------------------
(***************************************************************************)
(* Proofs about Subtitles.tla, for any times and any number of segments:   *)
(* rounding to milliseconds is monotone and exact to half a millisecond,   *)
(* and splitting a time into its fields loses nothing.                     *)
(***************************************************************************)
EXTENDS Subtitles, TLAPS

LEMMA Division ==
  ASSUME NEW n \in Nat, NEW d \in Nat \ {0}
  PROVE  n \div d \in Nat /\ n % d \in 0..(d - 1) /\ n = d * (n \div d) + (n % d)
OBVIOUS

LEMMA Clamped == ASSUME NEW t \in Int PROVE FromStart(t) \in Nat
BY DEF FromStart

\* Rounding is exact to half a millisecond.
LEMMA MillisNear ==
  ASSUME NEW t \in Nat
  PROVE  Millis(t) \in Nat /\ 10 * Millis(t) - 5 <= t /\ t <= 10 * Millis(t) + 5
<1>1. t \div 10 \in Nat /\ t % 10 \in 0..9 /\ t = 10 * (t \div 10) + (t % 10)
  BY Division
<1> QED
  BY <1>1 DEF Millis

\* Rounding keeps the order.
LEMMA MillisMonotone ==
  ASSUME NEW t \in Nat, NEW u \in Nat, t <= u
  PROVE  Millis(t) <= Millis(u)
<1>1. /\ t \div 10 \in Nat /\ t % 10 \in 0..9 /\ t = 10 * (t \div 10) + (t % 10)
      /\ u \div 10 \in Nat /\ u % 10 \in 0..9 /\ u = 10 * (u \div 10) + (u % 10)
  BY Division
<1>2. CASE t \div 10 = u \div 10
  BY <1>1, <1>2 DEF Millis
<1>3. CASE t \div 10 < u \div 10
  BY <1>1, <1>3 DEF Millis
<1> QED
  BY <1>1, <1>2, <1>3

\* The fields are in range, and reading them back gives the time.
LEMMA Fields ==
  ASSUME NEW t \in Int
  PROVE  FormatTs(t) \in Timestamp /\ Read(FormatTs(t)) = Millis(FromStart(t))
<1> DEFINE m == Millis(FromStart(t))
<1>1. m \in Nat
  BY Clamped, MillisNear
<1> HIDE DEF m
<1>2. m = 3600000 * (m \div 3600000) + (m % 3600000) /\ m \div 3600000 \in Nat
  BY <1>1, SMT
<1>3. /\ m % 3600000 = 60000 * ((m % 3600000) \div 60000) + (m % 60000)
      /\ (m % 3600000) \div 60000 \in 0..59
  BY <1>1, SMT
<1>4. /\ m % 60000 = 1000 * ((m % 60000) \div 1000) + (m % 1000)
      /\ (m % 60000) \div 1000 \in 0..59 /\ m % 1000 \in 0..999
  BY <1>1, SMT
<1>5. FormatTs(t) \in Timestamp
  BY <1>2, <1>3, <1>4, SMT DEF FormatTs, Timestamp, m
<1>6. Read(FormatTs(t)) = m
  BY <1>1, <1>2, <1>3, <1>4, SMT DEF FormatTs, Read, m
<1> QED
  BY <1>5, <1>6 DEF m

\* What a player reads keeps the order of the times.
LEMMA ReadMonotone ==
  ASSUME NEW t \in Int, NEW u \in Int, t <= u
  PROVE  Read(FormatTs(t)) <= Read(FormatTs(u))
<1>1. FromStart(t) <= FromStart(u)
  BY DEF FromStart
<1> QED
  BY <1>1, Clamped, MillisMonotone, Fields

\* What a player reads is the time, within half a millisecond.
LEMMA ReadNear == ASSUME NEW t \in Int PROVE Near(FormatTs(t), FromStart(t))
BY Clamped, MillisNear, Fields DEF Near

------------------------------------------------------------------------------
\* What the invariant says of one segment and its cue.
LEMMA OneCue ==
  ASSUME IInv, NEW i \in DOMAIN segments
  PROVE  /\ segments[i].start \in Int /\ segments[i].end \in Int
         /\ cues[i].index = i
         /\ cues[i].from = FormatTs(segments[i].start)
         /\ cues[i].to = FormatTs(segments[i].end)
<1>1. segments[i] \in Segment
  BY DEF IInv, TypeOK
<1>2. cues[i] = Cue(i, segments[i])
  BY DEF IInv, CuesOfSegments
<1> QED
  BY <1>1, <1>2 DEF Segment, Cue

LEMMA InitInv == Init => IInv
BY DEF Init, IInv, TypeOK, SegmentsOK, CuesOfSegments

\* Writing one more cue preserves the invariant.
LEMMA RenderInv == ASSUME IInv, Render PROVE IInv'
<1>1. PICK start \in Times, end \in Times :
        /\ start <= end
        /\ segments # <<>> => segments[Len(segments)].end <= start
        /\ segments' = Append(segments, [start |-> start, end |-> end])
        /\ cues' = Append(cues, Cue(Len(segments) + 1, [start |-> start, end |-> end]))
  BY DEF Render
<1>2. start \in Int /\ end \in Int
  BY SubtitlesAssumption
<1> DEFINE seg == [start |-> start, end |-> end]
           cue == Cue(Len(segments) + 1, seg)
<1>3. seg \in Segment
  BY <1>2 DEF Segment
<1>4. cue \in [index : Nat, from : Timestamp, to : Timestamp]
  <2>1. Len(segments) + 1 \in Nat
    BY DEF IInv, TypeOK
  <2> QED
    BY <1>2, <2>1, Fields DEF Cue
<1>5. TypeOK'
  BY <1>1, <1>3, <1>4 DEF IInv, TypeOK
<1>6. SegmentsOK'
  <2>1. /\ segments \in Seq(Segment) /\ segments' = Append(segments, seg)
        /\ seg \in Segment /\ seg.start = start /\ seg.end = end
    BY <1>1, <1>3 DEF IInv, TypeOK
  <2> HIDE DEF seg
  <2>2. \A i \in DOMAIN segments : segments'[i] = segments[i]
    BY <2>1
  <2>3. /\ Len(segments') = Len(segments) + 1 /\ Len(segments) \in Nat
        /\ segments'[Len(segments')] = seg
    BY <2>1
  <2>4. \A i \in DOMAIN segments' : segments'[i].start <= segments'[i].end
    BY <1>1, <2>1, <2>2, <2>3 DEF IInv, SegmentsOK
  <2>5. ASSUME NEW i \in 1..(Len(segments') - 1)
        PROVE  segments'[i].end <= segments'[i + 1].start
    <3>1. CASE i = Len(segments)
      BY <1>1, <2>1, <2>2, <2>3, <3>1
    <3>2. CASE i # Len(segments)
      BY <2>1, <2>2, <2>3, <3>2 DEF IInv, SegmentsOK
    <3> QED
      BY <3>1, <3>2
  <2> QED
    BY <2>4, <2>5 DEF SegmentsOK
<1>7. CuesOfSegments'
  <2>1. Len(cues') = Len(segments') /\ Len(segments') = Len(segments) + 1
    BY <1>1 DEF IInv, TypeOK, CuesOfSegments
  <2>2. \A i \in DOMAIN segments :
          segments'[i] = segments[i] /\ cues'[i] = cues[i]
    BY <1>1 DEF IInv, TypeOK, CuesOfSegments
  <2>3. /\ segments'[Len(segments) + 1] = seg
        /\ cues'[Len(segments) + 1] = Cue(Len(segments) + 1, seg)
    BY <1>1 DEF IInv, TypeOK, CuesOfSegments
  <2> HIDE DEF seg, cue
  <2>4. \A i \in DOMAIN segments' : i \in DOMAIN segments \/ i = Len(segments) + 1
    BY <1>1, <2>1 DEF IInv, TypeOK
  <2> QED
    BY <2>1, <2>2, <2>3, <2>4 DEF IInv, CuesOfSegments, Cue
<1> QED
  BY <1>5, <1>6, <1>7 DEF IInv

\* The cues written so far are those of the segments, which do not overlap.
THEOREM Invariance == Spec => []IInv
<1>1. IInv /\ [Next]_vars => IInv'
  <2>1. CASE Next
    BY <2>1, RenderInv DEF Next
  <2>2. CASE UNCHANGED vars
    BY <2>2 DEF vars, IInv, TypeOK, SegmentsOK, CuesOfSegments
  <2> QED
    BY <2>1, <2>2
<1> QED
  BY InitInv, <1>1, PTL DEF Spec

\* No field of a time stamp runs over (formats.py, _format_ts).
THEOREM TypeCorrect == Spec => []TypeOK
<1>1. IInv => TypeOK
  BY DEF IInv
<1> QED
  BY Invariance, <1>1, PTL

\* For any times no field runs over and the times are kept, within half a millisecond.
THEOREM TimesAreKept == Spec => []TimesKept
<1>1. IInv => TimesKept
  <2> SUFFICES ASSUME IInv, NEW i \in DOMAIN segments
               PROVE  /\ cues[i].from \in Timestamp /\ cues[i].to \in Timestamp
                      /\ Near(cues[i].from, FromStart(segments[i].start))
                      /\ Near(cues[i].to, FromStart(segments[i].end))
    BY DEF TimesKept
  <2> QED
    BY OneCue, ReadNear, Fields
<1> QED
  BY Invariance, <1>1, PTL

\* Cues never overlap, run backwards or skip a number.
THEOREM CuesAreOrdered == Spec => []CuesInOrder
<1>1. IInv => CuesInOrder
  <2> SUFFICES ASSUME IInv PROVE CuesInOrder
    OBVIOUS
  <2>1. /\ DOMAIN cues = DOMAIN segments /\ Len(cues) = Len(segments)
        /\ DOMAIN segments = 1..Len(segments) /\ Len(segments) \in Nat
    BY DEF IInv, TypeOK, CuesOfSegments
  <2>2. ASSUME NEW i \in DOMAIN cues
        PROVE  cues[i].index = i /\ Read(cues[i].from) <= Read(cues[i].to)
    <3>1. segments[i].start <= segments[i].end
      BY <2>1 DEF IInv, SegmentsOK
    <3> QED
      BY <2>1, <3>1, OneCue, ReadMonotone
  <2>3. ASSUME NEW i \in 1..(Len(cues) - 1)
        PROVE  Read(cues[i].to) <= Read(cues[i + 1].from)
    <3>1. i \in DOMAIN segments /\ i + 1 \in DOMAIN segments
      BY <2>1
    <3>2. segments[i].end <= segments[i + 1].start
      BY <2>1 DEF IInv, SegmentsOK
    <3> QED
      BY <3>1, <3>2, OneCue, ReadMonotone
  <2> QED
    BY <2>2, <2>3 DEF CuesInOrder
<1> QED
  BY Invariance, <1>1, PTL
==============================================================================
