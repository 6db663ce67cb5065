---------------------------- MODULE ChunkingProofs ----------------------------
(***************************************************************************)
(* Proofs about merge_intervals_to_chunks for every VAD_* setting, audio   *)
(* length and sequence of intervals: the inductive invariant of            *)
(* Chunking.tla, hence every invariant that its run checks.                *)
(***************************************************************************)
EXTENDS Chunking, TLAPS

(* Arithmetic of the parts. *)

LEMMA Monotone ==
  ASSUME NEW a \in Int, NEW b \in Int, NEW c \in Nat, a <= b
  PROVE  a * c <= b * c
OBVIOUS

\* int(d / strict_limit) + 1 parts are enough, and not too many.
LEMMA PartsBound ==
  ASSUME NEW d \in Nat \ {0}
  PROVE  /\ Parts(d) \in Nat \ {0}
         /\ d <= Parts(d) * StrictLimit
         /\ Parts(d) > 1 => d > StrictLimit /\ 2 * d > Parts(d) * StrictLimit
<1>1. StrictLimit \in Nat \ {0}
  BY ChunkingAssumption
<1>2. \A m \in Nat, b \in Nat \ {0} :
        m = b * (m \div b) + (m % b) /\ m % b \in 0..(b - 1) /\ m \div b \in Nat
  OBVIOUS
<1>3. d = StrictLimit * (d \div StrictLimit) + (d % StrictLimit)
      /\ d % StrictLimit \in 0..(StrictLimit - 1) /\ d \div StrictLimit \in Nat
  BY <1>1, <1>2
<1>4. d <= (d \div StrictLimit + 1) * StrictLimit
  BY <1>1, <1>3
<1>5. d > StrictLimit => 2 * d > (d \div StrictLimit + 1) * StrictLimit
  <2>1. (d \div StrictLimit + 1) * StrictLimit
          = StrictLimit * (d \div StrictLimit) + StrictLimit
    BY <1>1, <1>3
  <2> QED
    BY <1>1, <1>3, <2>1
<1> QED
  BY <1>1, <1>3, <1>4, <1>5 DEF Parts

\* A piece is as long as its block divided by the number of parts.
LEMMA PieceLength ==
  ASSUME NEW p \in Piece
  PROVE  From(p) \in Int /\ To(p) \in Int /\ To(p) - From(p) = Dur(p.block)
<1>1. p.part \in Nat /\ p.of \in Nat /\ p.block.start \in Int /\ Dur(p.block) \in Int
  BY DEF Piece, Interval, Dur
<1>2. p.part * Dur(p.block) - (p.part - 1) * Dur(p.block) = Dur(p.block)
  BY <1>1
<1> QED
  BY <1>1, <1>2 DEF From, To

\* What a flush appends.
LEMMA FlushedPieces ==
  ASSUME NEW c \in Interval, Dur(c) > 0, NEW n, n = Parts(Dur(c))
  PROVE  /\ n \in Nat \ {0}
         /\ Pieces(c) \in Seq(Piece) /\ Len(Pieces(c)) = n
         /\ \A k \in 1..n : Pieces(c)[k] = [block |-> c, part |-> k, of |-> n]
<1>1. Dur(c) \in Nat \ {0}
  BY DEF Dur, Interval
<1>2. n \in Nat \ {0}
  BY <1>1, PartsBound
<1>3. Pieces(c) = [k \in 1..n |-> [block |-> c, part |-> k, of |-> n]]
  BY DEF Pieces
<1>4. \A k \in 1..n : [block |-> c, part |-> k, of |-> n] \in Piece
  BY <1>2 DEF Piece
<1> QED
  BY <1>2, <1>3, <1>4

\* The parts of a block follow one another from its start to its end.
LEMMA FlushedOrder ==
  ASSUME NEW c \in Interval, Dur(c) > 0, NEW n, n = Parts(Dur(c))
  PROVE  /\ \A k \in 1..(n - 1) :
              To(Pieces(c)[k]) * Pieces(c)[k + 1].of
                <= From(Pieces(c)[k + 1]) * Pieces(c)[k].of
         /\ From(Pieces(c)[1]) = n * c.start
         /\ To(Pieces(c)[n]) = n * c.end
<1>1. n \in Nat \ {0} /\ c.start \in Int /\ c.end \in Int /\ Dur(c) \in Int
  BY FlushedPieces DEF Interval, Dur
<1>2. \A k \in 1..n : /\ Pieces(c)[k].of = n
                      /\ From(Pieces(c)[k]) = n * c.start + (k - 1) * Dur(c)
                      /\ To(Pieces(c)[k]) = n * c.start + k * Dur(c)
  <2> TAKE k \in 1..n
  <2>1. Pieces(c)[k] = [block |-> c, part |-> k, of |-> n]
    BY FlushedPieces
  <2>2. Pieces(c)[k].of = n /\ Pieces(c)[k].part = k /\ Pieces(c)[k].block = c
    BY <2>1
  <2> QED
    BY <2>2 DEF From, To
<1>3. \A k \in 1..(n - 1) :
        To(Pieces(c)[k]) * Pieces(c)[k + 1].of
          <= From(Pieces(c)[k + 1]) * Pieces(c)[k].of
  <2> TAKE k \in 1..(n - 1)
  <2>1. k \in 1..n /\ k + 1 \in 1..n /\ (k + 1) - 1 = k
    BY <1>1
  <2>2. To(Pieces(c)[k]) = From(Pieces(c)[k + 1])
        /\ Pieces(c)[k].of = n /\ Pieces(c)[k + 1].of = n
    BY <1>2, <2>1
  <2>3. To(Pieces(c)[k]) \in Int
    BY <1>1, <1>2, <2>1
  <2> QED
    BY <1>1, <2>2, <2>3
<1>4. From(Pieces(c)[1]) = n * c.start
  BY <1>1, <1>2
<1>5. n * c.start + n * Dur(c) = n * c.end
  BY <1>1 DEF Dur
<1> QED
  BY <1>1, <1>2, <1>3, <1>4, <1>5

------------------------------------------------------------------------------
(* Growing sequences. *)

LEMMA Concat ==
  ASSUME NEW S, NEW s \in Seq(S), NEW t \in Seq(S)
  PROVE  /\ s \o t \in Seq(S) /\ Len(s \o t) = Len(s) + Len(t)
         /\ \A k \in DOMAIN s : k \in DOMAIN (s \o t) /\ (s \o t)[k] = s[k]
         /\ \A k \in DOMAIN t : Len(s) + k \in DOMAIN (s \o t)
                                /\ (s \o t)[Len(s) + k] = t[k]
         /\ \A k \in DOMAIN (s \o t) :
              \/ k \in DOMAIN s
              \/ k - Len(s) \in DOMAIN t /\ k = Len(s) + (k - Len(s))
OBVIOUS

\* What is covered stays covered.
LEMMA CoveredGrows ==
  ASSUME NEW cs \in Seq(Piece), NEW ds \in Seq(Piece), NEW i, Covered(cs, i)
  PROVE  Covered(cs \o ds, i)
<1> DEFINE all == cs \o ds
<1>1. PICK k \in DOMAIN cs :
        /\ cs[k].block.start <= i.start /\ i.end <= cs[k].block.end
        /\ \A part \in 1..cs[k].of : \E m \in DOMAIN cs :
             cs[m] = [block |-> cs[k].block, part |-> part, of |-> cs[k].of]
  BY DEF Covered
<1>2. \A m \in DOMAIN cs : m \in DOMAIN all /\ all[m] = cs[m]
  BY Concat
<1> HIDE DEF all
<1>3. \A part \in 1..all[k].of : \E m \in DOMAIN all :
        all[m] = [block |-> all[k].block, part |-> part, of |-> all[k].of]
  BY <1>1, <1>2
<1>4. \E w \in DOMAIN all :
        /\ all[w].block.start <= i.start /\ i.end <= all[w].block.end
        /\ \A part \in 1..all[w].of : \E m \in DOMAIN all :
             all[m] = [block |-> all[w].block, part |-> part, of |-> all[w].of]
  <2>1. k \in DOMAIN all /\ all[k].block.start <= i.start /\ i.end <= all[k].block.end
    BY <1>1, <1>2
  <2> QED
    BY <2>1, <1>3, Zenon
<1> QED
  BY <1>4 DEF Covered, all

\* A flush covers every interval of the block.
LEMMA CoveredByFlush ==
  ASSUME NEW cs \in Seq(Piece), NEW c \in Interval, Dur(c) > 0, NEW i,
         c.start <= i.start, i.end <= c.end
  PROVE  Covered(cs \o Pieces(c), i)
<1> DEFINE n == Parts(Dur(c))
           all == cs \o Pieces(c)
<1>1. n \in Nat \ {0} /\ Pieces(c) \in Seq(Piece) /\ Len(Pieces(c)) = n
      /\ \A k \in 1..n : Pieces(c)[k] = [block |-> c, part |-> k, of |-> n]
  BY FlushedPieces
<1> HIDE DEF n
<1>2. \A k \in 1..n : Len(cs) + k \in DOMAIN all
                      /\ all[Len(cs) + k] = [block |-> c, part |-> k, of |-> n]
  BY <1>1, Concat
<1>3. 1 \in 1..n
  BY <1>1
<1> HIDE DEF all
<1>4. Len(cs) + 1 \in DOMAIN all /\ all[Len(cs) + 1] = [block |-> c, part |-> 1, of |-> n]
  BY <1>2, <1>3
<1>5. all[Len(cs) + 1].block = c /\ all[Len(cs) + 1].of = n
  BY <1>4
<1>6. \A part \in 1..n : \E m \in DOMAIN all :
        all[m] = [block |-> c, part |-> part, of |-> n]
  BY <1>2
<1>7. \E w \in DOMAIN all :
        /\ all[w].block.start <= i.start /\ i.end <= all[w].block.end
        /\ \A part \in 1..all[w].of : \E m \in DOMAIN all :
             all[m] = [block |-> all[w].block, part |-> part, of |-> all[w].of]
  <2> DEFINE w == Len(cs) + 1
  <2>1. /\ w \in DOMAIN all /\ all[w].block.start <= i.start /\ i.end <= all[w].block.end
        /\ \A part \in 1..all[w].of : \E m \in DOMAIN all :
             all[m] = [block |-> all[w].block, part |-> part, of |-> all[w].of]
    BY <1>4, <1>5, <1>6
  <2> HIDE DEF w
  <2> QED
    BY <2>1, Zenon
<1> QED
  BY <1>7 DEF Covered, all

\* A chunk after a flush is an old one or a part of the block flushed.
LEMMA FlushedBlocks ==
  ASSUME NEW cs \in Seq(Piece), NEW c \in Interval, Dur(c) > 0
  PROVE  \A k \in DOMAIN (cs \o Pieces(c)) :
           \/ k \in DOMAIN cs /\ (cs \o Pieces(c))[k] = cs[k]
           \/ /\ (cs \o Pieces(c))[k].block = c
              /\ (cs \o Pieces(c))[k].of = Parts(Dur(c))
<1> DEFINE n == Parts(Dur(c))
           new == Pieces(c)
<1>1. /\ new \in Seq(Piece) /\ DOMAIN new = 1..n
      /\ \A w \in 1..n : new[w] = [block |-> c, part |-> w, of |-> n]
  BY FlushedPieces
<1> HIDE DEF n, new
<1> SUFFICES ASSUME NEW k \in DOMAIN (cs \o new)
             PROVE  \/ k \in DOMAIN cs /\ (cs \o new)[k] = cs[k]
                    \/ (cs \o new)[k].block = c /\ (cs \o new)[k].of = n
  BY DEF n, new
<1>2. k \in DOMAIN cs => (cs \o new)[k] = cs[k]
  BY <1>1, Concat
<1>3. k \in DOMAIN cs \/
        (k - Len(cs) \in DOMAIN new /\ k = Len(cs) + (k - Len(cs)))
  BY <1>1, Concat
<1>4. \A w \in DOMAIN new : (cs \o new)[Len(cs) + w] = new[w]
  <2>1. new \in Seq(Piece)
    BY <1>1
  <2> QED
    BY <2>1, Concat
<1>5. \A w \in DOMAIN new : new[w].block = c /\ new[w].of = n
  BY <1>1
<1> QED
  BY <1>2, <1>3, <1>4, <1>5

LEMMA PausesStay ==
  ASSUME NEW sp \in Seq(Interval), NEW c \in Interval, NEW b, CutInPauses(sp, b)
  PROVE  CutInPauses(Append(sp, c), b)
<1>1. PICK i, j \in DOMAIN sp :
        /\ i <= j /\ b.start = sp[i].start /\ b.end = sp[j].end
        /\ Dur(b) > MaxDuration /\ i < j =>
             sp[j - 1].end - sp[i].start <= NewChunkThreshold
  BY DEF CutInPauses
<1>2. i \in DOMAIN Append(sp, c) /\ j \in DOMAIN Append(sp, c)
      /\ Append(sp, c)[i] = sp[i] /\ Append(sp, c)[j] = sp[j]
  OBVIOUS
<1>3. i < j => Append(sp, c)[j - 1] = sp[j - 1]
  OBVIOUS
<1> QED
  BY <1>1, <1>2, <1>3 DEF CutInPauses

\* What could not be merged with what followed cannot be later.
LEMMA TooLongStays ==
  ASSUME NEW sp \in Seq(Interval), NEW c \in Interval, NEW b, WouldBeTooLong(sp, b)
  PROVE  WouldBeTooLong(Append(sp, c), b)
<1>1. PICK i \in DOMAIN sp :
        i < Len(sp) /\ b.end = sp[i].end /\ sp[i + 1].end - b.start > MaxDuration
  BY DEF WouldBeTooLong
<1>2. /\ i \in DOMAIN Append(sp, c) /\ i < Len(Append(sp, c))
      /\ Append(sp, c)[i] = sp[i] /\ Append(sp, c)[i + 1] = sp[i + 1]
  BY <1>1
<1> QED
  BY <1>1, <1>2 DEF WouldBeTooLong

------------------------------------------------------------------------------
(* The two kinds of step. *)

InAudio(b) == 0 <= b.start /\ b.end <= duration

\* A part of a block is no more out of the audio than its block.
LEMMA PieceInAudio ==
  ASSUME TypeOK, NEW p \in Piece, InAudio(p.block), Dur(p.block) > 0,
         p.part \in 1..p.of
  PROVE  0 <= From(p) /\ To(p) <= p.of * duration
<1>1. /\ p.part \in Nat /\ p.of \in Nat /\ p.block.start \in Nat /\ p.block.end \in Int
      /\ Dur(p.block) \in Nat /\ duration \in Nat
  BY DEF Piece, Interval, Dur, InAudio, TypeOK
<1>2. (p.part - 1) * Dur(p.block) >= 0 /\ p.of * p.block.start >= 0
  BY <1>1
<1>3. p.part * Dur(p.block) <= p.of * Dur(p.block)
  BY <1>1, Monotone
<1>4. p.of * p.block.start + p.of * Dur(p.block) = p.of * p.block.end
  BY <1>1 DEF Dur
<1>5. p.block.end * p.of <= duration * p.of
  BY <1>1, Monotone DEF InAudio
<1>6. 0 <= From(p)
  BY <1>1, <1>2 DEF From
<1>7. To(p) <= p.of * p.block.end
  BY <1>1, <1>3, <1>4 DEF To
<1> QED
  BY <1>1, <1>5, <1>6, <1>7 DEF To

\* A flush keeps every property of the chunks.
LEMMA FlushInv ==
  ASSUME TypeOK, FitsTheModel, NoBlips, PartsOK, InOrder, ChunksBehind,
         phase = "merging", Dur(current) > NewChunkThreshold, InAudio(current),
         duration' = duration,
         chunks' = chunks \o Pieces(current)
  PROVE  /\ chunks' \in Seq(Piece)
         /\ FitsTheModel' /\ NoBlips' /\ PartsOK' /\ InOrder'
         /\ chunks' # <<>>
         /\ To(chunks'[Len(chunks')]) = chunks'[Len(chunks')].of * current.end
         /\ chunks'[Len(chunks')].of \in Nat
<1> DEFINE n == Parts(Dur(current))
           new == Pieces(current)
           L == Len(chunks)
<1>1. chunks \in Seq(Piece) /\ current \in Interval /\ Dur(current) \in Nat \ {0}
      /\ L \in Nat /\ DOMAIN chunks = 1..L
  BY ChunkingAssumption DEF TypeOK, Dur, Interval
<1>2. /\ n \in Nat \ {0} /\ Dur(current) <= n * StrictLimit
      /\ new \in Seq(Piece) /\ Len(new) = n /\ DOMAIN new = 1..n
      /\ \A k \in 1..n : new[k] = [block |-> current, part |-> k, of |-> n]
  BY <1>1, FlushedPieces, PartsBound
<1>3. /\ \A k \in 1..(n - 1) : To(new[k]) * new[k + 1].of <= From(new[k + 1]) * new[k].of
      /\ From(new[1]) = n * current.start
      /\ To(new[n]) = n * current.end
  BY <1>1, FlushedOrder
<1> HIDE DEF n, new
<1>4. /\ chunks' \in Seq(Piece) /\ Len(chunks') = L + n /\ DOMAIN chunks' = 1..(L + n)
      /\ \A k \in 1..L : chunks'[k] = chunks[k]
      /\ \A k \in 1..n : chunks'[L + k] = new[k]
      /\ \A k \in 1..(L + n) : k \in 1..L \/ (k - L \in 1..n /\ chunks'[k] = new[k - L])
  <2>1. chunks' = chunks \o new
    BY DEF new
  <2>2. chunks' \in Seq(Piece) /\ Len(chunks') = L + n /\ DOMAIN chunks' = 1..(L + n)
    <3>1. chunks' \in Seq(Piece) /\ Len(chunks') = L + n
      BY <1>1, <1>2, <2>1, Concat
    <3> QED
      BY <3>1
  <2>3. \A k \in 1..L : chunks'[k] = chunks[k]
    BY <1>1, <1>2, <2>1
  <2>4. \A k \in 1..n : chunks'[L + k] = new[k]
    BY <1>1, <1>2, <2>1
  <2>5. \A k \in 1..(L + n) : k \in 1..L \/ (k - L \in 1..n /\ chunks'[k] = new[k - L])
    <3> SUFFICES ASSUME NEW k \in 1..(L + n), k \notin 1..L
                 PROVE  k - L \in 1..n /\ chunks'[k] = new[k - L]
      OBVIOUS
    <3>1. k - L \in 1..n /\ L + (k - L) = k
      BY <1>1, <1>2
    <3> QED
      BY <2>4, <3>1
  <2> QED
    BY <2>2, <2>3, <2>4, <2>5
<1>5. \A k \in 1..n : /\ new[k].of = n /\ new[k].block = current
                      /\ To(new[k]) - From(new[k]) = Dur(current)
                      /\ To(new[k]) \in Int /\ From(new[k]) \in Int
                      /\ 0 <= From(new[k]) /\ To(new[k]) <= n * duration
  <2> TAKE k \in 1..n
  <2>1. new[k] = [block |-> current, part |-> k, of |-> n] /\ new[k] \in Piece
    BY <1>2
  <2>2. new[k].of = n /\ new[k].block = current /\ new[k].part = k
    BY <2>1
  <2>3. 0 <= From(new[k]) /\ To(new[k]) <= new[k].of * duration
    BY <1>1, <2>1, <2>2, PieceInAudio
  <2> QED
    BY <2>1, <2>2, <2>3, PieceLength
<1>6. FitsTheModel'
  <2> SUFFICES ASSUME NEW k \in 1..(L + n)
               PROVE  /\ To(chunks'[k]) - From(chunks'[k]) <= chunks'[k].of * StrictLimit
                      /\ From(chunks'[k]) < To(chunks'[k])
                      /\ 0 <= From(chunks'[k])
                      /\ To(chunks'[k]) <= chunks'[k].of * duration
    BY <1>4 DEF FitsTheModel, From, To
  <2>1. CASE k \in 1..L
    BY <1>1, <1>4, <2>1 DEF FitsTheModel
  <2>2. CASE k - L \in 1..n /\ chunks'[k] = new[k - L]
    BY <1>1, <1>2, <1>5, <2>2
  <2> QED
    BY <1>4, <2>1, <2>2
<1>7. NoBlips' /\ PartsOK'
  <2> SUFFICES ASSUME NEW k \in 1..(L + n)
               PROVE  Dur(chunks'[k].block) > NewChunkThreshold /\ chunks'[k].of > 0
    BY <1>4 DEF NoBlips, PartsOK, Dur
  <2>1. CASE k \in 1..L
    BY <1>1, <1>4, <2>1 DEF NoBlips, PartsOK
  <2>2. CASE k - L \in 1..n /\ chunks'[k] = new[k - L]
    BY <1>2, <1>5, <2>2
  <2> QED
    BY <1>4, <2>1, <2>2
<1>8. InOrder'
  <2> SUFFICES ASSUME NEW k \in 1..(L + n - 1)
               PROVE  To(chunks'[k]) * chunks'[k + 1].of
                        <= From(chunks'[k + 1]) * chunks'[k].of
    <3>1. Len(chunks') - 1 = L + n - 1
      BY <1>1, <1>2, <1>4
    <3> QED
      BY <3>1, Zenon DEF InOrder
  <2>1. CASE k < L
    <3>1. k \in 1..(L - 1) /\ chunks'[k] = chunks[k] /\ chunks'[k + 1] = chunks[k + 1]
      BY <1>1, <1>4, <2>1
    <3> QED
      BY <3>1 DEF InOrder
  <2>2. CASE k = L
    <3>1. chunks'[k] = chunks[L] /\ chunks'[k + 1] = new[1] /\ L \in 1..L /\ chunks # <<>>
      BY <1>1, <1>2, <1>4, <2>2
    <3>2. chunks[L] \in Piece /\ chunks[L].of \in Nat /\ To(chunks[L]) \in Int
      <4>1. chunks[L] \in Piece
        BY <1>1, <3>1
      <4> QED
        BY <4>1, PieceLength DEF Piece
    <3>3. To(chunks[L]) <= chunks[L].of * current.start
      BY <3>1 DEF ChunksBehind
    <3>4. current.start \in Int /\ chunks[L].of * current.start \in Int
      BY <1>1, <3>2 DEF Interval
    <3>5. To(chunks[L]) * n <= (chunks[L].of * current.start) * n
      BY <1>2, <3>2, <3>3, <3>4, Monotone
    <3>6. (chunks[L].of * current.start) * n = (n * current.start) * chunks[L].of
      BY <1>2, <3>2, <3>4
    <3>7. new[1].of = n
      BY <1>2, <1>5
    <3> QED
      BY <1>3, <3>1, <3>5, <3>6, <3>7
  <2>3. CASE k > L
    <3>1. k - L \in 1..(n - 1) /\ k - L \in 1..n /\ (k - L) + 1 \in 1..n
      BY <1>1, <1>2, <2>3
    <3>2. chunks'[L + (k - L)] = new[k - L] /\ chunks'[L + ((k - L) + 1)] = new[(k - L) + 1]
      BY <1>4, <3>1
    <3>3. L + (k - L) = k /\ L + ((k - L) + 1) = k + 1
      BY <1>1
    <3>4. chunks'[k] = new[k - L] /\ chunks'[k + 1] = new[(k - L) + 1]
      BY <3>2, <3>3
    <3>5. To(new[k - L]) * new[(k - L) + 1].of <= From(new[(k - L) + 1]) * new[k - L].of
      BY <1>3, <3>1
    <3> QED
      BY <3>4, <3>5, Zenon
  <2>4. k < L \/ k = L \/ k > L
    <3>1. L \in Int /\ n \in Int /\ k \in Int
      BY <1>1, <1>2
    <3> HIDE DEF L
    <3> QED
      BY <3>1
  <2> QED
    BY <2>1, <2>2, <2>3, <2>4, Zenon
<1>9. /\ chunks' # <<>>
      /\ To(chunks'[Len(chunks')]) = chunks'[Len(chunks')].of * current.end
      /\ chunks'[Len(chunks')].of \in Nat
  <2>1. chunks'[L + n] = new[n] /\ n \in 1..n
    BY <1>2, <1>4
  <2> QED
    BY <1>2, <1>3, <1>4, <1>5, <2>1
<1> QED
  BY <1>4, <1>6, <1>7, <1>8, <1>9

\* An interval that is read lies in the audio, after all before it.
LEMMA RawFacts ==
  ASSUME TypeOK, NEW raw \in Raw
  PROVE  /\ Clamp(raw) \in Interval
         /\ 0 <= Clamp(raw).start /\ Clamp(raw).start < Clamp(raw).end
         /\ Clamp(raw).end <= duration
         /\ speech # <<>> => speech[Len(speech)].end <= Clamp(raw).start
BY DEF TypeOK, Raw, Clamp, Interval

LEMMA InitInv == Init => IInv
<1> SUFFICES ASSUME Init PROVE IInv
  OBVIOUS
<1>1. duration \in Nat
  BY ChunkingAssumption DEF Init
<1>2. speech \in Seq(Interval) /\ chunks \in Seq(Piece) /\ current \in Interval
  BY DEF Init, Interval
<1>3. TypeOK
  BY <1>1, <1>2 DEF Init, TypeOK
<1> QED
  BY <1>3 DEF Init, IInv, SpeechSorted, CurrentIsTheRest, ChunksBehind, PartsOK,
              FitsTheModel, InOrder, SpeechKept, CutsInPauses, NoBlips, NoNeedlessCuts

\* What the loop knows when there is something in the current block.
LEMMA BlockOfSpeech ==
  ASSUME TypeOK, SpeechSorted, NEW m \in DOMAIN speech, RestFrom(m)
  PROVE  /\ current \in Interval /\ Dur(current) > 0
         /\ \A i \in DOMAIN speech : i < m \/
              (current.start <= speech[i].start /\ speech[i].end <= current.end)
         /\ CutInPauses(speech, current) /\ InAudio(current)
<1> DEFINE L == Len(speech)
<1>1. /\ L \in Nat /\ DOMAIN speech = 1..L /\ m \in 1..L /\ L \in 1..L
      /\ current.start = speech[m].start /\ current.end = speech[L].end
      /\ current \in Interval
  BY DEF TypeOK, RestFrom
<1>2. \A i \in 1..L : /\ speech[i].start \in Int /\ speech[i].end \in Int
                      /\ speech[i].start < speech[i].end
  <2>1. \A i \in 1..L : speech[i] \in Interval /\ speech[i].start < speech[i].end
    BY <1>1 DEF TypeOK
  <2> QED
    BY <2>1 DEF Interval
<1>3. \A i, j \in 1..L : i < j => speech[i].end <= speech[j].start
  BY <1>1 DEF SpeechSorted
<1>4. \A i, j \in 1..L : i <= j =>
        speech[i].start <= speech[j].start /\ speech[i].end <= speech[j].end
  <2> TAKE i, j \in 1..L
  <2>1. CASE i = j
    BY <1>2, <2>1
  <2>2. CASE i < j
    BY <1>2, <1>3, <2>2
  <2> QED
    BY <1>1, <2>1, <2>2
<1>5. Dur(current) > 0
  BY <1>1, <1>2, <1>4 DEF Dur
<1>6. \A i \in DOMAIN speech : i < m \/
        (current.start <= speech[i].start /\ speech[i].end <= current.end)
  BY <1>1, <1>4
<1>7. CutInPauses(speech, current)
  <2>1. m <= L /\ (Dur(current) > MaxDuration /\ m < L =>
          speech[L - 1].end - speech[m].start <= NewChunkThreshold)
    BY <1>1 DEF RestFrom
  <2> QED
    BY <1>1, <2>1 DEF CutInPauses
<1>8. InAudio(current)
  BY <1>1 DEF InAudio, TypeOK
<1> QED
  BY <1>1, <1>5, <1>6, <1>7, <1>8

LEMMA ReadInv == ASSUME IInv, Read PROVE IInv'
<1> USE DEF IInv
<1> DEFINE L == Len(speech)
<1>1. PICK raw \in Raw : speech' = Append(speech, Clamp(raw)) /\ Merge(Clamp(raw))
  BY DEF Read
<1>2. phase = "merging" /\ phase' = "merging" /\ duration' = duration
  BY DEF Read
<1> DEFINE c == Clamp(raw)
<1>3. /\ c \in Interval /\ 0 <= c.start /\ c.start < c.end /\ c.end <= duration
      /\ speech # <<>> => speech[L].end <= c.start
  BY RawFacts
<1>4. speech' = Append(speech, c) /\ Merge(c)
  BY <1>1
<1> HIDE DEF c
<1>5. /\ speech \in Seq(Interval) /\ L \in Nat /\ DOMAIN speech = 1..L
      /\ speech' \in Seq(Interval) /\ Len(speech') = L + 1
      /\ DOMAIN speech' = 1..(L + 1)
      /\ \A i \in 1..L : speech'[i] = speech[i]
      /\ speech'[L + 1] = c
      /\ speech' # <<>>
  BY <1>3, <1>4 DEF TypeOK
<1>6. SpeechSorted'
  <2> SUFFICES ASSUME NEW i \in 1..(L + 1), NEW j \in 1..(L + 1), i < j
               PROVE  speech'[i].end <= speech'[j].start
    BY <1>5 DEF SpeechSorted
  <2>1. CASE j \in 1..L
    BY <1>5, <2>1 DEF SpeechSorted
  <2>2. CASE j = L + 1
    <3>1. i \in 1..L /\ L \in 1..L /\ speech # <<>>
      BY <1>5, <2>2
    <3>2. speech[L].end <= c.start
      BY <1>3, <3>1
    <3>3. speech[i].end <= speech[L].end
      <4>1. CASE i = L
        <5>1. speech[i] \in Interval
          BY <1>5, <3>1
        <5>2. speech[i].end \in Int
          BY <5>1 DEF Interval
        <5> QED
          BY <4>1, <5>2
      <4>2. CASE i < L
        <5>1. speech[i].end <= speech[L].start
          BY <1>5, <3>1, <4>2 DEF SpeechSorted
        <5>2. speech[L].start < speech[L].end
              /\ speech[L] \in Interval /\ speech[i] \in Interval
          BY <1>5, <3>1 DEF TypeOK
        <5> QED
          BY <5>1, <5>2 DEF Interval
      <4>3. i = L \/ i < L
        <5>1. L \in Int /\ i \in Int /\ i <= L
          BY <1>5, <3>1
        <5> HIDE DEF L
        <5> QED
          BY <5>1
      <4> QED
        BY <4>1, <4>2, <4>3
    <3>4. speech[L] \in Interval /\ speech[i] \in Interval
      BY <1>5, <3>1
    <3> QED
      BY <1>3, <1>5, <2>2, <3>1, <3>2, <3>3, <3>4 DEF Interval
  <2> QED
    BY <1>5, <2>1, <2>2
<1>7. CutsInPauses => \A k \in DOMAIN chunks :
        /\ CutInPauses(speech', chunks[k].block)
        /\ chunks[k].of > 1 => Dur(chunks[k].block) > StrictLimit
  BY <1>3, <1>4, <1>5, PausesStay DEF CutsInPauses
<1>7a. \A k \in DOMAIN chunks :
        /\ Dur(chunks[k].block) <= MinDuration => WouldBeTooLong(speech', chunks[k].block)
        /\ chunks[k].of > 1 => 2 * Dur(chunks[k].block) > chunks[k].of * StrictLimit
  BY <1>2, <1>3, <1>4, <1>5, TooLongStays DEF NoNeedlessCuts
<1>8. SpeechKept'
  BY <1>2 DEF SpeechKept
<1>9. \A i \in DOMAIN speech' :
        0 <= speech'[i].start /\ speech'[i].start < speech'[i].end
        /\ speech'[i].end <= duration'
  BY <1>2, <1>3, <1>5 DEF TypeOK
<1>10. CASE Dur(current) = 0 /\ current' = c /\ UNCHANGED chunks
  <2>1. speech = <<>>
    <3> SUFFICES ASSUME speech # <<>> PROVE FALSE
      OBVIOUS
    <3>1. PICK m \in DOMAIN speech : RestFrom(m)
      BY <1>2 DEF CurrentIsTheRest
    <3> QED
      BY <1>10, <3>1, BlockOfSpeech
  <2>2. chunks = <<>> /\ L = 0
    BY <1>2, <2>1 DEF CurrentIsTheRest
  <2>3. CurrentIsTheRest'
    <3>1. 1 \in DOMAIN speech' /\ speech'[1] = c /\ Len(speech') = 1
      BY <1>5, <2>2
    <3>2. RestFrom(1)'
      BY <1>10, <3>1 DEF RestFrom
    <3> QED
      BY <1>2, <1>5, <3>1, <3>2 DEF CurrentIsTheRest
  <2>4. TypeOK'
    BY <1>2, <1>3, <1>5, <1>9, <1>10 DEF TypeOK
  <2>5. /\ ChunksBehind' /\ PartsOK' /\ FitsTheModel' /\ InOrder'
        /\ CutsInPauses' /\ NoBlips' /\ NoNeedlessCuts'
    BY <1>10, <2>2
    DEF ChunksBehind, PartsOK, FitsTheModel, InOrder, CutsInPauses, NoBlips, NoNeedlessCuts
  <2> QED
    BY <1>6, <1>8, <2>3, <2>4, <2>5
<1>11. ASSUME Dur(current) # 0
       PROVE  \E m \in DOMAIN speech : RestFrom(m)
  <2>1. speech # <<>>
    BY <1>2, <1>11 DEF CurrentIsTheRest, Dur
  <2> QED
    BY <1>2, <2>1 DEF CurrentIsTheRest
<1>12. CASE /\ Dur(current) # 0 /\ Full(c)
            /\ chunks' = chunks \o Pieces(current)
            /\ current' = c
  <2>1. PICK m \in DOMAIN speech : RestFrom(m)
    BY <1>11, <1>12
  <2>2. /\ current \in Interval /\ Dur(current) > 0
        /\ \A i \in DOMAIN speech : i < m \/
             (current.start <= speech[i].start /\ speech[i].end <= current.end)
        /\ CutInPauses(speech, current) /\ InAudio(current)
    BY <2>1, BlockOfSpeech
  <2>3. Dur(current) > NewChunkThreshold
    BY <1>12 DEF Full
  <2>4. /\ chunks' \in Seq(Piece)
        /\ FitsTheModel' /\ NoBlips' /\ PartsOK' /\ InOrder'
        /\ chunks' # <<>>
        /\ To(chunks'[Len(chunks')]) = chunks'[Len(chunks')].of * current.end
        /\ chunks'[Len(chunks')].of \in Nat
    BY <1>2, <1>12, <2>2, <2>3, FlushInv
  <2>5. TypeOK'
    BY <1>2, <1>3, <1>5, <1>9, <1>12, <2>4 DEF TypeOK
  <2>6. CurrentIsTheRest'
    <3>1. \A i \in 1..L : Covered(chunks', speech'[i])
      <4> TAKE i \in 1..L
      <4>1. speech'[i] = speech[i]
        BY <1>5
      <4>2. CASE i < m
        <5>1. Covered(chunks, speech[i])
          BY <1>5, <2>1, <4>2 DEF RestFrom
        <5>2. Pieces(current) \in Seq(Piece) /\ chunks \in Seq(Piece)
          BY <2>2, FlushedPieces DEF TypeOK
        <5> QED
          BY <1>12, <4>1, <5>1, <5>2, CoveredGrows
      <4>3. CASE current.start <= speech[i].start /\ speech[i].end <= current.end
        <5>1. chunks \in Seq(Piece)
          BY DEF TypeOK
        <5> QED
          BY <1>12, <2>2, <4>1, <4>3, <5>1, CoveredByFlush
      <4> QED
        BY <1>5, <2>2, <4>2, <4>3
    <3>2. L + 1 \in DOMAIN speech' /\ speech'[L + 1] = c /\ Len(speech') = L + 1
      BY <1>5
    <3>3. RestFrom(Len(speech))'
      <4>1. ~(Len(speech') < Len(speech'))
        BY <1>5, <3>2
      <4>2. \A i \in 1..(Len(speech') - 1) : Covered(chunks', speech'[i])
        BY <1>5, <3>1, <3>2
      <4> QED
        BY <1>12, <3>2, <4>1, <4>2 DEF RestFrom
    <3>4. Len(speech') \in DOMAIN speech'
      BY <3>2
    <3> QED
      BY <1>2, <1>5, <3>3, <3>4 DEF CurrentIsTheRest, RestFrom
  <2>7. ChunksBehind'
    <3>1. current.end <= c.start
      BY <1>3, <1>5, <2>1 DEF RestFrom
    <3>2. current.end \in Int /\ c.start \in Int
      BY <1>3, <2>2 DEF Interval
    <3>3. chunks'[Len(chunks')].of * current.end <= chunks'[Len(chunks')].of * c.start
      BY <2>4, <3>1, <3>2, Monotone
    <3>4. To(chunks'[Len(chunks')]) <= chunks'[Len(chunks')].of * current'.start
      BY <1>12, <2>4, <3>3
    <3> QED
      BY <3>4 DEF ChunksBehind, To, Dur
  <2>8. CutsInPauses'
    <3>1. CutInPauses(speech', current)
      BY <1>3, <1>4, <1>5, <2>2, PausesStay
    <3>2. Dur(current) \in Nat \ {0}
      BY <2>2 DEF Dur, Interval
    <3>3. \A k \in DOMAIN chunks' : \/ k \in DOMAIN chunks /\ chunks'[k] = chunks[k]
                                  \/ /\ chunks'[k].block = current
                                     /\ chunks'[k].of = Parts(Dur(current))
      <4>1. chunks \in Seq(Piece)
        BY DEF TypeOK
      <4> QED
        BY <1>12, <2>2, <4>1, FlushedBlocks
    <3>4. \A k \in DOMAIN chunks' :
            /\ CutInPauses(speech', chunks'[k].block)
            /\ chunks'[k].of > 1 => Dur(chunks'[k].block) > StrictLimit
      BY <1>7, <3>1, <3>2, <3>3, PartsBound
    <3> QED
      BY <3>4 DEF CutsInPauses, CutInPauses, Dur
  <2>9. NoNeedlessCuts'
    <3>1. Dur(current) \in Nat \ {0}
      BY <2>2 DEF Dur, Interval
    <3>2. Dur(current) <= MinDuration => WouldBeTooLong(speech', current)
      <4> SUFFICES ASSUME Dur(current) <= MinDuration
                   PROVE  WouldBeTooLong(speech', current)
        OBVIOUS
      <4>1. Dur(current) + (c.end - current.end) > MaxDuration
        BY <1>12, <3>1, ChunkingAssumption DEF Full
      <4>2. c.end - current.start > MaxDuration
        BY <1>3, <2>2, <4>1 DEF Dur, Interval
      <4>3. L \in 1..L /\ L \in DOMAIN speech' /\ L < Len(speech')
        BY <1>5
      <4>4. speech'[L].end = current.end /\ speech'[L + 1] = c
        BY <1>5, <2>1, <4>3 DEF RestFrom
      <4> QED
        BY <4>2, <4>3, <4>4 DEF WouldBeTooLong
    <3>3. \A k \in DOMAIN chunks' : \/ k \in DOMAIN chunks /\ chunks'[k] = chunks[k]
                                  \/ /\ chunks'[k].block = current
                                     /\ chunks'[k].of = Parts(Dur(current))
      <4>1. chunks \in Seq(Piece)
        BY DEF TypeOK
      <4> QED
        BY <1>12, <2>2, <4>1, FlushedBlocks
    <3>4. \A k \in DOMAIN chunks' :
            /\ Dur(chunks'[k].block) <= MinDuration => WouldBeTooLong(speech', chunks'[k].block)
            /\ chunks'[k].of > 1 => 2 * Dur(chunks'[k].block) > chunks'[k].of * StrictLimit
      BY <1>7a, <3>1, <3>2, <3>3, PartsBound
    <3> QED
      BY <3>4 DEF NoNeedlessCuts, WouldBeTooLong, Dur
  <2> QED
    BY <1>6, <1>8, <2>4, <2>5, <2>6, <2>7, <2>8, <2>9
<1>13. CASE /\ Dur(current) # 0 /\ ~Full(c)
            /\ current' = [current EXCEPT !.end = c.end]
            /\ UNCHANGED chunks
  <2>1. PICK m \in DOMAIN speech : RestFrom(m)
    BY <1>11, <1>13
  <2>2. current \in Interval /\ Dur(current) > 0
    BY <2>1, BlockOfSpeech
  <2>3. current' \in Interval /\ current'.start = current.start /\ current'.end = c.end
    BY <1>3, <1>13, <2>2 DEF Interval
  <2>4. TypeOK'
    BY <1>2, <1>5, <1>9, <1>13, <2>3 DEF TypeOK
  <2>5. CurrentIsTheRest'
    <3>1. m \in 1..L /\ m \in DOMAIN speech' /\ speech'[m] = speech[m]
      BY <1>5
    <3>2. \A i \in 1..(m - 1) : Covered(chunks', speech'[i])
      BY <1>5, <1>13, <2>1, <3>1 DEF RestFrom
    <3>3. Dur(current') > MaxDuration =>
            speech'[L].end - speech'[m].start <= NewChunkThreshold
      <4>1. Dur(current') = Dur(current) + (c.end - current.end)
        BY <1>3, <2>2, <2>3 DEF Dur, Interval
      <4>2. Dur(current') > MaxDuration => Dur(current) <= NewChunkThreshold
        BY <1>13, <2>2, <4>1, ChunkingAssumption DEF Full, Dur, Interval
      <4>3. speech'[L].end - speech'[m].start = Dur(current)
        BY <1>5, <2>1, <3>1 DEF RestFrom, Dur
      <4> QED
        BY <4>2, <4>3
    <3>4. RestFrom(m)'
      BY <1>5, <2>1, <2>3, <3>1, <3>2, <3>3 DEF RestFrom, Dur
    <3> QED
      BY <1>2, <1>5, <3>1, <3>4 DEF CurrentIsTheRest
  <2>6. ChunksBehind'
    BY <1>2, <1>13, <2>3 DEF ChunksBehind, To, Dur
  <2>7. PartsOK' /\ FitsTheModel' /\ InOrder' /\ NoBlips'
    BY <1>2, <1>13 DEF PartsOK, FitsTheModel, InOrder, NoBlips, From, To, Dur
  <2>8. CutsInPauses'
    BY <1>7, <1>13 DEF CutsInPauses, CutInPauses, Dur
  <2>9. NoNeedlessCuts'
    BY <1>13, <1>7a DEF NoNeedlessCuts, WouldBeTooLong, Dur
  <2> QED
    BY <1>6, <1>8, <2>4, <2>5, <2>6, <2>7, <2>8, <2>9
<1> QED
  BY <1>4, <1>10, <1>12, <1>13 DEF Merge

LEMMA FinishInv == ASSUME IInv, Finish PROVE IInv'
<1> USE DEF IInv
<1> DEFINE L == Len(speech)
<1>1. phase = "merging" /\ phase' = "done" /\ UNCHANGED <<duration, speech, current>>
  BY DEF Finish
<1>2. SpeechSorted' /\ CurrentIsTheRest' /\ ChunksBehind'
  BY <1>1 DEF SpeechSorted, CurrentIsTheRest, ChunksBehind
<1>3. /\ speech \in Seq(Interval) /\ chunks \in Seq(Piece) /\ L \in Nat
      /\ DOMAIN speech = 1..L /\ Dur(current) \in Int
  BY DEF TypeOK, Interval, Dur
<1>4. speech = <<>> \/ \E m \in DOMAIN speech : RestFrom(m)
  BY <1>1 DEF CurrentIsTheRest
<1>5. CASE ~(Dur(current) > NewChunkThreshold)
  <2>1. chunks' = chunks
    BY <1>5 DEF Finish
  <2>2. TypeOK' /\ PartsOK' /\ FitsTheModel' /\ InOrder' /\ CutsInPauses' /\ NoBlips'
    BY <1>1, <2>1
    DEF TypeOK, PartsOK, FitsTheModel, InOrder, CutsInPauses, NoBlips
  <2>3. SpeechKept'
    <3>1. CASE speech = <<>>
      <4>1. L = 0
        BY <3>1
      <4>2. \E m \in 1..(Len(speech') + 1) :
              /\ \A i \in 1..(m - 1) : Covered(chunks', speech'[i])
              /\ m <= Len(speech') =>
                   speech'[Len(speech')].end - speech'[m].start <= NewChunkThreshold
        BY <1>1, <4>1
      <4> QED
        BY <4>2 DEF SpeechKept, Covered
    <3>2. CASE \E m \in DOMAIN speech : RestFrom(m)
      <4>1. PICK m \in DOMAIN speech : RestFrom(m)
        BY <3>2
      <4>2. m \in 1..(Len(speech') + 1)
        BY <1>1, <1>3
      <4>3. speech'[Len(speech')].end - speech'[m].start <= NewChunkThreshold
        BY <1>1, <1>3, <1>5, <4>1, ChunkingAssumption DEF RestFrom, Dur
      <4>4. \A i \in 1..(m - 1) : Covered(chunks', speech'[i])
        BY <1>1, <2>1, <4>1 DEF RestFrom
      <4>5. \E w \in 1..(Len(speech') + 1) :
              /\ \A i \in 1..(w - 1) : Covered(chunks', speech'[i])
              /\ w <= Len(speech') =>
                   speech'[Len(speech')].end - speech'[w].start <= NewChunkThreshold
        BY <4>2, <4>3, <4>4
      <4> QED
        BY <4>5 DEF SpeechKept, Covered
    <3> QED
      BY <1>4, <3>1, <3>2
  <2>4. NoNeedlessCuts'
    BY <1>1, <2>1 DEF NoNeedlessCuts, WouldBeTooLong, Dur
  <2> QED
    BY <1>2, <2>2, <2>3, <2>4
<1>6. CASE Dur(current) > NewChunkThreshold
  <2>1. chunks' = chunks \o Pieces(current)
    BY <1>6 DEF Finish
  <2>2. speech # <<>>
    BY <1>1, <1>6, ChunkingAssumption DEF CurrentIsTheRest, Dur
  <2>3. PICK m \in DOMAIN speech : RestFrom(m)
    BY <1>4, <2>2
  <2>4. /\ current \in Interval /\ Dur(current) > 0
        /\ \A i \in DOMAIN speech : i < m \/
             (current.start <= speech[i].start /\ speech[i].end <= current.end)
        /\ CutInPauses(speech, current) /\ InAudio(current)
    BY <2>3, BlockOfSpeech
  <2>5. /\ chunks' \in Seq(Piece)
        /\ FitsTheModel' /\ NoBlips' /\ PartsOK' /\ InOrder'
    BY <1>1, <1>6, <2>1, <2>4, FlushInv
  <2>6. TypeOK'
    BY <1>1, <2>5 DEF TypeOK
  <2>7. \A i \in 1..L : Covered(chunks', speech[i])
    <3> TAKE i \in 1..L
    <3>1. CASE i < m
      <4>1. Covered(chunks, speech[i])
        BY <1>3, <2>3, <3>1 DEF RestFrom
      <4>2. Pieces(current) \in Seq(Piece)
        BY <2>4, FlushedPieces
      <4> QED
        BY <1>3, <2>1, <4>1, <4>2, CoveredGrows
    <3>2. CASE current.start <= speech[i].start /\ speech[i].end <= current.end
      BY <1>3, <2>1, <2>4, <3>2, CoveredByFlush
    <3> QED
      BY <1>3, <2>4, <3>1, <3>2
  <2>8. SpeechKept'
    <3>1. Len(speech') + 1 \in 1..(Len(speech') + 1) /\ ~(Len(speech') + 1 <= Len(speech'))
      BY <1>1, <1>3
    <3>2. \A i \in 1..((Len(speech') + 1) - 1) : Covered(chunks', speech'[i])
      BY <1>1, <1>3, <2>7
    <3>3. \E w \in 1..(Len(speech') + 1) :
            /\ \A i \in 1..(w - 1) : Covered(chunks', speech'[i])
            /\ w <= Len(speech') =>
                 speech'[Len(speech')].end - speech'[w].start <= NewChunkThreshold
      BY <3>1, <3>2
    <3> QED
      BY <3>3 DEF SpeechKept, Covered
  <2>9. CutsInPauses'
    <3>1. Dur(current) \in Nat \ {0}
      BY <2>4 DEF Dur, Interval
    <3>2. \A k \in DOMAIN chunks' : \/ k \in DOMAIN chunks /\ chunks'[k] = chunks[k]
                                  \/ /\ chunks'[k].block = current
                                     /\ chunks'[k].of = Parts(Dur(current))
      BY <1>3, <2>1, <2>4, FlushedBlocks
    <3>3. \A k \in DOMAIN chunks' :
            /\ CutInPauses(speech, chunks'[k].block)
            /\ chunks'[k].of > 1 => Dur(chunks'[k].block) > StrictLimit
      BY <2>4, <3>1, <3>2, PartsBound DEF CutsInPauses
    <3> QED
      BY <1>1, <3>3 DEF CutsInPauses, CutInPauses, Dur
  <2>10. NoNeedlessCuts'
    <3>1. Dur(current) \in Nat \ {0}
      BY <2>4 DEF Dur, Interval
    <3>2. current.end = speech[Len(speech)].end
      BY <2>3 DEF RestFrom
    <3>3. \A k \in DOMAIN chunks' : \/ k \in DOMAIN chunks /\ chunks'[k] = chunks[k]
                                  \/ /\ chunks'[k].block = current
                                     /\ chunks'[k].of = Parts(Dur(current))
      BY <1>3, <2>1, <2>4, FlushedBlocks
    <3>4. \A k \in DOMAIN chunks' :
            /\ Dur(chunks'[k].block) <= MinDuration =>
                 \/ WouldBeTooLong(speech, chunks'[k].block)
                 \/ chunks'[k].block.end = speech[Len(speech)].end
            /\ chunks'[k].of > 1 => 2 * Dur(chunks'[k].block) > chunks'[k].of * StrictLimit
      BY <1>1, <3>1, <3>2, <3>3, PartsBound DEF NoNeedlessCuts
    <3> QED
      BY <1>1, <3>4 DEF NoNeedlessCuts, WouldBeTooLong, Dur
  <2> QED
    BY <1>2, <2>5, <2>6, <2>8, <2>9, <2>10
<1> QED
  BY <1>5, <1>6

LEMMA StutterInv == ASSUME IInv, UNCHANGED vars PROVE IInv'
<1>1. UNCHANGED <<duration, speech, current, chunks, phase>>
  BY DEF vars
<1> QED
  BY <1>1
  DEF IInv, TypeOK, SpeechSorted, CurrentIsTheRest, RestFrom, ChunksBehind, PartsOK,
      FitsTheModel, InOrder, SpeechKept, CutsInPauses, NoBlips, NoNeedlessCuts,
      WouldBeTooLong

\* The inductive invariant holds of every run of the merge.
THEOREM Invariance == Spec => []IInv
<1>1. Init => IInv
  BY InitInv
<1>2. IInv /\ [Next]_vars => IInv'
  BY ReadInv, FinishInv, StutterInv DEF Next
<1> QED
  BY <1>1, <1>2, PTL DEF Spec

\* Chunks and intervals are well formed and inside the audio.
THEOREM TypeCorrect == Spec => []TypeOK
<1>1. IInv => TypeOK
  BY DEF IInv
<1> QED
  BY <1>1, Invariance, PTL

\* VAD_STRICT_LIMIT is a hard maximum of what the model decodes at once, for
\* any settings, and every chunk lies in the audio.
THEOREM HardMaximum == Spec => []FitsTheModel
<1>1. IInv => FitsTheModel
  BY DEF IInv
<1> QED
  BY <1>1, Invariance, PTL

\* Chunks never overlap and never go back in time.
THEOREM NothingTwice == Spec => []InOrder
<1>1. IInv => InOrder
  BY DEF IInv
<1> QED
  BY <1>1, Invariance, PTL

\* No speech is lost but for a last stretch of at most new_chunk_threshold.
THEOREM NothingLost == Spec => []SpeechKept
<1>1. IInv => SpeechKept
  BY DEF IInv
<1> QED
  BY <1>1, Invariance, PTL

\* For all thresholds a block of at most min_duration is made only where it has
\* to end, and parts are longer than half of strict_limit.
THEOREM NothingCutNeedlessly == Spec => []NoNeedlessCuts
<1>1. IInv => NoNeedlessCuts
  BY DEF IInv
<1> QED
  BY <1>1, Invariance, PTL

\* Speech is cut only where a block is longer than strict_limit, and blocks
\* exceed max_duration only by their last interval; none is a mere blip.
THEOREM CutsAreSound == Spec => [](CutsInPauses /\ NoBlips)
<1>1. IInv => CutsInPauses /\ NoBlips
  BY DEF IInv
<1> QED
  BY <1>1, Invariance, PTL
===============================================================================
