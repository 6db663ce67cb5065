----------------------------- MODULE RunnerProofs -----------------------------
(***************************************************************************)
(* Proofs about runner.py for any number of calls and any MAX_QUEUE: the   *)
(* inductive invariant of Runner.tla, the invariants that follow from it,  *)
(* and that the runner implements Admission.tla.                           *)
(***************************************************************************)
EXTENDS Runner, FiniteSetTheorems, TLAPS

\* A call that changes stage enters or leaves each set of stages alone.
LEMMA InMove ==
  ASSUME stage \in [Jobs -> Stages],
         NEW j \in Jobs, NEW s, NEW S, Move(j, s)
  PROVE  In(S)' = IF s \in S THEN In(S) \cup {j} ELSE In(S) \ {j}
BY DEF In, Move

\* Every set of calls in given stages is finite.
LEMMA InFinite ==
  ASSUME NEW S
  PROVE  IsFiniteSet(In(S)) /\ Cardinality(In(S)) \in Nat
<1>1. IsFiniteSet(Jobs)
  BY RunnerAssumption, FS_Union DEF Jobs
<1>2. In(S) \subseteq Jobs
  BY DEF In
<1> QED
  BY <1>1, <1>2, FS_Subset, FS_CardinalityType

\* Nobody holds a slot or a worker at the start.
LEMMA InitInv == Init => IInv
<1> SUFFICES ASSUME Init PROVE IInv
  OBVIOUS
<1>1. TypeOK /\ QueueOK /\ OrphansAreCancelled
  BY RunnerAssumption
  DEF Init, TypeOK, Stages, QueueOK, OrphansAreCancelled
<1>2. Holders = {} /\ Busy = {}
  BY DEF Init, Holders, Busy, In, HolderStages, BusyStages
<1> QED
  BY <1>1, <1>2, FS_EmptySet
  DEF IInv, SlotAccounting, OneWorker, MaxWorkers, Init

------------------------------------------------------------------------------
(* What one change of stage does to each part of the invariant. *)

\* A call that takes a slot is counted.
LEMMA SlotTaken ==
  ASSUME IInv, NEW j \in Jobs, NEW s \in HolderStages,
         stage[j] \notin HolderStages, TryAcquire, Move(j, s)
  PROVE  SlotAccounting' /\ inflight' \in 0..MaxQueue
<1>1. stage \in [Jobs -> Stages] /\ inflight \in 0..MaxQueue /\ MaxQueue \in Nat
  BY RunnerAssumption DEF IInv, TypeOK
<1>2. Holders' = Holders \cup {j} /\ j \notin Holders
  BY <1>1, InMove DEF Holders, In
<1>3. Cardinality(Holders') = Cardinality(Holders) + 1
  BY <1>2, InFinite, FS_AddElement DEF Holders
<1> QED
  BY <1>1, <1>3 DEF IInv, SlotAccounting, TryAcquire

\* A call that gives its slot back is no longer counted.
LEMMA SlotGivenBack ==
  ASSUME IInv, NEW j \in Jobs, NEW s, s \notin HolderStages,
         stage[j] \in HolderStages, Release, Move(j, s)
  PROVE  SlotAccounting' /\ inflight' \in 0..MaxQueue
<1>1. stage \in [Jobs -> Stages] /\ inflight \in 0..MaxQueue /\ MaxQueue \in Nat
  BY RunnerAssumption DEF IInv, TypeOK
<1>2. Holders' = Holders \ {j} /\ j \in Holders
  BY <1>1, InMove DEF Holders, In
<1>3. Cardinality(Holders') = Cardinality(Holders) - 1
  BY <1>2, InFinite, FS_RemoveElement DEF Holders
<1>4. Cardinality(Holders') \in Nat
  <2>1. IsFiniteSet(Holders') /\ IsFiniteSet(Holders)
    BY <1>2, InFinite, FS_RemoveElement DEF Holders
  <2> QED
    BY <2>1, FS_CardinalityType
<1> QED
  BY <1>1, <1>3, <1>4 DEF IInv, SlotAccounting, Release

\* A call that changes stage without a slot changing hands.
LEMMA SlotKept ==
  ASSUME IInv, NEW j \in Jobs, NEW s,
         s \in HolderStages <=> stage[j] \in HolderStages,
         UNCHANGED inflight, Move(j, s)
  PROVE  SlotAccounting' /\ inflight' \in 0..MaxQueue
<1>1. stage \in [Jobs -> Stages] /\ inflight \in 0..MaxQueue
  BY DEF IInv, TypeOK
<1>2. Holders' = Holders
  BY <1>1, InMove DEF Holders, In
<1> QED
  BY <1>1, <1>2 DEF IInv, SlotAccounting

\* Only a worker that starts an item can become a second busy one.
LEMMA NoNewWorker ==
  ASSUME IInv, NEW j \in Jobs, NEW s,
         s \in BusyStages => stage[j] \in BusyStages, Move(j, s)
  PROVE  OneWorker'
<1>1. stage \in [Jobs -> Stages]
  BY DEF IInv, TypeOK
<1>2. Busy' \subseteq Busy
  BY <1>1, InMove DEF Busy, In
<1>3. Cardinality(Busy') <= Cardinality(Busy) /\ Cardinality(Busy') \in Nat
  <2>1. IsFiniteSet(Busy)
    BY InFinite DEF Busy
  <2> QED
    BY <1>2, <2>1, FS_Subset, FS_CardinalityType
<1> QED
  BY <1>3, InFinite DEF IInv, OneWorker, MaxWorkers, Busy

\* A call outside the executor's queue may change stage freely, one inside
\* it may only be abandoned.
LEMMA QueueKept ==
  ASSUME IInv, NEW j \in Jobs, NEW s, UNCHANGED queue, Move(j, s),
         stage[j] \in {"queued", "abandoned"} => s \in {"queued", "abandoned"}
  PROVE  QueueOK'
BY DEF IInv, TypeOK, QueueOK, Move

\* A newly submitted item is at the end of the queue, once.
LEMMA QueuePut ==
  ASSUME IInv, NEW j \in Jobs, stage[j] \notin {"queued", "abandoned"},
         queue' = Append(queue, j), Move(j, "queued")
  PROVE  QueueOK' /\ queue' \in Seq(Jobs)
<1>1. queue \in Seq(Jobs) /\ stage \in [Jobs -> Stages]
  BY DEF IInv, TypeOK
<1>2. /\ Len(queue') = Len(queue) + 1
      /\ \A i \in 1..Len(queue) : queue'[i] = queue[i]
      /\ queue'[Len(queue) + 1] = j
  BY <1>1
<1>3. \A i \in 1..Len(queue) : queue[i] \in Jobs /\ queue[i] # j
  BY <1>1 DEF IInv, QueueOK
<1> QED
  BY <1>1, <1>2, <1>3 DEF IInv, QueueOK, Move

\* The item at the head leaves the queue for good.
LEMMA QueueGet ==
  ASSUME IInv, NEW j \in Jobs, NEW s, queue # <<>>, j = Head(queue),
         queue' = Tail(queue), Move(j, s)
  PROVE  /\ QueueOK' /\ queue' \in Seq(Jobs)
         /\ stage[j] \in {"queued", "abandoned"}
<1>1. queue \in Seq(Jobs) /\ stage \in [Jobs -> Stages]
  BY DEF IInv, TypeOK
<1>2. /\ Len(queue) \in Nat \ {0} /\ Len(queue') = Len(queue) - 1
      /\ queue' \in Seq(Jobs)
      /\ \A i \in 1..Len(queue') : queue'[i] = queue[i + 1]
      /\ j = queue[1]
  BY <1>1
<1>3. \A i \in 1..Len(queue') : queue'[i] \in Jobs /\ queue'[i] # j
  BY <1>1, <1>2 DEF IInv, QueueOK
<1> QED
  BY <1>1, <1>2, <1>3 DEF IInv, QueueOK, Move

------------------------------------------------------------------------------
\* Every step of the callers, the worker and shutdown preserves IInv.
LEMMA NextInv == IInv /\ [Next]_vars => IInv'
<1> SUFFICES ASSUME IInv, [Next]_vars PROVE IInv'
  OBVIOUS
<1> USE DEF IInv, HolderStages, BusyStages
<1>t. TypeOK /\ stage \in [Jobs -> Stages] /\ queue \in Seq(Jobs)
  BY DEF TypeOK
<1>q. ASSUME NEW j \in Jobs, NEW s \in Stages, Move(j, s),
             s \in {"abandoned", "orphan"} => Cancellable # {}
      PROVE  OrphansAreCancelled' /\ stage' \in [Jobs -> Stages]
  BY <1>t, <1>q DEF OrphansAreCancelled, Move
<1> USE DEF Stages
<1>1. ASSUME NEW j \in Jobs, Refuse(j) PROVE IInv'
  BY <1>1, <1>t, <1>q, SlotKept, NoNewWorker, QueueKept DEF Refuse, TypeOK
<1>2. ASSUME NEW j \in Jobs, Run(j) PROVE IInv'
  BY <1>2, <1>t, <1>q, SlotTaken, NoNewWorker, QueuePut DEF Run, TypeOK
<1>3. ASSUME NEW j \in Jobs, RunClosed(j) PROVE IInv'
  BY <1>3, <1>t, <1>q, SlotKept, NoNewWorker, QueueKept DEF RunClosed, TypeOK
<1>4. ASSUME NEW j \in Jobs, Acquire(j) PROVE IInv'
  BY <1>4, <1>t, <1>q, SlotTaken, NoNewWorker, QueueKept DEF Acquire, TypeOK
<1>5. ASSUME NEW j \in Jobs, Submit(j) PROVE IInv'
  <2>1. UNCHANGED inflight /\ Move(j, "queued") /\ stage[j] = "admitted"
    BY <1>5 DEF Submit
  <2>2. SlotAccounting' /\ inflight' \in 0..MaxQueue
    BY <2>1, SlotKept
  <2>3. OneWorker' /\ QueueOK' /\ queue' \in Seq(Jobs)
    BY <1>5, <2>1, NoNewWorker, QueuePut DEF Submit
  <2> QED
    BY <1>5, <1>t, <1>q, <2>1, <2>2, <2>3 DEF Submit, TypeOK
<1>6. ASSUME NEW j \in Jobs, Hook(j) PROVE IInv'
  <2>1. CASE stage[j] = "resolved"
    BY <1>6, <2>1, <1>t, <1>q, SlotGivenBack, NoNewWorker, QueueKept
    DEF Hook, TypeOK
  <2>2. CASE stage[j] # "resolved"
    BY <1>6, <2>2, <1>t
    DEF Hook, TypeOK, SlotAccounting, QueueOK, OneWorker, OrphansAreCancelled,
        Holders, Busy, In
  <2> QED
    BY <2>1, <2>2
<1>7. ASSUME NEW j \in Jobs, Resume(j) PROVE IInv'
  BY <1>7, <1>t, <1>q, SlotGivenBack, NoNewWorker, QueueKept DEF Resume, TypeOK
<1>8. ASSUME NEW j \in Jobs, Return(j) PROVE IInv'
  BY <1>8, <1>t, <1>q, SlotKept, NoNewWorker, QueueKept DEF Return, TypeOK
<1>9. ASSUME NEW j \in Jobs, CancelCaller(j) PROVE IInv'
  <2>1. CASE stage[j] = "queued"
    BY <1>9, <2>1, <1>t, <1>q, SlotGivenBack, NoNewWorker, QueueKept
    DEF CancelCaller, TypeOK
  <2>2. CASE stage[j] = "running"
    BY <1>9, <2>2, <1>t, <1>q, SlotGivenBack, NoNewWorker, QueueKept
    DEF CancelCaller, TypeOK
  <2> QED
    BY <1>9, <2>1, <2>2 DEF CancelCaller
<1>10. CASE Shutdown \/ DrainEnd
  BY <1>10, <1>t
  DEF Shutdown, DrainEnd, TypeOK, SlotAccounting, QueueOK, OneWorker,
      OrphansAreCancelled, Holders, Busy, In
<1>11. ASSUME NEW j \in Jobs, DrainOne(j) PROVE IInv'
  <2>1. CASE stage[j] = "queued" /\ Release /\ Move(j, "outside")
    BY <1>11, <2>1, <1>t, <1>q, SlotGivenBack, NoNewWorker, QueueGet
    DEF DrainOne, TypeOK
  <2>2. CASE stage[j] = "queued" /\ UNCHANGED inflight /\ Move(j, "done")
    BY <1>11, <2>2, <1>t, <1>q, SlotKept, NoNewWorker, QueueGet
    DEF DrainOne, TypeOK
  <2>3. CASE stage[j] = "abandoned" /\ UNCHANGED inflight /\ Move(j, "outside")
    BY <1>11, <2>3, <1>t, <1>q, SlotKept, NoNewWorker, QueueGet
    DEF DrainOne, TypeOK
  <2> QED
    BY <1>11, <2>1, <2>2, <2>3 DEF DrainOne
<1>12. ASSUME NEW j \in Jobs, WorkerStart(j) PROVE IInv'
  <2> DEFINE s == IF stage[j] = "abandoned" THEN "outside" ELSE "running"
  <2>1. Move(j, s) /\ UNCHANGED inflight
    BY <1>12 DEF WorkerStart
  <2>2. QueueOK' /\ queue' \in Seq(Jobs) /\ stage[j] \in {"queued", "abandoned"}
    BY <1>12, <2>1, QueueGet DEF WorkerStart
  <2>3. SlotAccounting' /\ inflight' \in 0..MaxQueue
    BY <2>1, <2>2, SlotKept
  <2>4. OneWorker'
    <3>1. Busy = {}
      BY <1>12, InFinite, FS_EmptySet DEF WorkerStart, MaxWorkers, Busy
    <3>2. Busy' \subseteq {j}
      BY <3>1, <2>1, <1>t DEF Busy, In, Move
    <3>3. Cardinality(Busy') <= Cardinality({j}) /\ Cardinality({j}) = 1
      BY <3>2, FS_Singleton, FS_Subset
    <3> QED
      BY <3>3 DEF OneWorker, MaxWorkers
  <2> QED
    BY <1>12, <2>1, <2>2, <2>3, <2>4, <1>t, <1>q DEF WorkerStart, TypeOK
<1>13. ASSUME NEW j \in Jobs, WorkerFinish(j) PROVE IInv'
  BY <1>13, <1>t, <1>q, SlotKept, NoNewWorker, QueueKept DEF WorkerFinish, TypeOK
<1>14. ASSUME NEW j \in Jobs, DoneCallback(j) PROVE IInv'
  BY <1>14, <1>t, <1>q, SlotGivenBack, NoNewWorker, QueueKept
  DEF DoneCallback, TypeOK
<1>15. CASE UNCHANGED vars
  BY <1>15, <1>t
  DEF vars, TypeOK, SlotAccounting, QueueOK, OneWorker,
      OrphansAreCancelled, Holders, Busy, In
<1> QED
  BY <1>1, <1>2, <1>3, <1>4, <1>5, <1>6, <1>7, <1>8, <1>9, <1>10, <1>11,
     <1>12, <1>13, <1>14, <1>15 DEF Next, Caller, Worker, Drain

------------------------------------------------------------------------------
\* IInv holds in every reachable state.
THEOREM Invariance == Spec => []IInv
BY InitInv, NextInv, PTL DEF Spec

\* The counter, the queue, the stages and the pool keep their types; in
\* particular the counter never goes below zero or above MAX_QUEUE.
THEOREM TypeCorrect == Spec => []TypeOK
BY Invariance, PTL DEF IInv

\* Runner._inflight is at all times the number of calls that hold a slot.
THEOREM SlotsAccounted == Spec => []SlotAccounting
BY Invariance, PTL DEF IInv

\* No more than one inference at a time, even when callers are cancelled.
THEOREM InferenceSerialized == Spec => []SingleInference
<1>1. IInv => SingleInference
  <2> SUFFICES ASSUME IInv PROVE Cardinality(Inference) <= 1
    BY DEF SingleInference
  <2>1. Inference \subseteq Busy /\ IsFiniteSet(Busy)
    BY InFinite DEF Inference, Busy, In, BusyStages
  <2>2. /\ Cardinality(Inference) <= Cardinality(Busy)
        /\ Cardinality(Inference) \in Nat /\ Cardinality(Busy) \in Nat
    BY <2>1, FS_Subset, FS_CardinalityType
  <2> QED
    BY <2>2 DEF IInv, OneWorker, MaxWorkers
<1> QED
  BY <1>1, Invariance, PTL

\* Unless the task awaiting run() is cancelled, all the work the executor
\* still has is counted, so MAX_QUEUE caps it.
THEOREM LoadCapped == Cancellable = {} => (Spec => []LoadBounded)
<1> SUFFICES ASSUME Cancellable = {} PROVE Spec => []LoadBounded
  OBVIOUS
<1>1. IInv => LoadBounded
  <2> SUFFICES ASSUME IInv PROVE LoadBounded
    OBVIOUS
  <2>1. Load \subseteq Holders /\ IsFiniteSet(Holders)
    BY InFinite
    DEF Load, Holders, In, HolderStages, IInv, OrphansAreCancelled
  <2>2. /\ Cardinality(Load) <= Cardinality(Holders)
        /\ Cardinality(Load) \in Nat /\ Cardinality(Holders) \in Nat
    BY <2>1, FS_Subset, FS_CardinalityType
  <2> QED
    BY <2>2, RunnerAssumption DEF LoadBounded, IInv, SlotAccounting, TypeOK
<1> QED
  BY <1>1, Invariance, PTL

\* QueueFullError is raised only while MAX_QUEUE other calls hold slots.
THEOREM RefusalsJustified == Spec => RefusedOnlyWhenFull
<1> DEFINE A == \A j \in Jobs : stage'[j] = "refused" /\ stage[j] # "refused" =>
                   Cardinality(Holders \ {j}) = MaxQueue
<1>1. IInv /\ [Next]_vars => [A]_vars
  <2> SUFFICES ASSUME IInv, Next, NEW j \in Jobs,
                      stage'[j] = "refused", stage[j] # "refused"
               PROVE  Cardinality(Holders \ {j}) = MaxQueue
    OBVIOUS
  <2>0. stage \in [Jobs -> Stages] /\ inflight \in 0..MaxQueue /\ MaxQueue \in Nat
    BY RunnerAssumption DEF IInv, TypeOK
  <2>1. Refuse(j)
    BY <2>0
    DEF Next, Caller, Worker, Drain, Refuse, Run, RunClosed, Acquire, Submit,
        Hook, Resume, Return, CancelCaller, Shutdown, DrainOne, DrainEnd,
        WorkerStart, WorkerFinish, DoneCallback, Move
  <2>2. Holders \ {j} = Holders
    BY <2>1 DEF Refuse, Holders, In, HolderStages
  <2>3. inflight = MaxQueue
    BY <2>0, <2>1 DEF Refuse
  <2> QED
    BY <2>2, <2>3 DEF IInv, SlotAccounting
<1>2. (Spec => []IInv) /\ (Spec <=> Init /\ [][Next]_vars)
  BY Invariance DEF Spec
<1>3. RefusedOnlyWhenFull <=> [][A]_vars
  BY DEF RefusedOnlyWhenFull
<1> QED
  BY <1>1, <1>2, <1>3, PTL

------------------------------------------------------------------------------
(* The executor's queue: nobody is stranded in it, nobody overtakes.       *)

\* Who waits after a call has changed stage.
LEMMA WaitingMove ==
  ASSUME IInv, NEW j \in Jobs, NEW s, Move(j, s)
  PROVE  Waiting' = IF s \in {"queued", "abandoned"} THEN Waiting \cup {j}
                                                     ELSE Waiting \ {j}
<1>1. stage \in [Jobs -> Stages]
  BY DEF IInv, TypeOK
<1> QED
  BY <1>1, InMove DEF Waiting

\* A step that leaves the queue alone and makes nobody wait.
LEMMA QueueUntouched ==
  ASSUME UNCHANGED queue, Waiting' \subseteq Waiting
  PROVE  /\ NobodyStranded /\ UNCHANGED pool => NobodyStranded'
         /\ \A j, k \in Jobs : Ahead(j, k) => Ahead(j, k)'
BY DEF NobodyStranded, Ahead

\* An item put at the end is behind all others.
LEMMA QueueGrows ==
  ASSUME IInv, NEW j \in Jobs, queue' = Append(queue, j), Move(j, "queued"),
         pool = "open", UNCHANGED pool
  PROVE  /\ NobodyStranded => NobodyStranded'
         /\ \A i, k \in Jobs : Ahead(i, k) => Ahead(i, k)'
<1>1. /\ Len(queue) \in Nat /\ Len(queue') = Len(queue) + 1
      /\ \A i \in 1..Len(queue) : queue'[i] = queue[i]
      /\ queue'[Len(queue) + 1] = j
  BY DEF IInv, TypeOK
<1>2. Waiting' = Waiting \cup {j}
  BY WaitingMove
<1>3. ASSUME NobodyStranded PROVE NobodyStranded'
  <2> SUFFICES ASSUME NEW k \in Waiting'
               PROVE  \E i \in 1..Len(queue') : queue'[i] = k
    BY DEF NobodyStranded
  <2>1. CASE k = j
    BY <1>1, <2>1
  <2>2. CASE k \in Waiting
    <3>1. PICK i \in 1..Len(queue) : queue[i] = k
      BY <1>3, <2>2 DEF NobodyStranded
    <3> QED
      BY <1>1, <3>1
  <2> QED
    BY <1>2, <2>1, <2>2
<1>4. ASSUME NEW i \in Jobs, NEW k \in Jobs, Ahead(i, k) PROVE Ahead(i, k)'
  <2>1. PICK m, n \in 1..Len(queue) : m < n /\ queue[m] = i /\ queue[n] = k
    BY <1>4 DEF Ahead
  <2>2. m \in 1..Len(queue') /\ n \in 1..Len(queue') /\ queue'[m] = i /\ queue'[n] = k
    BY <1>1, <2>1
  <2> QED
    BY <2>1, <2>2 DEF Ahead
<1> QED
  BY <1>3, <1>4

\* Only the item at the head leaves, and the others keep their order.
LEMMA QueueShrinks ==
  ASSUME IInv, NEW j \in Jobs, NEW s, s \notin {"queued", "abandoned"},
         queue # <<>>, j = Head(queue), queue' = Tail(queue), Move(j, s),
         UNCHANGED pool
  PROVE  /\ NobodyStranded => NobodyStranded'
         /\ \A i, k \in Jobs : Ahead(i, k) => Ahead(i, k)' \/ i \notin Waiting'
<1>1. /\ Len(queue) \in Nat \ {0} /\ Len(queue') = Len(queue) - 1
      /\ \A i \in 1..Len(queue') : queue'[i] = queue[i + 1]
      /\ j = queue[1]
  BY DEF IInv, TypeOK
<1>2. Waiting' = Waiting \ {j}
  BY WaitingMove
<1>3. ASSUME NobodyStranded PROVE NobodyStranded'
  <2> SUFFICES ASSUME NEW k \in Waiting, k # j
               PROVE  \E i \in 1..Len(queue') : queue'[i] = k
    BY <1>2, <1>3 DEF NobodyStranded
  <2>1. PICK i \in 1..Len(queue) : queue[i] = k
    BY <1>3 DEF NobodyStranded
  <2>2. i # 1
    BY <1>1, <2>1
  <2>3. i - 1 \in 1..Len(queue') /\ queue'[i - 1] = k
    BY <1>1, <2>1, <2>2
  <2> QED
    BY <2>3
<1>4. ASSUME NEW i \in Jobs, NEW k \in Jobs, Ahead(i, k), i \in Waiting'
      PROVE  Ahead(i, k)'
  <2>1. PICK m, n \in 1..Len(queue) : m < n /\ queue[m] = i /\ queue[n] = k
    BY <1>4 DEF Ahead
  <2>2. m # 1
    BY <1>1, <1>2, <1>4, <2>1
  <2>3. /\ m - 1 \in 1..Len(queue') /\ n - 1 \in 1..Len(queue') /\ m - 1 < n - 1
        /\ queue'[m - 1] = i /\ queue'[n - 1] = k
    BY <1>1, <2>1, <2>2
  <2> QED
    BY <2>3 DEF Ahead
<1> QED
  BY <1>3, <1>4

\* Every step keeps the waiting calls in the queue, in their order.
LEMMA QueueSteps ==
  ASSUME IInv, [Next]_vars
  PROVE  /\ NobodyStranded => NobodyStranded'
         /\ \A j, k \in Jobs : Ahead(j, k) => Ahead(j, k)' \/ j \notin Waiting'
<1> DEFINE Kept == /\ NobodyStranded => NobodyStranded'
                   /\ \A j, k \in Jobs : Ahead(j, k) => Ahead(j, k)' \/ j \notin Waiting'
<1>q. ASSUME UNCHANGED <<queue, pool>>, Waiting' \subseteq Waiting PROVE Kept
  BY <1>q, QueueUntouched
<1>1. ASSUME NEW j \in Jobs, NEW s, s \notin {"queued", "abandoned"}, Move(j, s),
             UNCHANGED <<queue, pool>>
      PROVE  Kept
  <2>1. Waiting' \subseteq Waiting
    BY <1>1, WaitingMove
  <2> QED
    BY <1>1, <1>q, <2>1
<1>2. ASSUME NEW j \in Jobs,
             Refuse(j) \/ RunClosed(j) \/ Acquire(j) \/ Resume(j) \/ Return(j)
               \/ WorkerFinish(j) \/ DoneCallback(j)
      PROVE  Kept
  <2>1. PICK s \in Stages \ {"queued", "abandoned"} : Move(j, s)
    BY <1>2 DEF Refuse, RunClosed, Acquire, Resume, Return, WorkerFinish,
       DoneCallback, Stages
  <2>2. UNCHANGED <<queue, pool>>
    BY <1>2 DEF Refuse, RunClosed, Acquire, Resume, Return, WorkerFinish, DoneCallback
  <2> QED
    BY <1>1, <2>1, <2>2
<1>3. ASSUME NEW j \in Jobs, Run(j) \/ Submit(j) PROVE Kept
  <2>1. Move(j, "queued") /\ queue' = Append(queue, j) /\ pool = "open" /\ UNCHANGED pool
    BY <1>3 DEF Run, Submit
  <2> QED
    BY <2>1, QueueGrows
<1>4. ASSUME NEW j \in Jobs, Hook(j) PROVE Kept
  <2>1. CASE stage[j] = "resolved"
    BY <1>4, <2>1, <1>1 DEF Hook
  <2>2. CASE stage[j] # "resolved"
    <3>1. UNCHANGED <<queue, pool, stage>>
      BY <1>4, <2>2 DEF Hook
    <3>2. UNCHANGED Waiting
      BY <3>1 DEF Waiting, In
    <3> QED
      BY <3>1, <3>2, <1>q
  <2> QED
    BY <2>1, <2>2
<1>5. ASSUME NEW j \in Jobs, CancelCaller(j) PROVE Kept
  <2>1. CASE stage[j] = "queued"
    <3>1. Move(j, "abandoned") /\ UNCHANGED <<queue, pool>>
      BY <1>5, <2>1 DEF CancelCaller
    <3>2. j \in Waiting
      BY <2>1 DEF Waiting, In
    <3>3. Waiting' \subseteq Waiting
      BY <3>1, <3>2, WaitingMove
    <3> QED
      BY <3>1, <3>3, <1>q
  <2>2. CASE stage[j] = "running"
    <3>1. Move(j, "orphan") /\ UNCHANGED <<queue, pool>>
      BY <1>5, <2>2 DEF CancelCaller
    <3> QED
      BY <3>1, <1>1
  <2> QED
    BY <1>5, <2>1, <2>2 DEF CancelCaller
<1>6. ASSUME NEW j \in Jobs, DrainOne(j) \/ WorkerStart(j) PROVE Kept
  <2>1. /\ queue # <<>> /\ j = Head(queue) /\ queue' = Tail(queue) /\ UNCHANGED pool
        /\ \E s \in Stages \ {"queued", "abandoned"} : Move(j, s)
    BY <1>6 DEF DrainOne, WorkerStart, Stages
  <2> QED
    BY <2>1, QueueShrinks
<1>7. CASE Shutdown \/ UNCHANGED vars
  <2>1. UNCHANGED <<queue, stage>> /\ (pool' = "closed" => pool = "closed")
    BY <1>7 DEF Shutdown, vars
  <2>2. UNCHANGED Waiting
    BY <2>1 DEF Waiting, In
  <2>3. NobodyStranded => NobodyStranded'
    BY <2>1, <2>2 DEF NobodyStranded
  <2> QED
    BY <2>1, <2>2, <2>3, QueueUntouched
<1>8. CASE DrainEnd
  <2>1. UNCHANGED <<queue, stage>> /\ queue = <<>>
    BY <1>8 DEF DrainEnd
  <2>2. UNCHANGED Waiting
    BY <2>1 DEF Waiting, In
  <2>3. NobodyStranded => Waiting = {}
    BY <2>1 DEF NobodyStranded
  <2>4. NobodyStranded => NobodyStranded'
    BY <2>2, <2>3 DEF NobodyStranded
  <2> QED
    BY <2>1, <2>2, <2>4, QueueUntouched
<1> QED
  BY <1>2, <1>3, <1>4, <1>5, <1>6, <1>7, <1>8 DEF Next, Caller, Worker, Drain

\* Whoever waits is in the queue, and nobody waits in a closed executor: no
\* run() awaits a future, and no stream a callback, that nobody will resolve.
THEOREM NoneStranded == Spec => []NobodyStranded
<1>1. Init => NobodyStranded
  BY DEF Init, NobodyStranded, Waiting, In
<1>2. IInv /\ NobodyStranded /\ [Next]_vars => NobodyStranded'
  BY QueueSteps
<1> QED
  BY <1>1, <1>2, Invariance, PTL DEF Spec

\* The executor serves the calls in the order in which they were submitted,
\* cancelled ones and a shutdown in between notwithstanding.
THEOREM FirstComeFirstServed == Spec => NoOvertaking
<1> DEFINE A == \A j, k \in Jobs : Ahead(j, k) => Ahead(j, k)' \/ j \notin Waiting'
<1>1. IInv /\ [Next]_vars => [A]_vars
  BY QueueSteps
<1>2. NoOvertaking <=> [][A]_vars
  BY DEF NoOvertaking
<1> QED
  BY <1>1, <1>2, Invariance, PTL DEF Spec

------------------------------------------------------------------------------
(* The runner implements the abstract admission.                           *)

\* The effect of a change of stage on the two abstract variables.
LEMMA AbstractMove ==
  ASSUME IInv, NEW j \in Jobs, NEW s, Move(j, s)
  PROVE  /\ Holders' = IF s \in HolderStages THEN Holders \cup {j}
                                             ELSE Holders \ {j}
         /\ Active' = IF s = "running" THEN Active \cup {j} ELSE Active \ {j}
<1>1. stage \in [Jobs -> Stages]
  BY DEF IInv, TypeOK
<1> QED
  BY <1>1, InMove DEF Holders, Active, In, Move

\* A step in which neither a slot nor the worker changes hands.
LEMMA AbstractStutter ==
  ASSUME IInv, NEW j \in Jobs, NEW s, Move(j, s),
         s \in HolderStages <=> stage[j] \in HolderStages,
         s = "running" <=> stage[j] = "running"
  PROVE  UNCHANGED <<Holders, Active>>
BY AbstractMove DEF Holders, Active, In

\* The instance of Admission brings its own copy of Cardinality.
LEMMA AbstractCardinality ==
  ASSUME NEW S PROVE Abstract!Cardinality(S) = Cardinality(S)
BY DEF Abstract!Cardinality, Cardinality

\* A call takes a slot.
LEMMA AbstractAdmit ==
  ASSUME IInv, NEW j \in Jobs, NEW s \in HolderStages, s # "running",
         stage[j] = "outside", TryAcquire, Move(j, s)
  PROVE  Abstract!Admit(j)
<1>1. /\ Holders' = Holders \cup {j} /\ j \notin Holders
      /\ Active' = Active
  BY AbstractMove DEF Holders, Active, In, HolderStages
<1> QED
  BY <1>1, AbstractCardinality DEF Abstract!Admit, TryAcquire, IInv, SlotAccounting

\* A call that is not in inference gives its slot back.
LEMMA AbstractLeave ==
  ASSUME IInv, NEW j \in Jobs, NEW s, s \notin HolderStages,
         stage[j] \in HolderStages, stage[j] # "running", Move(j, s)
  PROVE  Abstract!Leave(j)
<1>1. /\ Holders' = Holders \ {j} /\ j \in Holders
      /\ Active' = Active /\ j \notin Active
  BY AbstractMove DEF Holders, Active, In, HolderStages
<1> QED
  BY <1>1 DEF Abstract!Leave

\* A job in inference is the only one occupying the worker.
LEMMA OnlyActive ==
  ASSUME IInv, NEW j \in Jobs, stage[j] = "running"
  PROVE  Active = {j}
<1>1. j \in Active /\ Active \subseteq Busy /\ IsFiniteSet(Busy)
  BY InFinite DEF Active, Busy, In, BusyStages
<1>2. Cardinality(Busy) <= 1
  BY DEF IInv, OneWorker, MaxWorkers
<1>3. ASSUME NEW k \in Active, k # j PROVE FALSE
  <2>1. {j, k} \subseteq Busy
    BY <1>1, <1>3
  <2>2. Cardinality({j, k}) <= Cardinality(Busy) /\ Cardinality(Busy) \in Nat
    BY <2>1, <1>1, FS_Subset, FS_CardinalityType
  <2>3. IsFiniteSet({j}) /\ Cardinality({j}) = 1 /\ k \notin {j}
    BY <1>3, FS_Singleton
  <2>4. Cardinality({j} \cup {k}) = Cardinality({j}) + 1
    BY <2>3, FS_AddElement
  <2>5. {j} \cup {k} = {j, k}
    OBVIOUS
  <2> QED
    BY <1>2, <2>2, <2>3, <2>4, <2>5
<1> QED
  BY <1>1, <1>3

\* As long as no task awaiting run() is cancelled, everything runner.py does
\* is an admission, the start or the end of an inference, or a release of a
\* slot by a call that is not in inference.
THEOREM ImplementsAdmissionSpec == Cancellable = {} => (Spec => ImplementsAdmission)
<1> SUFFICES ASSUME Cancellable = {} PROVE Spec => ImplementsAdmission
  OBVIOUS
<1>1. Init => Abstract!Init
  BY DEF Init, Abstract!Init, Holders, Active, In, HolderStages
<1>2. IInv /\ [Next]_vars => [Abstract!Next]_(Abstract!vars)
  <2> SUFFICES ASSUME IInv, [Next]_vars
               PROVE  Abstract!Next \/ UNCHANGED <<Holders, Active>>
    BY DEF Abstract!vars
  <2> USE DEF HolderStages
  <2>1. ASSUME NEW j \in Jobs, Refuse(j) \/ RunClosed(j) \/ Return(j) \/ Submit(j)
        PROVE  UNCHANGED <<Holders, Active>>
    BY <2>1, AbstractStutter DEF Refuse, RunClosed, Return, Submit
  <2>2. ASSUME NEW j \in Jobs, Run(j) \/ Acquire(j) PROVE Abstract!Admit(j)
    BY <2>2, AbstractAdmit DEF Run, Acquire
  <2>3. ASSUME NEW j \in Jobs, Resume(j) \/ DoneCallback(j)
        PROVE  Abstract!Leave(j)
    BY <2>3, AbstractLeave DEF Resume, DoneCallback
  <2>4. ASSUME NEW j \in Jobs, Hook(j)
        PROVE  Abstract!Leave(j) \/ UNCHANGED <<Holders, Active>>
    <3>1. CASE stage[j] = "resolved"
      BY <2>4, <3>1, AbstractLeave DEF Hook
    <3>2. CASE stage[j] # "resolved"
      BY <2>4, <3>2 DEF Hook, Holders, Active, In
    <3> QED
      BY <3>1, <3>2
  <2>5. ASSUME NEW j \in Jobs, CancelCaller(j) PROVE FALSE
    BY <2>5 DEF CancelCaller
  <2>6. ASSUME NEW j \in Jobs, DrainOne(j)
        PROVE  Abstract!Leave(j) \/ UNCHANGED <<Holders, Active>>
    <3>1. CASE stage[j] = "queued" /\ Move(j, "outside")
      BY <2>6, <3>1, AbstractLeave
    <3>2. CASE stage[j] = "queued" /\ Move(j, "done")
      BY <2>6, <3>2, AbstractStutter
    <3>3. CASE stage[j] = "abandoned" /\ Move(j, "outside")
      BY <2>6, <3>3, AbstractStutter
    <3> QED
      BY <2>6, <3>1, <3>2, <3>3 DEF DrainOne
  <2>7. ASSUME NEW j \in Jobs, WorkerStart(j) PROVE Abstract!Begin(j)
    <3>1. stage[j] \in {"queued", "abandoned"} /\ stage[j] # "abandoned"
      BY <2>7, QueueGet DEF WorkerStart, IInv, OrphansAreCancelled
    <3>2. Move(j, "running")
      BY <2>7, <3>1 DEF WorkerStart
    <3>3. Holders' = Holders /\ j \in Holders /\ Active' = Active \cup {j}
      BY <3>1, <3>2, AbstractMove DEF Holders, In
    <3>4. Active = {}
      <4>1. Busy = {}
        BY <2>7, InFinite, FS_EmptySet
        DEF WorkerStart, MaxWorkers, Busy, IInv, OneWorker
      <4> QED
        BY <4>1 DEF Busy, Active, In, BusyStages
    <3> QED
      BY <3>3, <3>4 DEF Abstract!Begin
  <2>8. ASSUME NEW j \in Jobs, WorkerFinish(j) PROVE Abstract!End
    <3>1. stage[j] = "running"
      BY <2>8 DEF WorkerFinish, IInv, OrphansAreCancelled
    <3>2. PICK s \in {"done", "callback", "resolved"} : Move(j, s)
      BY <2>8, <3>1 DEF WorkerFinish
    <3>3. Holders' = Holders /\ Active' = Active \ {j}
      BY <3>1, <3>2, AbstractMove DEF Holders, In
    <3> QED
      BY <3>1, <3>3, OnlyActive DEF Abstract!End
  <2>9. CASE Shutdown \/ DrainEnd \/ UNCHANGED vars
    BY <2>9 DEF Shutdown, DrainEnd, vars, Holders, Active, In
  <2> QED
    BY <2>1, <2>2, <2>3, <2>4, <2>5, <2>6, <2>7, <2>8, <2>9
    DEF Next, Caller, Worker, Drain, Abstract!Next
<1> QED
  BY <1>1, <1>2, Invariance, PTL DEF Spec, ImplementsAdmission, Abstract!Spec
===============================================================================
