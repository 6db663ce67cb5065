-------------------------------- MODULE Runner --------------------------------
(***************************************************************************)
(* gigaam_api/runner.py: the admitted counter, the executor's FIFO and its *)
(* worker thread, with the two ways in.  run(), used by synchronous        *)
(* requests, is released by the awaiting coroutine; try_acquire() and      *)
(* submit(), used by SSE streams, by the future's done-callback.           *)
(***************************************************************************)
EXTENDS Integers, Sequences, FiniteSets

CONSTANTS Runs,         \* calls of run()
          Streams,      \* calls of try_acquire() followed by submit()
          MaxQueue,     \* settings.MAX_QUEUE
          Cancellable   \* the run() callers whose task somebody may cancel

Jobs == Runs \cup Streams

ASSUME RunnerAssumption ==
  /\ IsFiniteSet(Runs) /\ IsFiniteSet(Streams)
  /\ Runs \cap Streams = {}
  /\ MaxQueue \in Nat \ {0}
  /\ Cancellable \subseteq Runs

VARIABLES inflight,   \* Runner._inflight
          queue,      \* the executor's work queue
          stage,      \* where each call stands
          unhooked,   \* submitted streams without their done-callback yet
          pool        \* the executor: open, draining its queue, or closed

vars == <<inflight, queue, stage, unhooked, pool>>

(***************************************************************************)
(* outside    no call in progress       refused   QueueFullError raised    *)
(* failed     RuntimeError of a closed executor, slot given back           *)
(* admitted   a stream's slot is taken, its producer is not submitted yet  *)
(* queued     work item in the executor running   inside the worker        *)
(* done       future resolved, the run() coroutine has not resumed yet     *)
(* callback   the worker is about to run the stream's done-callback        *)
(* resolved   future resolved before add_done_callback was reached         *)
(* abandoned  queued work item whose future is cancelled                   *)
(* orphan     still inside the worker although its run() was cancelled     *)
(***************************************************************************)
Stages == {"outside", "refused", "failed", "admitted", "queued", "running",
           "done", "callback", "resolved", "abandoned", "orphan"}

In(S) == {j \in Jobs : stage[j] \in S}

HolderStages == {"admitted", "queued", "running", "callback", "resolved", "done"}
BusyStages   == {"running", "callback", "orphan"}

Holders   == In(HolderStages)
Busy      == In(BusyStages)                 \* occupying a worker thread
Inference == In({"running", "orphan"})
Load      == In({"queued", "running", "orphan"})

MaxWorkers == 1   \* ThreadPoolExecutor(max_workers=1)

Init ==
  /\ inflight = 0
  /\ queue = <<>>
  /\ stage = [j \in Jobs |-> "outside"]
  /\ unhooked = {}
  /\ pool = "open"

Move(j, s) == stage' = [stage EXCEPT ![j] = s]

------------------------------------------------------------------------------
(* The event loop: the callers.  Nothing else runs on it between submit()  *)
(* and add_done_callback(), nor while shutdown() drains the queue.         *)

LoopFree == unhooked = {} /\ pool # "draining"

TryAcquireOffByOne ==   \* mutant: `>` for `>=` in try_acquire
  /\ inflight <= MaxQueue
  /\ inflight' = inflight + 1

TryAcquire ==
  /\ inflight < MaxQueue
  /\ inflight' = inflight + 1

Release == inflight' = inflight - 1

RefuseEarly(j) ==   \* mutant: refuses while one slot is left
  /\ LoopFree /\ stage[j] = "outside"
  /\ inflight >= MaxQueue - 1
  /\ Move(j, "refused")
  /\ UNCHANGED <<inflight, queue, unhooked, pool>>

Refuse(j) ==
  /\ LoopFree /\ stage[j] = "outside"
  /\ inflight >= MaxQueue
  /\ Move(j, "refused")
  /\ UNCHANGED <<inflight, queue, unhooked, pool>>

\* try_acquire and run_in_executor run in one step of the event loop.
Run(j) ==
  /\ LoopFree /\ j \in Runs /\ stage[j] = "outside" /\ pool = "open"
  /\ TryAcquire
  /\ queue' = Append(queue, j)
  /\ Move(j, "queued")
  /\ UNCHANGED <<unhooked, pool>>

\* run_in_executor raises after shutdown; `finally` gives the slot back.
RunClosed(j) ==
  /\ LoopFree /\ j \in Runs /\ stage[j] = "outside" /\ pool = "closed"
  /\ inflight < MaxQueue
  /\ Move(j, "failed")
  /\ UNCHANGED <<inflight, queue, unhooked, pool>>

Acquire(j) ==
  /\ LoopFree /\ j \in Streams /\ stage[j] = "outside"
  /\ TryAcquire
  /\ Move(j, "admitted")
  /\ UNCHANGED <<queue, unhooked, pool>>

\* After shutdown submit() raises and the stream keeps its slot for good.
Submit(j) ==
  /\ LoopFree /\ j \in Streams /\ stage[j] = "admitted" /\ pool = "open"
  /\ queue' = Append(queue, j)
  /\ Move(j, "queued")
  /\ unhooked' = {j}
  /\ UNCHANGED <<inflight, pool>>

HookTooLate(j) ==   \* mutant: the callback of a resolved future never runs
  /\ j \in unhooked
  /\ unhooked' = unhooked \ {j}
  /\ IF stage[j] = "resolved" THEN Move(j, "outside") ELSE UNCHANGED stage
  /\ UNCHANGED <<inflight, queue, pool>>

\* A future that is already resolved runs its new callback at once, here.
Hook(j) ==
  /\ j \in unhooked
  /\ unhooked' = unhooked \ {j}
  /\ IF stage[j] = "resolved" THEN Release /\ Move(j, "outside")
                              ELSE UNCHANGED <<inflight, stage>>
  /\ UNCHANGED <<queue, pool>>

\* The run() coroutine resumes with a result, an error or a cancellation.
Resume(j) ==
  /\ LoopFree /\ j \in Runs /\ stage[j] = "done"
  /\ Release
  /\ Move(j, "outside")
  /\ UNCHANGED <<queue, unhooked, pool>>

\* The exception has reached the caller, which may call again.
Return(j) ==
  /\ LoopFree /\ stage[j] \in {"refused", "failed"}
  /\ Move(j, "outside")
  /\ UNCHANGED <<inflight, queue, unhooked, pool>>

CancelKeepsSlot(j) ==   \* mutant: release() is not in a `finally`
  /\ LoopFree /\ j \in Cancellable /\ stage[j] \in {"queued", "running"}
  /\ Move(j, IF stage[j] = "queued" THEN "abandoned" ELSE "orphan")
  /\ UNCHANGED <<inflight, queue, unhooked, pool>>

\* The awaiting task is cancelled: `finally` releases at once, while the
\* cancellation reaches only a work item that has not started.
CancelCaller(j) ==
  /\ LoopFree /\ j \in Cancellable /\ stage[j] \in {"queued", "running"}
  /\ Release
  /\ Move(j, IF stage[j] = "queued" THEN "abandoned" ELSE "orphan")
  /\ UNCHANGED <<queue, unhooked, pool>>

Shutdown ==
  /\ LoopFree /\ pool = "open"
  /\ pool' = "draining"
  /\ UNCHANGED <<inflight, queue, stage, unhooked>>

DrainForgets(j) ==   \* mutant: the futures of dropped items are not cancelled
  /\ pool = "draining" /\ queue # <<>> /\ j = Head(queue)
  /\ queue' = Tail(queue)
  /\ UNCHANGED <<inflight, stage, unhooked, pool>>

\* cancel_futures: items leave the queue one by one, in a race with the
\* worker.  The callbacks of a cancelled future run here.
DrainOne(j) ==
  /\ pool = "draining" /\ queue # <<>> /\ j = Head(queue)
  /\ queue' = Tail(queue)
  /\ \/ stage[j] = "queued" /\ j \in Streams /\ Release /\ Move(j, "outside")
     \/ stage[j] = "queued" /\ j \in Runs /\ UNCHANGED inflight /\ Move(j, "done")
     \/ stage[j] = "abandoned" /\ UNCHANGED inflight /\ Move(j, "outside")
  /\ UNCHANGED <<unhooked, pool>>

DrainEnd ==
  /\ pool = "draining" /\ queue = <<>>
  /\ pool' = "closed"
  /\ UNCHANGED <<inflight, queue, stage, unhooked>>

------------------------------------------------------------------------------
(* The worker thread. *)

WorkerStartLast(j) ==   \* mutant: last in, first out
  /\ queue # <<>> /\ j = queue[Len(queue)]
  /\ Cardinality(Busy) < MaxWorkers
  /\ queue' = SubSeq(queue, 1, Len(queue) - 1)
  /\ Move(j, IF stage[j] = "abandoned" THEN "outside" ELSE "running")
  /\ UNCHANGED <<inflight, unhooked, pool>>

\* An item whose future was cancelled in the queue is skipped.
WorkerStart(j) ==
  /\ queue # <<>> /\ j = Head(queue)
  /\ Cardinality(Busy) < MaxWorkers
  /\ queue' = Tail(queue)
  /\ Move(j, IF stage[j] = "abandoned" THEN "outside" ELSE "running")
  /\ UNCHANGED <<inflight, unhooked, pool>>

WorkerFinish(j) ==
  /\ \/ stage[j] = "orphan" /\ Move(j, "outside")
     \/ stage[j] = "running" /\ j \in Runs /\ Move(j, "done")
     \/ stage[j] = "running" /\ j \in Streams \ unhooked /\ Move(j, "callback")
     \/ stage[j] = "running" /\ j \in unhooked /\ Move(j, "resolved")
  /\ UNCHANGED <<inflight, queue, unhooked, pool>>

DoneCallback(j) ==
  /\ stage[j] = "callback"
  /\ Release
  /\ Move(j, "outside")
  /\ UNCHANGED <<queue, unhooked, pool>>

------------------------------------------------------------------------------
Caller(j) ==
  \/ Refuse(j) \/ Run(j) \/ RunClosed(j) \/ Acquire(j) \/ Submit(j) \/ Hook(j)
  \/ Resume(j) \/ Return(j) \/ CancelCaller(j)

Drain == DrainEnd \/ \E j \in Jobs : DrainOne(j)

Worker(j) == WorkerStart(j) \/ WorkerFinish(j) \/ DoneCallback(j)

Next == \/ \E j \in Jobs : Caller(j) \/ Worker(j)
        \/ Shutdown \/ Drain

Spec == Init /\ [][Next]_vars

\* The pool's thread is scheduled and every inference call ends; the event
\* loop finishes the callback it is in, and its FIFO of ready callbacks gets
\* to a coroutine whose future is resolved however often others run before
\* it (hence SF).  Callers owe nothing.
Fairness ==
  /\ WF_vars(\E j \in Jobs : Worker(j))
  /\ WF_vars(Drain)
  /\ \A j \in Streams : WF_vars(Hook(j))
  /\ \A j \in Runs : SF_vars(Resume(j))

FairSpec == Spec /\ Fairness

------------------------------------------------------------------------------
TypeOK ==
  /\ inflight \in 0..MaxQueue
  /\ queue \in Seq(Jobs)
  /\ stage \in [Jobs -> Stages]
  /\ unhooked \subseteq Streams
  /\ pool \in {"open", "draining", "closed"}

\* The admitted counter is exactly the number of callers between a successful
\* try_acquire and its release, across both ways in, cancellation, a
\* callback registered too late and shutdown: no slot is lost, none is
\* given back twice.
SlotAccounting == inflight = Cardinality(Holders)

\* "The admitted counter (in the queue + in progress) caps the load": what
\* the executor still has to do is counted, so it never exceeds MAX_QUEUE.
LoadBounded == Cardinality(Load) <= inflight /\ inflight <= MaxQueue

\* No more than one inference at a time, orphaned ones included.
SingleInference == Cardinality(Inference) <= 1

\* A call is refused with QueueFullError only when MAX_QUEUE other calls are
\* really holding slots.
RefusedOnlyWhenFull ==
  [][\A j \in Jobs : stage'[j] = "refused" /\ stage[j] # "refused" =>
        Cardinality(Holders \ {j}) = MaxQueue]_vars

Waiting == In({"queued", "abandoned"})   \* in the executor, not yet taken

\* Whoever waits for the worker is in its queue, and nobody is once the
\* executor is closed: whatever the worker and a shutdown take from the queue
\* at the same time, no future is left unresolved for ever.
NobodyStranded ==
  \A j \in Waiting : pool # "closed" /\ \E i \in 1..Len(queue) : queue[i] = j

Ahead(j, k) ==
  \E i, l \in 1..Len(queue) : i < l /\ queue[i] = j /\ queue[l] = k

\* No overtaking: a call submitted before another stays ahead of it until it
\* leaves the queue itself, for the worker or because it was dropped.
NoOvertaking ==
  [][\A j, k \in Jobs : Ahead(j, k) => Ahead(j, k)' \/ j \notin Waiting']_vars

\* FIFO service: whatever keeps arriving, a queued call is eventually over.
ServedInTurn == \A j \in Jobs : stage[j] = "queued" ~> stage[j] = "outside"

\* The server never stays full for good: provided every admitted stream goes
\* on to submit its producer, there is again and again room for a new call.
SlotsComeBack ==
  (\A j \in Streams : []<>(stage[j] # "admitted")) => []<>(inflight < MaxQueue)

(* The inductive invariant behind these (RunnerProofs.tla). *)

\* The executor's queue holds each waiting call once and nothing else.
QueueOK ==
  /\ \A i \in 1..Len(queue) : stage[queue[i]] \in {"queued", "abandoned"}
  /\ \A i, k \in 1..Len(queue) : queue[i] = queue[k] => i = k

OneWorker == Cardinality(Busy) <= MaxWorkers

\* Only a cancelled run() leaves work behind that holds no slot.
OrphansAreCancelled ==
  Cancellable = {} => \A j \in Jobs : stage[j] \notin {"abandoned", "orphan"}

IInv == TypeOK /\ SlotAccounting /\ QueueOK /\ OneWorker /\ OrphansAreCancelled

\* The counter, the pool and the futures implement the abstract admission.
Active == In({"running"})
Abstract == INSTANCE Admission
              WITH held <- Holders, active <- Active
ImplementsAdmission == Abstract!Spec
==============================================================================
