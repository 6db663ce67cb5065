------------------------- MODULE TranscriptionsProofs -------------------------
(***************************************************************************)
(* Proofs about the transcription handler for any set of requests and any  *)
(* MAX_QUEUE: it uses the runner as Runner.tla expects, the worker's file  *)
(* exists, nothing is left behind, and nobody is cancelled but the gone.   *)
(***************************************************************************)
EXTENDS Transcriptions, TLAPS

RP == INSTANCE RunnerProofs WITH Cancellable <- {}

------------------------------------------------------------------------------
(* The runner of the handler is the runner of RunnerProofs.                *)

\* The constants of the handler satisfy what the runner assumes of its own.
LEMMA RunnerConstants == RP!RunnerAssumption
BY RequestsAssumption DEF RP!RunnerAssumption, IsFiniteSet, RP!IsFiniteSet

\* Both instances bring their own copy of Cardinality.
LEMMA SameCardinality ==
  ASSUME NEW S PROVE R!Cardinality(S) = RP!Cardinality(S)
BY DEF R!Cardinality, RP!Cardinality

\* Both instances have the same invariant.
LEMMA SameInv == R!IInv <=> RP!IInv
BY SameCardinality
DEF R!IInv, RP!IInv, R!TypeOK, RP!TypeOK, R!SlotAccounting, RP!SlotAccounting,
    R!QueueOK, RP!QueueOK, R!OneWorker, RP!OneWorker, R!OrphansAreCancelled,
    RP!OrphansAreCancelled, R!Jobs, RP!Jobs, R!Holders, RP!Holders, R!Busy,
    RP!Busy, R!In, RP!In, R!HolderStages, RP!HolderStages, R!BusyStages,
    RP!BusyStages, R!MaxWorkers, RP!MaxWorkers, R!Stages, RP!Stages

\* Both instances take the same steps.
LEMMA SameNext == R!Next <=> RP!Next
BY SameCardinality
DEF R!Jobs, RP!Jobs, R!Busy, RP!Busy, R!In, RP!In, R!BusyStages, RP!BusyStages,
    R!MaxWorkers, RP!MaxWorkers, R!Next, RP!Next, R!Caller, RP!Caller, R!Worker,
    RP!Worker, R!Drain, RP!Drain, R!Refuse, RP!Refuse, R!Run, RP!Run,
    R!RunClosed, RP!RunClosed, R!Acquire, RP!Acquire, R!Submit, RP!Submit,
    R!Hook, RP!Hook, R!Resume, RP!Resume, R!Return, RP!Return, R!CancelCaller,
    RP!CancelCaller, R!Shutdown, RP!Shutdown, R!DrainOne, RP!DrainOne,
    R!DrainEnd, RP!DrainEnd, R!WorkerStart, RP!WorkerStart, R!WorkerFinish,
    RP!WorkerFinish, R!DoneCallback, RP!DoneCallback, R!Move, RP!Move,
    R!Release, RP!Release, R!TryAcquire, RP!TryAcquire, R!LoopFree, RP!LoopFree

\* Every step of a handler is a step of the runner or leaves it alone.
LEMMA HandlerStepsAreRunnerSteps == [Next]_vars => [R!Next]_(R!vars)
<1> SUFFICES ASSUME Next PROVE R!Next \/ UNCHANGED runner
  BY DEF vars, runner, R!vars
<1>1. R!Jobs = Requests
  BY DEF R!Jobs, Requests
<1>2. ASSUME NEW r \in Requests, Handler(r) PROVE R!Next \/ UNCHANGED runner
  BY <1>1, <1>2
  DEF Handler, UploadFails, QueueFull, AnswerFull, Infer, Inferred, Conclude, Open, Iterate,
      LoseStream, StreamCut, R!Next, R!Caller
<1>3. ASSUME NEW r \in Requests, Worker(r) PROVE R!Next
  BY <1>1, <1>3 DEF Worker, WorkerStart, WorkerFinish, Cleanup, R!Next, R!Worker
<1>4. ASSUME NEW r \in Requests,
             Drain(r) \/ Reject(r) \/ Accept(r) \/ Leave(r) \/ NextRequest(r)
               \/ Watch(r) \/ StopWatcher(r) \/ HookCallback(r) \/ StreamTold(r) \/ StreamEnds(r)
               \/ Collect(r)
      PROVE  R!Next \/ UNCHANGED runner
  BY <1>1, <1>4
  DEF Drain, Reject, Accept, Leave, NextRequest, Watch, StopWatcher, HookCallback, StreamTold,
      StreamEnds, Collect, R!Next, R!Caller, R!Drain
<1>5. CASE Shutdown \/ DrainEnd
  BY <1>5 DEF Shutdown, DrainEnd, R!Next, R!Drain
<1> QED
  BY <1>2, <1>3, <1>4, <1>5 DEF Next, Loop

\* The handler only ever uses the runner in ways Runner.tla allows, without
\* cancelling a task that awaits run().
THEOREM UsesTheRunner == Spec => R!Spec
<1>1. Init => R!Init
  BY DEF Init
<1> QED
  BY <1>1, HandlerStepsAreRunnerSteps, PTL DEF Spec, R!Spec

\* So it is a run of the runner that RunnerProofs is about,
LEMMA RunnerSpec == Spec => RP!Spec
<1>1. R!Init => RP!Init
  BY DEF R!Init, RP!Init, R!Jobs, RP!Jobs
<1>2. [R!Next]_(R!vars) => [RP!Next]_(RP!vars)
  BY SameNext DEF R!vars, RP!vars
<1>3. R!Spec => RP!Spec
  BY <1>1, <1>2, PTL DEF R!Spec, RP!Spec
<1> QED
  BY <1>3, UsesTheRunner, PTL

\* and the runner's invariant holds of the composition.
LEMMA RunnerInv == Spec => []R!IInv
BY RunnerSpec, RP!Invariance, RunnerConstants, SameInv, PTL

------------------------------------------------------------------------------
(* The invariant of the handler.                                           *)

Same(q) ==
  /\ at'[q] = at[q] /\ tmp'[q] = tmp[q] /\ client'[q] = client[q]
  /\ cancel'[q] = cancel[q] /\ watching'[q] = watching[q] /\ result'[q] = result[q]
  /\ status'[q] = status[q] /\ stage'[q] = stage[q]

\* What one request does preserves the invariant if it does so for itself.
LEMMA OneRequest ==
  ASSUME IInv, R!IInv', TypeOK', NEW r \in Requests,
         \A q \in Requests \ {r} : Same(q), Owned(r)', Told(r)'
  PROVE  IInv'
BY DEF IInv, Owned, Told, Same

\* Steps before admission, and the answers they lead to.
LEMMA AdmissionSteps ==
  ASSUME IInv, R!IInv', NEW r \in Requests,
         Reject(r) \/ Accept(r) \/ UploadFails(r) \/ QueueFull(r) \/ AnswerFull(r)
  PROVE  IInv'
<1> USE DEF Requests
<1>1. stage \in [Requests -> R!Stages] /\ stage' \in [Requests -> R!Stages]
  BY DEF IInv, R!IInv, R!TypeOK, R!Jobs
<1>2. Owned(r) /\ Told(r) /\ TypeOK
  BY DEF IInv
<1>3. TypeOK'
  <2>1. ASSUME Reject(r) PROVE TypeOK'
    BY <1>2, <2>1 DEF TypeOK, R!IInv, Reject, Answer, Go, Places, Statuses
  <2>2. ASSUME Accept(r) \/ QueueFull(r) PROVE TypeOK'
    BY <1>2, <2>2 DEF TypeOK, R!IInv, Accept, QueueFull, Go, Places
  <2>3. ASSUME UploadFails(r) PROVE TypeOK'
    BY <1>2, <2>3 DEF TypeOK, R!IInv, UploadFails, Answer, Go, Unlink, Places,
       Statuses
  <2>4. ASSUME AnswerFull(r) PROVE TypeOK'
    BY <1>2, <2>4 DEF TypeOK, R!IInv, AnswerFull, Answer, Go, Unlink, Places, Statuses
  <2> QED
    BY <2>1, <2>2, <2>3, <2>4
<1>4. \A q \in Requests \ {r} : Same(q)
  BY <1>1, <1>2 DEF TypeOK, Same, Reject, Accept, UploadFails, QueueFull,
     AnswerFull, Answer, Go, Unlink, R!Refuse, R!Return, R!Move, runner
<1>5. Owned(r)' /\ Told(r)'
  BY <1>1, <1>2 DEF TypeOK, Owned, Told, Reject, Accept, UploadFails, QueueFull,
     AnswerFull, Answer, Go, Unlink, R!Refuse, R!Return, R!Move, runner
<1> QED
  BY <1>3, <1>4, <1>5, OneRequest

\* Steps of a synchronous request.
LEMMA SyncSteps ==
  ASSUME IInv, R!IInv', NEW r \in Runs,
         Infer(r) \/ Watch(r) \/ Inferred(r) \/ StopWatcher(r) \/ Conclude(r)
  PROVE  IInv'
<1> USE DEF Requests
<1>1. stage \in [Requests -> R!Stages] /\ stage' \in [Requests -> R!Stages]
  BY DEF IInv, R!IInv, R!TypeOK, R!Jobs
<1>2. Owned(r) /\ Told(r) /\ TypeOK /\ r \notin Streams
  BY RequestsAssumption DEF IInv
<1>3. ASSUME Infer(r) \/ Watch(r) \/ StopWatcher(r) PROVE IInv'
  <2>1. TypeOK'
    BY <1>2, <1>3
    DEF TypeOK, R!IInv, Infer, Watch, StopWatcher, WatcherEnds, Go, SetCancel, Places
  <2>2. \A q \in Requests \ {r} : Same(q)
    BY <1>1, <1>2, <1>3
    DEF TypeOK, Same, Infer, Watch, StopWatcher, WatcherEnds, Go, SetCancel, R!Run,
        R!Move, runner
  <2>3. Owned(r)' /\ Told(r)'
    BY <1>1, <1>2, <1>3
    DEF TypeOK, Owned, Told, Infer, Watch, StopWatcher, WatcherEnds, Go, SetCancel,
        R!Run, R!Move, runner
  <2> QED
    BY <2>1, <2>2, <2>3, OneRequest
<1>4. ASSUME Inferred(r) PROVE IInv'
  <2>1. TypeOK'
    BY <1>2, <1>4 DEF TypeOK, R!IInv, Inferred, Go, Places
  <2>2. \A q \in Requests \ {r} : Same(q)
    BY <1>1, <1>2, <1>4 DEF TypeOK, Same, Inferred, Go, R!Resume, R!Move
  <2>3. Owned(r)' /\ Told(r)'
    BY <1>1, <1>2, <1>4 DEF TypeOK, Owned, Told, Inferred, Go, R!Resume, R!Move
  <2> QED
    BY <2>1, <2>2, <2>3, OneRequest
<1>5. ASSUME Conclude(r) PROVE IInv'
  <2>1. result[r] \in {"ok", "cancelled", "failed"}
    BY <1>5 DEF Conclude, Render
  <2>2. PICK s \in {"200", "499", "error"} :
          Answer(r, s) /\ (s = "499" => result[r] = "cancelled")
    BY <1>5, <2>1 DEF Conclude, Render
  <2>3. TypeOK'
    BY <1>2, <1>5, <2>2
    DEF TypeOK, R!IInv, Conclude, Answer, Go, Unlink, Places, Statuses
  <2>4. \A q \in Requests \ {r} : Same(q)
    BY <1>1, <1>2, <1>5, <2>2 DEF TypeOK, Same, Conclude, Answer, Go, Unlink, runner
  <2>5. Owned(r)' /\ Told(r)'
    BY <1>1, <1>2, <1>5, <2>1, <2>2
    DEF TypeOK, Owned, Told, Conclude, Answer, Go, Unlink, runner
  <2> QED
    BY <2>3, <2>4, <2>5, OneRequest
<1> QED
  BY <1>3, <1>4, <1>5

\* Steps of a stream: opening it, iterating it, and the ways it ends.
LEMMA StreamSteps ==
  ASSUME IInv, R!IInv', NEW r \in Streams,
         Open(r) \/ Iterate(r) \/ LoseStream(r) \/ StreamTold(r) \/ StreamEnds(r)
           \/ StreamCut(r) \/ Collect(r)
  PROVE  IInv'
<1> USE DEF Requests
<1>1. stage \in [Requests -> R!Stages] /\ stage' \in [Requests -> R!Stages]
  BY DEF IInv, R!IInv, R!TypeOK, R!Jobs
<1>2. Owned(r) /\ Told(r) /\ TypeOK /\ r \notin Runs
  BY RequestsAssumption DEF IInv
<1>3. TypeOK'
  BY <1>2
  DEF TypeOK, IInv, R!IInv, Open, Iterate, LoseStream, StreamTold, StreamEnds,
      StreamCut, Collect, Answer, Go, SetCancel, Places, Statuses
<1>4. \A q \in Requests \ {r} : Same(q)
  BY <1>1, <1>2
  DEF TypeOK, Same, Open, Iterate, LoseStream, StreamTold, StreamEnds, StreamCut,
      Collect, Answer, Go, SetCancel, R!Acquire, R!Submit, R!Move, runner
<1>5. ASSUME Open(r) \/ Iterate(r) \/ LoseStream(r) PROVE Owned(r)' /\ Told(r)'
  BY <1>1, <1>2, <1>5
  DEF TypeOK, Owned, Told, Open, Iterate, LoseStream, Go, R!Acquire, R!Submit,
      R!Move, runner
<1>6. ASSUME StreamTold(r) \/ StreamEnds(r) \/ StreamCut(r) \/ Collect(r)
      PROVE  Owned(r)' /\ Told(r)'
  <2>1. UNCHANGED <<stage, tmp, client, watching, result>>
    BY <1>6 DEF StreamTold, StreamEnds, StreamCut, Collect, runner
  <2>2. /\ at[r] \in {"streaming", "dropped"}
        /\ client[r] = "gone" \/ (at'[r] \in {"streaming", "over"} /\ result[r] # "none")
        /\ \/ at'[r] = "over" /\ status'[r] = "200" /\ cancel'[r]
           \/ at'[r] = "dropped" /\ UNCHANGED <<status, cancel>>
           \/ at'[r] = "streaming" /\ UNCHANGED status /\ cancel'[r]
    BY <1>2, <1>6
    DEF TypeOK, Told, StreamTold, StreamEnds, StreamCut, Collect, Answer, Go, SetCancel
  <2>3. at'[r] = "streaming" => at[r] = "streaming"
    BY <1>2, <1>6
    DEF TypeOK, StreamTold, StreamEnds, StreamCut, Collect, Answer, Go
  <2>4. Owned(r)'
    BY <1>2, <2>1, <2>2, <2>3 DEF Owned
  <2>5. Told(r)'
    BY <1>2, <2>1, <2>2, <2>3 DEF Told
  <2> QED
    BY <2>4, <2>5
<1> QED
  BY <1>3, <1>4, <1>5, <1>6, OneRequest

\* A call at the head of the executor's queue is waiting in it.
LEMMA HeadIsQueued ==
  ASSUME IInv, NEW r \in Requests, queue # <<>>, r = Head(queue)
  PROVE  stage[r] = "queued"
<1>1. queue \in Seq(Requests)
  BY DEF IInv, R!IInv, R!TypeOK, R!Jobs, Requests
<1>2. 1 \in 1..Len(queue) /\ r = queue[1]
  BY <1>1
<1>3. stage[r] \in {"queued", "abandoned"}
  BY <1>2 DEF IInv, R!IInv, R!QueueOK
<1> QED
  BY <1>3 DEF IInv, Owned

\* Steps of the worker thread.
LEMMA WorkerSteps ==
  ASSUME IInv, R!IInv', NEW r \in Requests, Worker(r)
  PROVE  IInv'
<1> USE DEF Requests
<1>1. stage \in [Requests -> R!Stages] /\ stage' \in [Requests -> R!Stages]
  BY DEF IInv, R!IInv, R!TypeOK, R!Jobs
<1>2. Owned(r) /\ Told(r) /\ TypeOK
  BY DEF IInv
<1>3. ASSUME WorkerStart(r) PROVE IInv'
  <2>1. stage[r] = "queued"
    BY <1>3, HeadIsQueued DEF WorkerStart, R!WorkerStart
  <2>2. TypeOK'
    BY <1>2, <1>3 DEF TypeOK, R!IInv, WorkerStart, local
  <2>3. \A q \in Requests \ {r} : Same(q)
    BY <1>1, <1>3 DEF Same, WorkerStart, R!WorkerStart, R!Move, local
  <2>4. Owned(r)' /\ Told(r)'
    BY <1>1, <1>2, <1>3, <2>1
    DEF Owned, Told, WorkerStart, R!WorkerStart, R!Move, local
  <2> QED
    BY <2>2, <2>3, <2>4, OneRequest
<1>4. ASSUME WorkerFinish(r) PROVE IInv'
  <2>1. PICK e \in Results \ {"none"} :
          /\ result' = [result EXCEPT ![r] = e]
          /\ e = "cancelled" => cancel[r]
    BY <1>4 DEF WorkerFinish, Outcomes, Results
  <2>2. PICK s \in {"done", "callback", "resolved"} :
          /\ stage[r] = "running" /\ R!Move(r, s)
          /\ s = "done" <=> r \in Runs
    BY <1>2, <1>4, RequestsAssumption DEF WorkerFinish, R!WorkerFinish, Owned,
       R!IInv, R!TypeOK, IInv
  <2>3. TypeOK'
    BY <1>2, <1>4, <2>1 DEF TypeOK, R!IInv, WorkerFinish, Results
  <2>4. \A q \in Requests \ {r} : Same(q)
    BY <1>1, <1>2, <1>4, <2>1, <2>2 DEF TypeOK, Same, WorkerFinish, R!Move
  <2>5. Owned(r)'
    BY <1>1, <1>2, <1>4, <2>2, RequestsAssumption DEF Owned, WorkerFinish, R!Move
  <2>6. Told(r)'
    BY <1>1, <1>2, <1>4, <2>1, <2>2 DEF Owned, Told, WorkerFinish, R!Move, TypeOK
  <2> QED
    BY <2>3, <2>4, <2>5, <2>6, OneRequest
<1>5. ASSUME Cleanup(r) PROVE IInv'
  <2>1. TypeOK'
    BY <1>2, <1>5 DEF TypeOK, R!IInv, Cleanup, Unlink
  <2>2. \A q \in Requests \ {r} : Same(q)
    BY <1>1, <1>2, <1>5 DEF TypeOK, Same, Cleanup, Unlink, R!DoneCallback, R!Move
  <2>3. Owned(r)' /\ Told(r)'
    BY <1>1, <1>2, <1>5
    DEF TypeOK, Owned, Told, Cleanup, Unlink, R!DoneCallback, R!Move
  <2> QED
    BY <2>1, <2>2, <2>3, OneRequest
<1> QED
  BY <1>3, <1>4, <1>5 DEF Worker

\* The late callback, and the callbacks that shutdown runs.
LEMMA CallbackSteps ==
  ASSUME IInv, R!IInv', NEW r \in Streams, HookCallback(r) \/ Drain(r)
  PROVE  IInv'
<1> USE DEF Requests
<1>1. stage \in [Requests -> R!Stages] /\ stage' \in [Requests -> R!Stages]
  BY DEF IInv, R!IInv, R!TypeOK, R!Jobs
<1>2. Owned(r) /\ Told(r) /\ TypeOK /\ r \notin Runs
  BY RequestsAssumption DEF IInv
<1>3. Drain(r) => stage[r] = "queued"
  BY HeadIsQueued DEF Drain, R!DrainOne
<1>4. TypeOK'
  BY <1>2 DEF TypeOK, R!IInv, HookCallback, Drain, Unlink
<1>5. \A q \in Requests \ {r} : Same(q)
  BY <1>1, <1>2
  DEF TypeOK, Same, HookCallback, Drain, Unlink, R!Hook, R!DrainOne, R!Move
<1>6. Owned(r)' /\ Told(r)'
  BY <1>1, <1>2, <1>3
  DEF TypeOK, Owned, Told, HookCallback, Drain, Unlink, R!Hook, R!DrainOne, R!Move
<1> QED
  BY <1>4, <1>5, <1>6, OneRequest

\* Clients that leave, and names that are used again.
LEMMA ClientSteps ==
  ASSUME IInv, R!IInv', NEW r \in Requests, Leave(r) \/ NextRequest(r)
  PROVE  IInv'
<1>1. Owned(r) /\ Told(r) /\ TypeOK /\ UNCHANGED stage
  BY DEF IInv, Leave, NextRequest, runner
<1>2. TypeOK'
  BY <1>1 DEF TypeOK, R!IInv, Leave, NextRequest, Go, Places, Results, Statuses
<1>3. \A q \in Requests \ {r} : Same(q)
  BY <1>1 DEF TypeOK, Same, Leave, NextRequest, Go
<1>4. Owned(r)' /\ Told(r)'
  BY <1>1 DEF TypeOK, Owned, Told, Leave, NextRequest, Go
<1> QED
  BY <1>2, <1>3, <1>4, OneRequest

\* Every step preserves the handler's invariant, given the runner's.
LEMMA NextInv == IInv /\ R!IInv' /\ [Next]_vars => IInv'
<1> SUFFICES ASSUME IInv, R!IInv', [Next]_vars PROVE IInv'
  OBVIOUS
<1>1. CASE Shutdown \/ DrainEnd \/ UNCHANGED vars
  <2>1. UNCHANGED <<stage, local>>
    BY <1>1 DEF Shutdown, DrainEnd, vars, runner, R!Shutdown, R!DrainEnd
  <2> QED
    BY <2>1 DEF IInv, R!IInv, TypeOK, Owned, Told, local
<1>2. ASSUME NEW r \in Requests, Handler(r) PROVE IInv'
  BY <1>2, AdmissionSteps, SyncSteps, StreamSteps DEF Handler
<1>3. ASSUME NEW r \in Requests, Drain(r) PROVE IInv'
  BY <1>3, CallbackSteps DEF Drain
<1> QED
  BY <1>1, <1>2, <1>3, WorkerSteps, AdmissionSteps, SyncSteps, StreamSteps,
     CallbackSteps, ClientSteps DEF Next, Loop

------------------------------------------------------------------------------
\* The invariant holds in every reachable state of the composition.
THEOREM Invariance == Spec => []IInv
<1>1. Init /\ R!IInv => IInv
  BY DEF Init, IInv, R!IInv, TypeOK, Owned, Told, Places, Results, Statuses,
     R!Init, R!Jobs, Requests
<1> QED
  BY <1>1, RunnerInv, NextInv, PTL DEF Spec

\* The types of the handler's state, and the runner's bounds inside it.
THEOREM TypeCorrect == Spec => []TypeOK
BY Invariance, PTL DEF IInv

\* A job that is queued or running always finds its temp file.
THEOREM FileThere == Spec => []FileUntilTheWorkerIsDone
<1>1. IInv => FileUntilTheWorkerIsDone
  BY DEF IInv, Owned, FileUntilTheWorkerIsDone
<1> QED
  BY <1>1, Invariance, PTL

\* A request that is over, response and job, has no file on the disk.
THEOREM DiskClean == Spec => []NothingLeftBehind
<1>1. IInv => NothingLeftBehind
  BY DEF IInv, Owned, NothingLeftBehind
<1> QED
  BY <1>1, Invariance, PTL

\* Nobody is cancelled, or answered 499, whose client has not left.
THEOREM CancelledAreGone == Spec => []OnlyTheGoneAreCancelled
<1>1. IInv => OnlyTheGoneAreCancelled
  BY DEF IInv, Told, OnlyTheGoneAreCancelled
<1> QED
  BY <1>1, Invariance, PTL

------------------------------------------------------------------------------
(* The server as a whole.                                                  *)

\* Both instances refine the same abstract admission.
LEMMA SameAdmission == RP!ImplementsAdmission => R!ImplementsAdmission
<1>1. RP!Abstract!Init => R!Abstract!Init
  BY DEF RP!Abstract!Init, R!Abstract!Init, RP!Holders, R!Holders, RP!Active,
     R!Active, RP!In, R!In, RP!Jobs, R!Jobs, RP!HolderStages, R!HolderStages
<1>2. [RP!Abstract!Next]_(RP!Abstract!vars) => [R!Abstract!Next]_(R!Abstract!vars)
  BY DEF RP!Abstract!Next, R!Abstract!Next, RP!Abstract!vars, R!Abstract!vars,
     RP!Abstract!Admit, R!Abstract!Admit, RP!Abstract!Begin, R!Abstract!Begin,
     RP!Abstract!End, R!Abstract!End, RP!Abstract!Leave, R!Abstract!Leave,
     RP!Abstract!Cardinality, R!Abstract!Cardinality,
     RP!Holders, R!Holders, RP!Active, R!Active, RP!In, R!In, RP!Jobs, R!Jobs,
     RP!HolderStages, R!HolderStages
<1> QED
  BY <1>1, <1>2, PTL
  DEF RP!ImplementsAdmission, R!ImplementsAdmission, RP!Abstract!Spec, R!Abstract!Spec

\* The server as a whole implements the admission: whatever its clients and
\* its shutdown do, MAX_QUEUE slots, one inference at a time.
THEOREM ServerImplementsAdmission == Spec => ServerAdmits
<1>1. RP!Spec => RP!ImplementsAdmission
  BY RunnerConstants, RP!ImplementsAdmissionSpec
<1> QED
  BY <1>1, RunnerSpec, SameAdmission, PTL DEF ServerAdmits

\* Both instances mean the same by a waiting call and its place in the queue.
LEMMA SameQueue ==
  /\ RP!NobodyStranded <=> R!NobodyStranded
  /\ RP!NoOvertaking <=> R!NoOvertaking
<1>1. /\ RP!Jobs = R!Jobs /\ RP!Waiting = R!Waiting /\ RP!Waiting' = R!Waiting'
      /\ RP!vars = R!vars /\ RP!vars' = R!vars'
  BY DEF RP!Jobs, R!Jobs, RP!Waiting, R!Waiting, RP!In, R!In, RP!vars, R!vars
<1>2. ASSUME NEW j, NEW k
      PROVE  (RP!Ahead(j, k) <=> R!Ahead(j, k)) /\ (RP!Ahead(j, k)' <=> R!Ahead(j, k)')
  BY DEF RP!Ahead, R!Ahead
<1> DEFINE A == \A j, k \in RP!Jobs : RP!Ahead(j, k) => RP!Ahead(j, k)' \/ j \notin RP!Waiting'
           B == \A j, k \in R!Jobs : R!Ahead(j, k) => R!Ahead(j, k)' \/ j \notin R!Waiting'
<1>3. [A]_(RP!vars) <=> [B]_(R!vars)
  BY <1>1, <1>2
<1>4. (RP!NoOvertaking <=> [][A]_(RP!vars)) /\ (R!NoOvertaking <=> [][B]_(R!vars))
  BY DEF RP!NoOvertaking, R!NoOvertaking
<1>5. RP!NobodyStranded <=> R!NobodyStranded
  BY <1>1 DEF RP!NobodyStranded, R!NobodyStranded
<1> QED
  BY <1>3, <1>4, <1>5, PTL

\* No handler awaits a future that nobody will resolve, and requests are served
\* in the order in which their jobs were submitted.
THEOREM ServerServesInOrder == Spec => []R!NobodyStranded /\ R!NoOvertaking
<1>1. RP!Spec => []RP!NobodyStranded /\ RP!NoOvertaking
  BY RunnerConstants, RP!NoneStranded, RP!FirstComeFirstServed
<1> QED
  BY <1>1, RunnerSpec, SameQueue, PTL
===============================================================================
