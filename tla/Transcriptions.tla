---------------------------- MODULE Transcriptions ----------------------------
(***************************************************************************)
(* gigaam_api/api/transcriptions.py on top of the runner: what one handler *)
(* call owns (a temp file, a slot, a cancel event), when it hands them to  *)
(* the worker's done-callback, and what happens when its client leaves.    *)
(* A call is synchronous (Runs) or an SSE stream (Streams).                *)
(***************************************************************************)
EXTENDS Integers, Sequences, FiniteSets

CONSTANTS Runs,       \* synchronous requests, the fallback formats included
          Streams,    \* requests with stream=true and format json or text
          MaxQueue    \* settings.MAX_QUEUE

ASSUME RequestsAssumption ==
  /\ IsFiniteSet(Runs) /\ IsFiniteSet(Streams)
  /\ Runs \cap Streams = {}
  /\ MaxQueue \in Nat \ {0}

VARIABLES inflight, queue, stage, unhooked, pool   \* of the Runner

R == INSTANCE Runner WITH Cancellable <- {}

Requests == Runs \cup Streams

VARIABLES at,       \* where the response to each request stands
          tmp,      \* the temp file exists
          client,   \* "here" or "gone"
          cancel,   \* cancel_event is set
          watching, \* the task _watch_disconnect is alive
          result,   \* what the engine call ended with
          status    \* what the client is answered

runner == <<inflight, queue, stage, unhooked, pool>>
local  == <<at, tmp, client, cancel, watching, result, status>>
vars   == <<runner, local>>

(***************************************************************************)
(* idle       no request                 uploading  writing and probing    *)
(* refused    QueueFullError raised      inferring  awaiting runner.run    *)
(* closing    the task group's exit waits for the cancelled watcher        *)
(* starting   StreamingResponse returned, its body not iterated yet        *)
(* streaming  stream_segments has begun  dropped    left to the collector  *)
(* lost       cancelled before the first iteration                         *)
(* over       the response is finished                                     *)
(***************************************************************************)
Places == {"idle", "uploading", "refused", "inferring", "closing", "starting",
           "streaming", "dropped", "lost", "over"}
Results  == {"none", "ok", "cancelled", "failed", "told"}
\* "error": one of 400, 401, 413 and 500; Intake says which.
Statuses == {"none", "200", "499", "503", "error"}

Init ==
  /\ R!Init
  /\ at = [r \in Requests |-> "idle"]
  /\ tmp = [r \in Requests |-> FALSE]
  /\ client = [r \in Requests |-> "here"]
  /\ cancel = [r \in Requests |-> FALSE]
  /\ watching = [r \in Requests |-> FALSE]
  /\ result = [r \in Requests |-> "none"]
  /\ status = [r \in Requests |-> "none"]

Go(r, place)  == at' = [at EXCEPT ![r] = place]
Unlink(r)     == tmp' = [tmp EXCEPT ![r] = FALSE]
SetCancel(r)  == cancel' = [cancel EXCEPT ![r] = TRUE]
Answer(r, s)  == Go(r, "over") /\ status' = [status EXCEPT ![r] = s]

------------------------------------------------------------------------------
(* Before admission. *)

\* No valid key, or invalid parameters: nothing was created yet.
Reject(r) ==
  /\ R!LoopFree /\ pool = "open" /\ at[r] = "idle"
  /\ Answer(r, "error")
  /\ UNCHANGED <<runner, tmp, client, cancel, watching, result>>

Accept(r) ==
  /\ R!LoopFree /\ pool = "open" /\ at[r] = "idle"
  /\ Go(r, "uploading")
  /\ tmp' = [tmp EXCEPT ![r] = TRUE]
  /\ UNCHANGED <<runner, client, cancel, watching, result, status>>

\* 413, an unreadable or too long audio, or a failing disk.
UploadFails(r) ==
  /\ R!LoopFree /\ at[r] = "uploading"
  /\ Answer(r, "error")
  /\ Unlink(r)
  /\ UNCHANGED <<runner, client, cancel, watching, result>>

QueueFull(r) ==
  /\ at[r] = "uploading"
  /\ R!Refuse(r)
  /\ Go(r, "refused")
  /\ UNCHANGED <<tmp, client, cancel, watching, result, status>>

\* The 503 leaves before any header, and `finally` deletes the file.
AnswerFull(r) ==
  /\ at[r] = "refused"
  /\ R!Return(r)
  /\ Answer(r, "503") /\ Unlink(r)
  /\ UNCHANGED <<client, cancel, watching, result>>

------------------------------------------------------------------------------
(* Synchronous requests. *)

\* The watcher and the engine call start in one task group.
Infer(r) ==
  /\ at[r] = "uploading"
  /\ R!Run(r)
  /\ Go(r, "inferring")
  /\ watching' = [watching EXCEPT ![r] = TRUE]
  /\ UNCHANGED <<tmp, client, cancel, result, status>>

WatcherEnds(r) == watching' = [watching EXCEPT ![r] = FALSE]

\* _watch_disconnect sees the client gone, also in a last look while its
\* cancellation is on the way.
Watch(r) ==
  /\ R!LoopFree /\ watching[r] /\ client[r] = "gone"
  /\ SetCancel(r) /\ WatcherEnds(r)
  /\ UNCHANGED <<runner, at, tmp, client, result, status>>

\* run() is over; `finally` cancels the scope, and the group's exit begins.
Inferred(r) ==
  /\ at[r] = "inferring"
  /\ R!Resume(r)
  /\ Go(r, "closing")
  /\ UNCHANGED <<tmp, client, cancel, watching, result, status>>

StopWatcherRaw(r) ==   \* mutant: is_disconnected() swallows a raw cancellation
  /\ R!LoopFree /\ at[r] = "closing" /\ watching[r] /\ client[r] = "gone"
  /\ WatcherEnds(r)
  /\ UNCHANGED <<runner, at, tmp, client, cancel, result, status>>

\* A cancelled scope cancels at every await, so the watcher ends whatever
\* scopes it is in, its client still connected or not.
StopWatcher(r) ==
  /\ R!LoopFree /\ at[r] = "closing" /\ watching[r]
  /\ WatcherEnds(r)
  /\ UNCHANGED <<runner, at, tmp, client, cancel, result, status>>

Render(r) ==
  \/ result[r] = "ok" /\ Answer(r, "200")
  \/ result[r] = "cancelled" /\ Answer(r, "499")
  \/ result[r] = "failed" /\ Answer(r, "error")

ConcludeKeepsFile(r) ==   \* mutant: an error path without the unlink
  /\ R!LoopFree /\ at[r] = "closing" /\ ~watching[r]
  /\ Render(r)
  /\ IF result[r] = "ok" THEN Unlink(r) ELSE UNCHANGED tmp
  /\ UNCHANGED <<runner, client, cancel, watching, result>>

\* The task group has been left: the answer, and the unlink in `finally`.
Conclude(r) ==
  /\ R!LoopFree /\ at[r] = "closing" /\ ~watching[r]
  /\ Render(r) /\ Unlink(r)
  /\ UNCHANGED <<runner, client, cancel, watching, result>>

------------------------------------------------------------------------------
(* Streams. *)

\* `streamed = True`: from here on only _cleanup deletes the file.
OpenUnlinks(r) ==   \* mutant: `streamed` forgotten, `finally` deletes the file
  /\ at[r] = "uploading"
  /\ R!Acquire(r)
  /\ Go(r, "starting") /\ Unlink(r)
  /\ UNCHANGED <<client, cancel, watching, result, status>>

Open(r) ==
  /\ at[r] = "uploading"
  /\ R!Acquire(r)
  /\ Go(r, "starting")
  /\ UNCHANGED <<tmp, client, cancel, watching, result, status>>

\* The first iteration of the body: submit, then add_done_callback.
Iterate(r) ==
  /\ at[r] = "starting"
  /\ R!Submit(r)
  /\ Go(r, "streaming")
  /\ UNCHANGED <<tmp, client, cancel, watching, result, status>>

\* The response is cancelled while its headers are still being sent.
LoseStream(r) ==
  /\ R!LoopFree /\ at[r] = "starting" /\ client[r] = "gone"
  /\ Go(r, "lost")
  /\ UNCHANGED <<runner, tmp, client, cancel, watching, result, status>>

HookReleasesOnly(r) ==   \* mutant: a late callback gives back the slot only
  /\ R!Hook(r)
  /\ UNCHANGED local

HookCallback(r) ==
  /\ R!Hook(r)
  /\ IF stage[r] = "resolved" THEN Unlink(r) ELSE UNCHANGED tmp
  /\ UNCHANGED <<at, client, cancel, watching, result, status>>

\* The last message of the producer was taken: stream_segments ends, and sets
\* the event in its `finally`, before the last frames are sent.
StreamTold(r) ==
  /\ R!LoopFree /\ at[r] = "streaming" /\ result[r] # "none" /\ ~cancel[r]
  /\ SetCancel(r)
  /\ UNCHANGED <<runner, at, tmp, client, watching, result, status>>

\* The last frame has been sent.
StreamEnds(r) ==
  /\ R!LoopFree /\ at[r] = "streaming" /\ cancel[r]
  /\ Answer(r, "200")
  /\ UNCHANGED <<runner, tmp, client, cancel, watching, result>>

\* The response is cancelled in queue.get(), or at a send.
StreamCut(r) ==
  /\ R!LoopFree /\ at[r] = "streaming" /\ client[r] = "gone"
  /\ \/ Answer(r, "200") /\ SetCancel(r)
     \/ Go(r, "dropped") /\ UNCHANGED <<cancel, status>>
  /\ UNCHANGED <<runner, tmp, client, watching, result>>

Collect(r) ==
  /\ R!LoopFree /\ at[r] = "dropped"
  /\ Answer(r, "200") /\ SetCancel(r)
  /\ UNCHANGED <<runner, tmp, client, watching, result>>

------------------------------------------------------------------------------
(* The worker thread, the client and the process. *)

WorkerStart(r) == R!WorkerStart(r) /\ UNCHANGED local

\* A cancelled engine call may still succeed: nothing was left to skip. How a
\* stream ended is told in its frames (StreamBridge).
Outcomes(r) ==
  IF r \in Streams THEN {"told"}
  ELSE {"ok", "failed"} \cup (IF cancel[r] THEN {"cancelled"} ELSE {})

WorkerFinish(r) ==
  /\ R!WorkerFinish(r)
  /\ \E e \in Outcomes(r) : result' = [result EXCEPT ![r] = e]
  /\ UNCHANGED <<at, tmp, client, cancel, watching, status>>

CleanupWithResponse(r) ==   \* mutant: cleanup when the consumer has finished
  /\ at[r] = "over"
  /\ R!DoneCallback(r)
  /\ Unlink(r)
  /\ UNCHANGED <<at, client, cancel, watching, result, status>>

\* _cleanup: release, then unlink.
Cleanup(r) ==
  /\ R!DoneCallback(r)
  /\ Unlink(r)
  /\ UNCHANGED <<at, client, cancel, watching, result, status>>

\* The client disconnects.
Leave(r) ==
  /\ at[r] \notin {"idle", "over"} /\ client[r] = "here"
  /\ client' = [client EXCEPT ![r] = "gone"]
  /\ UNCHANGED <<runner, at, tmp, cancel, watching, result, status>>

NextKeepsEvent(r) ==   \* mutant: one threading.Event for all requests of a client
  /\ R!LoopFree /\ at[r] = "over" /\ stage[r] = "outside"
  /\ Go(r, "idle")
  /\ client' = [client EXCEPT ![r] = "here"]
  /\ result' = [result EXCEPT ![r] = "none"]
  /\ status' = [status EXCEPT ![r] = "none"]
  /\ UNCHANGED <<runner, tmp, cancel, watching>>

\* The name of a finished request is used for another one.
NextRequest(r) ==
  /\ R!LoopFree /\ at[r] = "over" /\ stage[r] = "outside"
  /\ Go(r, "idle")
  /\ client' = [client EXCEPT ![r] = "here"]
  /\ cancel' = [cancel EXCEPT ![r] = FALSE]
  /\ result' = [result EXCEPT ![r] = "none"]
  /\ status' = [status EXCEPT ![r] = "none"]
  /\ UNCHANGED <<runner, tmp, watching>>

\* The lifespan ends after every response is over (graceful shutdown).
Shutdown ==
  /\ \A r \in Requests : at[r] \in {"idle", "over", "dropped", "lost"}
  /\ R!Shutdown
  /\ UNCHANGED local

DrainSilently(r) ==   \* mutant: the callback returns early for a cancelled future
  /\ r \in Streams
  /\ R!DrainOne(r)
  /\ UNCHANGED local

\* Only producers of streams nobody listens to can still be queued then.
Drain(r) ==
  /\ r \in Streams
  /\ R!DrainOne(r)
  /\ Unlink(r)
  /\ UNCHANGED <<at, client, cancel, watching, result, status>>

DrainEnd == R!DrainEnd /\ UNCHANGED local

------------------------------------------------------------------------------
Handler(r) ==
  \/ UploadFails(r) \/ QueueFull(r) \/ AnswerFull(r)
  \/ r \in Runs /\ (Infer(r) \/ Inferred(r) \/ Conclude(r))
  \/ r \in Streams /\ (Open(r) \/ Iterate(r) \/ LoseStream(r) \/ StreamCut(r))

\* What the event loop does for a request, apart from what waits for its client.
Loop(r) ==
  \/ Handler(r)
  \/ r \in Runs /\ (Watch(r) \/ StopWatcher(r))
  \/ r \in Streams /\ (HookCallback(r) \/ Collect(r))

Worker(r) == WorkerStart(r) \/ WorkerFinish(r) \/ Cleanup(r)

Next ==
  \/ \E r \in Requests :
       \/ Loop(r) \/ Worker(r) \/ Drain(r)
       \/ Reject(r) \/ Accept(r) \/ Leave(r) \/ NextRequest(r)
       \/ r \in Streams /\ (StreamTold(r) \/ StreamEnds(r))
  \/ Shutdown \/ DrainEnd

Spec == Init /\ [][Next]_vars

\* As in Runner: the pool works, and the event loop's FIFO of ready callbacks
\* reaches every request that can go on.  Clients owe nothing: a stream that
\* nobody reads need not end.
Fairness ==
  /\ WF_vars(\E r \in Requests : Worker(r))
  /\ WF_vars(DrainEnd \/ \E r \in Requests : Drain(r))
  /\ \A r \in Requests : SF_vars(Loop(r))

FairSpec == Spec /\ Fairness

------------------------------------------------------------------------------
TypeOK ==
  /\ R!TypeOK
  /\ at \in [Requests -> Places]
  /\ tmp \in [Requests -> BOOLEAN] /\ cancel \in [Requests -> BOOLEAN]
  /\ watching \in [Requests -> BOOLEAN]
  /\ client \in [Requests -> {"here", "gone"}]
  /\ result \in [Requests -> Results] /\ status \in [Requests -> Statuses]

\* The worker never opens a file that somebody already deleted: handler,
\* done-callback and shutdown leave it alone as long as the job needs it.
FileUntilTheWorkerIsDone ==
  \A r \in Requests : stage[r] \in {"queued", "running"} => tmp[r]

\* Once the response is over and the job has left the runner the upload is
\* gone from the disk, on every path through the handler but one: the stream
\* that is lost before it begins (TempFileBelongsToTheStream).
NothingLeftBehind ==
  \A r \in Requests :
    (at[r] = "idle" \/ (at[r] \in {"over", "dropped"} /\ stage[r] = "outside"))
      => ~tmp[r]

\* An engine call is told to stop, and 499 is answered, only when the client
\* of that very request has disconnected.
OnlyTheGoneAreCancelled ==
  \A r \in Requests :
    (status[r] = "499" \/ (cancel[r] /\ stage[r] \in {"queued", "running"}))
      => client[r] = "gone"

\* The server as a whole, handlers, callbacks and shutdown included, admits
\* and infers as the runner promises: MAX_QUEUE slots, one inference at a time,
\* and no slot given back by a request that is still being inferred.
ServerAdmits == R!ImplementsAdmission

(* The inductive invariant behind these (TranscriptionsProofs.tla). *)

\* Who owns the temp file: nobody, the handler, or the stream's callback.
Owned(r) ==
  \/ at[r] \in {"idle", "over"} /\ stage[r] = "outside" /\ ~tmp[r]
  \/ at[r] = "uploading" /\ stage[r] = "outside" /\ tmp[r]
  \/ at[r] = "refused" /\ stage[r] = "refused" /\ tmp[r]
  \/ /\ r \in Runs /\ at[r] = "inferring"
     /\ stage[r] \in {"queued", "running", "done"} /\ tmp[r]
  \/ r \in Runs /\ at[r] = "closing" /\ stage[r] = "outside" /\ tmp[r]
  \/ /\ r \in Streams /\ at[r] \in {"starting", "lost"}
     /\ stage[r] = "admitted" /\ tmp[r]
  \/ /\ r \in Streams /\ at[r] \in {"streaming", "dropped", "over"}
     /\ stage[r] \in {"queued", "running", "callback", "resolved"} /\ tmp[r]
  \/ /\ r \in Streams /\ at[r] \in {"streaming", "dropped"}
     /\ stage[r] = "outside" /\ ~tmp[r]

\* A cancelled engine call, and what it leads to, means the client is gone;
\* an event set at the end of a stream stops nothing.
Told(r) ==
  /\ stage[r] \in {"queued", "running"} => result[r] = "none"
  /\ stage[r] \in {"done", "callback", "resolved"} => result[r] # "none"
  /\ at[r] \in {"idle", "uploading", "refused", "starting", "lost"} =>
       ~cancel[r] /\ result[r] = "none"
  /\ at[r] # "over" => status[r] = "none"
  /\ watching[r] => at[r] \in {"inferring", "closing"}
  /\ result[r] = "cancelled" \/ status[r] = "499" \/ at[r] = "dropped" =>
       client[r] = "gone"
  /\ cancel[r] => client[r] = "gone" \/ result[r] # "none"

IInv == R!IInv /\ TypeOK /\ \A r \in Requests : Owned(r) /\ Told(r)

\* Every accepted synchronous request is answered, its client connected or
\* gone: the queue, the worker and the watcher that has to be torn down first
\* all let it go on.
SyncAnswered == \A r \in Runs : at[r] = "uploading" ~> at[r] = "over"

\* A client that stops reading, but stays connected, costs neither the slot
\* nor the file: both go when the engine has finished.
StalledClientFreesWorker ==
  \A r \in Streams : at[r] = "streaming" ~> (~tmp[r] /\ stage[r] = "outside")

\* When the client has left, slot and file are given back, unless the stream
\* was cancelled before its first iteration.
GoneFreesEverything ==
  \A r \in Requests :
    client[r] = "gone" ~> (at[r] = "lost" \/ (~tmp[r] /\ stage[r] = "outside"))

\* A graceful shutdown leaves nothing behind: the jobs it drops and the job
\* that "runs to completion" all give back their slot and delete their file,
\* whichever of the two threads gets to their callback.
ShutdownFreesEverything ==
  pool # "open" ~> \A r \in Requests :
    at[r] = "lost" \/ (~tmp[r] /\ stage[r] = "outside")

\* "From this point the temp-file belongs to the stream (cleanup in
\* _cleanup)": an admitted stream deletes its file.
TempFileBelongsToTheStream ==
  \A r \in Streams : at[r] = "starting" ~> ~tmp[r]
===============================================================================
