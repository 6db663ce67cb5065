----------------------------- MODULE HandledStream -----------------------------
(***************************************************************************)
(* The stream as the handler and the runner see it: the steps of one       *)
(* ServedStream, from the moment its done-callback is registered, are the  *)
(* steps that Transcriptions gives a stream, up to and with the shutdown   *)
(* of the executor.                                                        *)
(***************************************************************************)
EXTENDS ServedStream

VARIABLE pool   \* the executor, as in Runner

handled == <<served, pool>>

HandledInit == ServedInit /\ pool = "open"

\* What runs in the event loop, one at a time, and not during shutdown().
Loop == Put \/ Consume \/ Timeout \/ Sent \/ Abort \/ Collect
InLoop(A) == pool # "draining" /\ Around(A) /\ UNCHANGED pool

\* The lifespan shuts the runner down after every response is over.
Shutdown ==
  /\ pool = "open" /\ consumer \in {"closed", "dropped"}
  /\ pool' = "draining"
  /\ UNCHANGED served

Drop == pool = "draining" /\ Around(ShutdownCancels) /\ UNCHANGED pool

DrainEnd ==
  /\ pool = "draining" /\ producer # "queued"
  /\ pool' = "closed"
  /\ UNCHANGED served

HandledNext ==
  \/ Iterate /\ UNCHANGED pool
  \/ Around(ProducerStart \/ OnDone \/ Leave) /\ UNCHANGED pool
  \/ InLoop(Loop)
  \/ Shutdown \/ Drop \/ DrainEnd

HandledSpec == HandledInit /\ [][HandledNext]_handled

\* The worker reaches and ends every job, the loop runs what is ready, and
\* generators left behind are collected.  Nothing is assumed of the client
\* or of the network: a frame may stay in send() for ever.
FairHandled ==
  /\ HandledSpec
  /\ WF_handled((Iterate \/ Around(ProducerStart \/ OnDone)) /\ UNCHANGED pool)
  /\ WF_handled(InLoop(Put)) /\ WF_handled(InLoop(Consume))
  /\ WF_handled(InLoop(Collect)) /\ WF_handled(InLoop(Abort))
  /\ WF_handled(Drop \/ DrainEnd)

------------------------------------------------------------------------------
(* The stream is the only request of a handler on a server with one slot.    *)

Stage ==
  CASE producer \in {"queued", "running"} -> producer
    [] producer \in {"done", "error"} /\ ~cleaned -> "callback"
    [] OTHER -> "outside"

Place ==
  CASE consumer = "closed" -> "over"
    [] consumer = "dropped" -> "dropped"
    [] OTHER -> "streaming"

Slots    == IF cleaned THEN 0 ELSE 1
Executor == IF producer = "queued" THEN <<"stream">> ELSE <<>>
Outcome  == IF producer \in {"done", "error"} THEN "told" ELSE "none"
Answered == IF consumer = "closed" THEN "200" ELSE "none"

Only(value) == [r \in {"stream"} |-> value]

H == INSTANCE Transcriptions
       WITH Runs <- {}, Streams <- {"stream"}, MaxQueue <- 1,
            inflight <- Slots, queue <- Executor, stage <- Only(Stage), unhooked <- {},
            at <- Only(Place), tmp <- Only(~cleaned), client <- Only(client),
            cancel <- Only(cancel), watching <- Only(FALSE), result <- Only(Outcome), status <- Only(Answered)

\* The generators, the queue and the thread, in whatever order they move, do
\* with the slot, the file and the event what the handler's model says a stream
\* does: it is told, ends, is cut or is dropped, and its callback comes once.
ImplementsHandler == H!IInv /\ [][H!Next]_(H!vars)
===============================================================================
