----------------------------- MODULE StreamBridge -----------------------------
(***************************************************************************)
(* gigaam_api/streaming.py, one SSE response from the first iteration of   *)
(* stream_segments on: produce() in the runner's worker thread, the queue  *)
(* between the thread and the event loop, sse_transcription on top of it,  *)
(* and the StreamingResponse that sends the frames and may be cancelled.   *)
(***************************************************************************)
EXTENDS Naturals, Sequences, FiniteSets

CONSTANTS Texts,         \* the texts a segment may have, as token sequences
          Space,         \* the separator token
          MaxSegments    \* bound on the segments of one stream

Tokens == {Space} \cup UNION {{t[i] : i \in DOMAIN t} : t \in Texts}

ASSUME StreamAssumption ==
  /\ \A t \in Texts : t \in Seq(Tokens)
  /\ MaxSegments \in Nat

VARIABLES producer,   \* the future of produce()
          produced,   \* the texts make_iter() has yielded so far
          posted,     \* call_soon_threadsafe: puts the loop has not run yet
          queue,      \* the asyncio.Queue
          consumer,   \* where the two async generators stand
          parts,      \* sse_transcription's list of texts
          frame,      \* the frame being sent
          sent,       \* the frames the client was sent, heartbeats left out
          cancel,     \* the threading.Event
          cleaned,    \* on_done has run
          client      \* "here" or "gone"

vars == <<producer, produced, posted, queue, consumer, parts, frame, sent,
          cancel, cleaned, client>>

Segment(t) == [kind |-> "segment", text |-> t]
Done       == [kind |-> "done", text |-> <<>>]    \* _DONE
Error      == [kind |-> "error", text |-> <<>>]   \* the exception
Messages   == {Segment(t) : t \in Texts} \cup {Done, Error}

Delta(t)    == [type |-> "delta", text |-> t]
FullText(t) == [type |-> "done", text |-> t]
Terminator  == [type |-> "[DONE]", text |-> <<>>]
ErrorEvent  == [type |-> "error", text |-> <<>>]
Heartbeat   == [type |-> "heartbeat", text |-> <<>>]

\* sep.join(texts)
Joined(sep, texts) ==
  LET upTo[n \in 0..Len(texts)] ==
        IF n = 0 THEN <<>>
        ELSE upTo[n - 1] \o (IF n = 1 THEN <<>> ELSE sep) \o texts[n]
  IN  upTo[Len(texts)]

\* " ".join(parts)
Join(texts) == Joined(<<Space>>, texts)

\* getting: about to call queue.get(); waiting: suspended in it; sending: at
\* the yield; dropped: left at the yield for the garbage collector.
Init ==
  /\ producer = "queued" /\ produced = <<>>
  /\ posted = <<>> /\ queue = <<>>
  /\ consumer = "getting" /\ parts = <<>>
  /\ frame = Heartbeat /\ sent = <<>>
  /\ cancel = FALSE /\ cleaned = FALSE
  /\ client = "here"

------------------------------------------------------------------------------
(* The worker thread. *)

Post(m) == posted' = Append(posted, m)

ProducerStart ==
  /\ producer = "queued"
  /\ producer' = "running"
  /\ UNCHANGED <<produced, posted, queue, consumer, parts, frame, sent, cancel,
                 cleaned, client>>

Emit(t) ==
  /\ producer = "running" /\ Len(produced) < MaxSegments
  /\ produced' = Append(produced, t)
  /\ Post(Segment(t))
  /\ UNCHANGED <<producer, queue, consumer, parts, frame, sent, cancel, cleaned,
                 client>>

FinishAlwaysDone ==   \* mutant: `finally` posts _DONE, whatever happened
  /\ producer = "running"
  /\ producer' \in {"done", "error"} /\ Post(Done)
  /\ UNCHANGED <<produced, queue, consumer, parts, frame, sent, cancel, cleaned,
                 client>>

\* The iterator is exhausted, or raises (a cancelled one raises too).
Finish ==
  /\ producer = "running"
  /\ \/ producer' = "done" /\ Post(Done)
     \/ producer' = "error" /\ Post(Error)
  /\ UNCHANGED <<produced, queue, consumer, parts, frame, sent, cancel, cleaned,
                 client>>

OnDoneWaits ==   \* mutant: the cleanup waits for the consumer
  /\ producer \in {"done", "error"} /\ ~cleaned /\ consumer = "closed"
  /\ cleaned' = TRUE
  /\ UNCHANGED <<producer, produced, posted, queue, consumer, parts, frame, sent,
                 cancel, client>>

OnDone ==
  /\ producer \in {"done", "error"} /\ ~cleaned
  /\ cleaned' = TRUE
  /\ UNCHANGED <<producer, produced, posted, queue, consumer, parts, frame, sent,
                 cancel, client>>

------------------------------------------------------------------------------
(* The event loop. *)

\* put_nowait, in the order of the call_soon_threadsafe calls.
Put ==
  /\ posted # <<>>
  /\ queue' = Append(queue, Head(posted))
  /\ posted' = Tail(posted)
  /\ UNCHANGED <<producer, produced, consumer, parts, frame, sent, cancel,
                 cleaned, client>>

Yield(f) == consumer' = "sending" /\ frame' = f

FinallyCleans ==   \* mutant: on_done when the consumer has finished reading
  cancel' = TRUE /\ cleaned' = TRUE

\* `finally: cancel.set()` of stream_segments.
Finally == cancel' = TRUE /\ UNCHANGED cleaned

RenderIfSpoken(t) ==   \* mutant: no separator until some text was spoken
  /\ parts' = Append(parts, t)
  /\ Yield(Delta(IF Join(parts) = <<>> THEN t ELSE <<Space>> \o t))

Render(t) ==
  /\ parts' = Append(parts, t)
  /\ Yield(Delta(IF parts = <<>> THEN t ELSE <<Space>> \o t))

\* What stream_segments does with the next message, and the frame that
\* sse_transcription makes of it.
Take ==
  /\ consumer \in {"getting", "waiting"} /\ queue # <<>>
  /\ queue' = Tail(queue)
  /\ LET m == Head(queue) IN
       \/ m.kind = "segment" /\ Render(m.text) /\ UNCHANGED <<cancel, cleaned>>
       \/ m.kind = "done" /\ Yield(FullText(Join(parts))) /\ Finally
          /\ UNCHANGED parts
       \/ m.kind = "error" /\ Yield(ErrorEvent) /\ Finally /\ UNCHANGED parts
  /\ UNCHANGED <<producer, produced, posted, sent, client>>

Suspend ==
  /\ consumer = "getting" /\ queue = <<>>
  /\ consumer' = "waiting"
  /\ UNCHANGED <<producer, produced, posted, queue, parts, frame, sent, cancel,
                 cleaned, client>>

TimeoutTakes ==   \* mutant: the timeout swallows a message put meanwhile
  /\ consumer = "waiting"
  /\ Yield(Heartbeat)
  /\ queue' = IF queue = <<>> THEN queue ELSE Tail(queue)
  /\ UNCHANGED <<producer, produced, posted, parts, sent, cancel, cleaned, client>>

TimeoutGivesUp ==   \* mutant: a timeout asks the engine to stop
  /\ consumer = "waiting"
  /\ Yield(Heartbeat)
  /\ cancel' = TRUE
  /\ UNCHANGED <<producer, produced, posted, queue, parts, sent, cleaned, client>>

\* The timeout may fire although a message was put meanwhile: it stays queued.
Timeout ==
  /\ consumer = "waiting"
  /\ Yield(Heartbeat)
  /\ UNCHANGED <<producer, produced, posted, queue, parts, sent, cancel, cleaned,
                 client>>

AfterNoTerminator(f) ==   \* mutant: nothing follows the done event
  IF f.type \in {"done", "error", "[DONE]"}
  THEN consumer' = "closed" /\ UNCHANGED frame
  ELSE consumer' = "getting" /\ UNCHANGED frame

\* The generators resume after the yield of f.
After(f) ==
  \/ f.type \in {"heartbeat", "delta"} /\ consumer' = "getting" /\ UNCHANGED frame
  \/ f.type = "done" /\ Yield(Terminator)
  \/ f.type \in {"error", "[DONE]"} /\ consumer' = "closed" /\ UNCHANGED frame

Sent ==
  /\ consumer = "sending"
  /\ sent' = IF frame = Heartbeat THEN sent ELSE Append(sent, frame)
  /\ After(frame)
  /\ UNCHANGED <<producer, produced, posted, queue, parts, cancel, cleaned, client>>

------------------------------------------------------------------------------
(* The client, and the StreamingResponse that is cancelled when it leaves. *)

\* Whether the client is still there matters until its response is over.
Leave ==
  /\ consumer # "closed" /\ client = "here" /\ client' = "gone"
  /\ UNCHANGED <<producer, produced, posted, queue, consumer, parts, frame, sent,
                 cancel, cleaned>>

AbortNoFinally ==   \* mutant: cancel.set() after the loop, not in a finally
  /\ client = "gone"
  /\ \/ consumer = "waiting" /\ consumer' = "closed"
     \/ consumer = "sending" /\ consumer' = "dropped"
  /\ UNCHANGED <<producer, produced, posted, queue, parts, frame, sent, cancel,
                 cleaned, client>>

\* CancelledError at wait_for runs the finally clause; at a send it leaves
\* both generators suspended at their yield.
Abort ==
  /\ client = "gone"
  /\ \/ consumer = "waiting" /\ consumer' = "closed" /\ Finally
     \/ consumer = "sending" /\ consumer' = "dropped" /\ UNCHANGED <<cancel, cleaned>>
  /\ UNCHANGED <<producer, produced, posted, queue, parts, frame, sent, client>>

\* The collector closes the generators: GeneratorExit at the yield.
Collect ==
  /\ consumer = "dropped"
  /\ consumer' = "closed"
  /\ Finally
  /\ UNCHANGED <<producer, produced, posted, queue, parts, frame, sent, client>>

\* Runner.shutdown, once the response is over, cancels a producer that never
\* started; its callback runs on the spot.
ShutdownCancels ==
  /\ producer = "queued" /\ consumer \in {"dropped", "closed"}
  /\ producer' = "cancelled"
  /\ cleaned' = TRUE
  /\ UNCHANGED <<produced, posted, queue, consumer, parts, frame, sent, cancel,
                 client>>

------------------------------------------------------------------------------
Produce  == ProducerStart \/ (\E t \in Texts : Emit(t)) \/ Finish \/ OnDone
Consume  == Take \/ Suspend
Respond  == Timeout \/ Sent \/ Leave \/ Abort \/ ShutdownCancels

Next == Produce \/ Put \/ Consume \/ Respond \/ Collect

Spec == Init /\ [][Next]_vars

------------------------------------------------------------------------------
Frames == [type : {"delta", "done", "[DONE]", "error", "heartbeat"}, text : Seq(Tokens)]

TypeOK ==
  /\ producer \in {"queued", "running", "done", "error", "cancelled"}
  /\ produced \in Seq(Texts) /\ parts \in Seq(Texts)
  /\ posted \in Seq(Messages) /\ queue \in Seq(Messages)
  /\ consumer \in {"getting", "waiting", "sending", "dropped", "closed"}
  /\ frame \in Frames /\ sent \in Seq(Frames)
  /\ cancel \in BOOLEAN /\ cleaned \in BOOLEAN
  /\ client \in {"here", "gone"}

OfType(ty) == {i \in DOMAIN sent : sent[i].type = ty}

\* What a client makes of the deltas: "".join(deltas).
DeltaText ==
  Joined(<<>>, [i \in DOMAIN sent |-> IF sent[i].type = "delta" THEN sent[i].text ELSE <<>>])

\* "The concatenation of all deltas exactly equals done.text", and both are
\* the text a synchronous request gets: the join of all the engine yielded.
DeltasMakeTheText ==
  \A i \in OfType("done") : sent[i].text = DeltaText /\ DeltaText = Join(produced)

\* Deltas, then either the done event and [DONE] or one error event, and
\* nothing after that; a response that closed by itself got to one of them.
FrameOrder ==
  /\ \A i \in DOMAIN sent :
       /\ sent[i].type = "done" => i >= Len(sent) - 1
       /\ sent[i].type = "error" => i = Len(sent)
       /\ sent[i].type = "[DONE]" =>
            i = Len(sent) /\ i > 1 /\ sent[i - 1].type = "done"
  /\ consumer = "closed" /\ client = "here" =>
       OfType("error") \cup OfType("[DONE]") # {}

\* The slot and the temp file are given up only when the worker no longer
\* needs them, however early the consumer stops.
CleanupAfterProducer == cleaned => producer \notin {"queued", "running"}

\* A consumer that still waits for segments never asks the engine to stop.
CancelOnlyWhenOver ==
  cancel => \/ consumer \in {"closed", "dropped"}
            \/ consumer = "sending" /\ frame.type \in {"done", "[DONE]", "error"}

\* No lost wakeup: generators that wait for a message have a producer that will
\* post one, or one is on its way, whatever timeouts and shutdown do meanwhile.
NobodyWaitsInVain ==
  consumer \in {"getting", "waiting"} =>
    producer \in {"queued", "running"} \/ queue \o posted # <<>>

\* On every way out of a response, its last frame sent, cancelled in the wait or
\* collected after a cut at a send, the engine has been told to stop.
ClosedMeansTold == consumer = "closed" => cancel

\* Whatever the client does, even if it never reads another byte, the slot
\* and the temp file of a submitted stream are given up.
CleanupWhateverTheClient == <>cleaned

\* When the client has gone, the engine is told to stop.
GoneStopsTheEngine == client = "gone" ~> cancel

\* As long as every frame is eventually sent, the response ends, heartbeats
\* racing the last messages notwithstanding.
ResponseEnds ==
  []<>(consumer # "sending") => <>(consumer = "closed")

------------------------------------------------------------------------------
(* The frames implement the abstract delivery. *)

\* The texts the client was shown, without their separators; the deltas come
\* before every other frame (FrameOrder).
Shown == [i \in 1..Cardinality(OfType("delta")) |->
            IF i = 1 THEN sent[i].text ELSE Tail(sent[i].text)]

Verdict ==
  CASE OfType("done") # {} -> "done"
    [] OfType("error") # {} -> "error"
    [] OfType("done") \cup OfType("error") = {} /\ consumer \in {"closed", "dropped"} -> "cut"
    [] OTHER -> "open"

Promise == INSTANCE Delivery
             WITH made <- produced, shown <- Shown, verdict <- Verdict,
                  source <- IF producer \in {"done", "error"} THEN producer ELSE "open"
ImplementsDelivery == Promise!Spec

------------------------------------------------------------------------------
(* The inductive invariant (StreamBridgeProofs.tla): what is on its way from *)
(* the thread continues what was taken, and what was sent follows a script.  *)

\* The i-th message between the thread and the generators.
Coming       == Len(queue) + Len(posted)
Underway(i)  == IF i <= Len(queue) THEN queue[i] ELSE posted[i - Len(queue)]
Message(i)   == CASE i <= Len(produced) -> Segment(produced[i])
                  [] i > Len(produced) /\ producer = "done" -> Done
                  [] OTHER -> Error
ProducerEnded == producer \in {"done", "error"}
EndTaken      == ProducerEnded /\ Coming = 0

InTransit ==
  /\ Len(parts) <= Len(produced)
  /\ \A i \in 1..Len(parts) : parts[i] = produced[i]
  /\ \A i \in 1..Coming : Underway(i) = Message(Len(parts) + i)
  /\ Len(parts) + Coming = Len(produced) + (IF ProducerEnded /\ ~EndTaken THEN 1 ELSE 0)

Rendered(i) == IF i = 1 THEN parts[i] ELSE <<Space>> \o parts[i]
Script(i) ==
  CASE i <= Len(parts) -> Delta(Rendered(i))
    [] i > Len(parts) /\ producer = "error" -> ErrorEvent
    [] i = Len(parts) + 1 /\ producer # "error" -> FullText(Join(parts))
    [] OTHER -> Terminator
EndFrames == IF producer = "error" THEN 1 ELSE 2    \* frames after the deltas

OnScript ==
  /\ \A i \in 1..Len(sent) : sent[i] = Script(i)
  /\ Len(sent) <= Len(parts) + (IF EndTaken THEN EndFrames ELSE 0)
  /\ consumer \in {"getting", "waiting"} => Len(sent) = Len(parts) /\ ~EndTaken
  /\ consumer = "sending" =>
       \/ frame = Heartbeat /\ Len(sent) = Len(parts) /\ ~EndTaken
       \/ /\ frame = Script(Len(sent) + 1)
          /\ IF EndTaken THEN Len(sent) \in Len(parts)..(Len(parts) + EndFrames - 1)
                         ELSE Len(sent) = Len(parts) - 1
  /\ consumer \in {"dropped", "closed"} =>
       client = "gone" \/ (EndTaken /\ Len(sent) = Len(parts) + EndFrames)

IInv == TypeOK /\ InTransit /\ OnScript

\* The end of the response on one side, and that of the producer on the other.
Ending ==
  /\ ClosedMeansTold
  /\ consumer = "sending" /\ frame.type \in {"done", "[DONE]", "error"} => cancel
  /\ producer = "cancelled" => consumer \in {"dropped", "closed"}
===============================================================================
