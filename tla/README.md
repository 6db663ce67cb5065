# Formal model of gigaam-openai-api-server

The server answers OpenAI-style transcription requests with one speech model on one worker
thread. Its code is small; what is hard in it is who owns what and when: a slot of the
inference queue, a temporary file and a cancel event pass between an HTTP handler, an event
loop, a worker thread and a client that may leave or stall at any moment. This directory holds
TLA+ modules of that core and of its two pure algorithms that are easy to get wrong (chunking
and subtitle times), TLC configurations that check them on small instances, and TLAPS proofs
for all instances.

## 1. The system

### Components

| Component | Code (`src/gigaam_api/`) | State it keeps | Operations | What makes it correct |
|---|---|---|---|---|
| Runner | `runner.py` | admitted counter, lock, executor with one thread and its queue | `try_acquire`, `release`, `submit`, `run`, `shutdown` | the counter is the number of slots given out; at most `MAX_QUEUE`; one inference at a time; refusal only when full; FIFO service |
| SSE stream | `streaming.py` | one `asyncio.Queue`, the two async generators, a cancel event | `stream_segments`, its `produce`, `sse_transcription` | the frames tell exactly what the engine made, in order; one end; cleanup only after the worker, and whatever the client does |
| Transcriptions handler | `api/transcriptions.py` | per request: temp file, slot, cancel event | upload, probe, stream branch, synchronous branch, disconnect watcher | nobody deletes a file the worker still needs; nothing is left behind; only requests of departed clients are cancelled |
| Engine | `asr/gigaam_engine.py`, contract in `asr/engine.py` | none between calls; within one the batch loop | `transcribe`, `iter_segments` | all segments once and in order, or a failure; prompt cancellation |
| VAD chunking | `asr/vad.py` | none | `merge_intervals_to_chunks`, `speech_intervals`, `load_vad` | chunks fit the model, keep all speech, do not overlap, are cut in pauses |
| Formats | `asr/formats.py`, `schemas.py` | none | json, text, verbose_json, srt, vtt | times are kept, cues stay in order |
| Audio | `audio.py` | none | ffprobe, ffmpeg | failures become typed exceptions |
| Errors | `errors.py` | none | exception to status | the status names the first check that failed |
| Authentication | `auth.py` | none | `require_auth` | the handler reads, writes and infers nothing for a refused request |
| Lifespan | `main.py`, the engine's constructor, `load_vad` | `app.state.engine`, `app.state.runner`, torch's thread count | start, fail to start, stop | fail fast; the thread count survives loading; the runner is shut down after the responses |
| Configuration | `config.py` | settings, read once per process | `get_settings` | |
| Health, models, logging, weights download, Docker | the rest | none | | stateless |

### How they interact

FastAPI has the framework parse the form, spooling the file, and then runs `require_auth` and the
form validation. Then a request is one coroutine on
the event loop. It writes the upload to a temp file, probes it
in the default executor, then either

- *synchronous*: `runner.run(engine.transcribe, ...)` inside an anyio task group together with
  `_watch_disconnect`, which sets the cancel event when the client is gone; when the call is over
  the group's scope is cancelled and the handler waits for the watcher to end; `finally` deletes
  the file; or
- *stream*: `runner.try_acquire()` in the handler (so that a 503 goes out before the headers),
  a `StreamingResponse` over two async generators, and `runner.submit(produce)` on the first
  iteration. From then on slot and file belong to the done-callback of the future.

`produce` runs in the worker thread and posts each segment to the event loop with
`call_soon_threadsafe`. The engine polls the cancel event once per batch.

### What is hard

- the counter is changed in two threads;
- a stream's slot and file outlive the handler, and the consumer may end before, during or
  after the producer;
- the callback may be registered after the future is resolved, or never;
- a heartbeat timeout races the message it waits for;
- a generator cut at a `yield` runs its `finally` only when it is collected;
- cancellation is cooperative and read once per batch;
- a handler must not go on before its watcher has ended, which is itself inside cancel scopes;
- shutdown empties the queue while the worker takes from it, and the callbacks of what it drops
  and of what still runs come in two threads;
- a killed process leaves the files it was writing;
- six places check a request, each answering in its own way, while a file is being written;
- importing Silero changes torch's thread count for the whole process, and loading may fail
  before, during or after that import.

`PROJECT.json` lists these hazards one by one, each at its line with the properties that
would catch it, and the ones no property covers with the reason.

## 2. Modules

| Module | Models | Uses |
|---|---|---|
| `Admission` | abstract: slots, one inference at a time | |
| `Runner` | `runner.py`: both ways in, executor, futures, late callbacks, cancellation of an awaiting task, shutdown | refines `Admission` |
| `SlotCounter` | `try_acquire` and `release` statement by statement, under the lock | refines `Admission` |
| `Delivery` | abstract: what an SSE response tells its client | |
| `StreamBridge` | `streaming.py`, one response | refines `Delivery` |
| `ServedStream` | one response with the engine behind it: its end, and the event it looks at | composes `StreamBridge` and `EngineContract` |
| `HandledStream` | one response with its engine in a server that may stop | extends `ServedStream`, refines the stream places of `Transcriptions` |
| `Transcriptions` | `api/transcriptions.py`, many requests | composes `Runner` (INSTANCE) |
| `EngineContract` | abstract: the `ASREngine` protocol | |
| `Engine` | `transcribe` and `iter_segments`, one call | refines `EngineContract` |
| `Lifespan` | `main.py`, `get_settings`, `GigaAMEngine.__init__`, `load_vad`: one process after another | |
| `Intake` | one request after another: `auth.py`, the upload, ffprobe, `errors.py` | composes `Lifespan` (INSTANCE) |
| `Chunking` | `merge_intervals_to_chunks`, one loop iteration a step | |
| `Subtitles` | `_format_ts`, `to_srt`, `to_vtt`, one cue a step | |
| `MC*` | instances for TLC: model values, symmetry | |
| `*Proofs` | TLAPS proofs | |

Operators whose comment says *mutant* are not part of a model: each is a plausible bug in the
definition that follows it, and `PROJECT.json` names the property that finds it.

### Runner

A job's `stage` says where it is in `run`, or in `try_acquire` ... `release` for a stream;
`queue` is the executor's work queue, `inflight` the counter, `unhooked` the streams that
have called `submit` and not yet `add_done_callback`, `pool` the executor's own state. `run`
and `try_acquire` execute without an `await`, so each is one step of the event loop; that the
counter may be taken as changed in one step although two threads change it is what
`SlotCounter` shows. Between `submit` and `add_done_callback` only the worker can move
(`LoopFree`), which is the race behind `HookCallback`. `Cancellable` is the set of synchronous
calls whose awaiting task may be cancelled: the server's own code never does that, a forced
stop of the server would. Service in turn has a safety half, which is proved: no call overtakes
another (`NoOvertaking`), and whoever waits is in the queue of an executor that is not closed
(`NobodyStranded`).

### StreamBridge

`posted` holds the `call_soon_threadsafe` callbacks that the loop has not run, `queue` the
`asyncio.Queue`; `consumer` is where the two generators stand together (`sse_transcription`
has no suspension point of its own but its yields). `Timeout` is enabled even when a message
was queued meanwhile. `Abort` is the cancellation of the response task: in `queue.get()` it
runs `finally`; at a send both generators are left suspended until `Collect`. The network may
hold a frame for ever. A text is a sequence of tokens, since the concatenation of deltas is
what the README of the server promises; an empty one is a silent chunk.

### ServedStream

`StreamBridge` lets its producer end whenever it likes. Here `make_iter()` keeps the engine
contract: it is exhausted only when it has given every segment of the audio, it is cancelled
only after the generators have set the event, and it may fail at any time. That `Engine`
implements this contract is shown by the run `engine` and by `EngineProofs`, for any moment at
which the event is set, so that what holds here holds of the two programs together. The three
ways of the engine to end are joined with the two of `produce()`; every other step is one of
`StreamBridge`.

### HandledStream

`Transcriptions` knows of a stream only that it streams, has been told the end, is over or was
dropped, and that its callback comes once. `HandledStream` adds the state of the executor to
`ServedStream` and maps the result to `Transcriptions` with one stream on one slot: the
producer's state is the runner's stage, `cleaned` gives the slot and the file back, the
consumer's state is the place. `ImplementsHandler` says that each step of the generators, the
queue and the thread is then a step of `Transcriptions` or none. The mapping starts where the
callback is registered; what comes before, where a stream may be lost, is in `Transcriptions`
alone.

### Lifespan and Intake

`Lifespan` follows `load_vad` statement by statement, since its order is what matters:
`threads` is torch's count, `saved` the local of `load_vad`, `silero` whether the module was
imported by this process, `found` what the startup began with. A startup may fail at every
step, and the process may try again (`app` is rebuilt, the thread count and the import are
not); `Boot` is a new process. In `Intake` a request is what is wrong with it (key, form, model,
format), how many bytes it has and how long the audio is; `size` and `file` are the handler's
count and what the temp file holds. Every exception goes through `Raise`, which answers with
`StatusOf` and deletes the file. `left` is what of the disk nobody will delete: `Boot`, a killed
process, and `LoseStream`, a response cancelled before its body is iterated, add the file at hand
to it, with the limit of the process that wrote it (`Abandon`). The runner and the engine are outcomes here: `Transcriptions`
and `Engine` detail them. In turn `Transcriptions` keeps of a status only whether it is 200, 499,
503 or another error.

### Transcriptions

`at[r]` is where the handler or the response of request `r` stands, next to the runner's
`stage[r]` for its job. `tmp`, `client`, `cancel`, `result` and `status` are the file, the
client, the event, the outcome of the engine call and the answer. `watching` says whether the
task `_watch_disconnect` is alive. A synchronous call ends in three steps: `Inferred` (`run`
returns and gives the slot back, the scope is cancelled), the end of the watcher (`StopWatcher`,
or a last `Watch` that still finds the client gone), for which the task group waits, and
`Conclude` (the answer and the `unlink` in `finally`). An anyio scope cancels at every await, so
`StopWatcher` asks nothing of the client; the mutant `StopWatcherRaw` is what the docstring of
`_watch_disconnect` warns of, a raw cancellation that `is_disconnected` swallows, which hangs as
long as the client stays. Every action that calls the
runner is the conjunction of the runner's action and the handler's part. Finished requests
may be followed by new ones under the same name, so that runs are unbounded in length.
The stream's middle is abstracted to its beginning, the moment it is told the end and its
ends, which `HandledStream` shows to be those of the detailed module.

### Engine

`idx`, `taken` and `batch` are the loop variable, the position of `chunks_iter` and the
segments of the decoded batch that are not yet yielded. A segment is the number of its chunk.
The two generators that end in a list (`transcribe`, and the way over the short path when
gigaam finds the audio too long) hand over at the end, the others as they go. Any call to
ffprobe, ffmpeg, the VAD or the model may fail. `Ask` is another thread setting the event.
`late` is a history variable. `StepsLeft` counts what a call has still to do; no step but `Ask`
leaves as much as there was before (`EveryStepCounts`), so that no call goes on for ever.

### Chunking

Times are integers. The code divides a long block into equal parts by repeated addition of
floats; the model keeps a part as a fraction of its block, so that the properties are about
the algorithm and not about rounding. Intervals are chosen one by one, sorted and disjoint,
as Silero returns them. `NoNeedlessCuts` says what `VAD_MIN_DURATION` does give, since it is not
a minimum: a shorter block is made only of the last speech of the audio, or where the next
interval would carry it over `VAD_MAX_DURATION`.

### Subtitles

Times are tenths of a millisecond, enough to tell the halves that Python's `round` takes to
the even neighbour.

## 3. Runs

| Run | Shows | Bounds, and why they are enough |
|---|---|---|
| `runner_safety` | slots are counted, capped, refused only when all taken; the runner implements `Admission` | 2 synchronous calls, 3 streams, 2 slots: both ways in compete at the limit with one caller to spare on each side |
| `runner_cancel` | the same counting with a cancelled `run()`, no overtaking, service in turn and recovery from being full | 2 calls (one cancellable), 2 streams, 2 slots |
| `runner_overload` | *violated*: with a cancelled `run()` more work than `MAX_QUEUE` is in the executor | as above with one stream |
| `slot_counter` | no lost update that admits too many or refuses too early | 4 actors, 2 slots: two may hold while two race |
| `stream` | frames tell the transcript, the whole of it or a failure; slot, file and event are treated as `Transcriptions` says, whatever the client does; the response ends | 3 segments, each silent or a word: first, middle and last silent or not; the audio has 0 to 3; the server stops at any moment after the response |
| `requests` | files and cancellation, all requests interleaved; accepted requests are answered, through the teardown of their watcher; slots and files come back, from stalled and departed clients and after a shutdown | 1 synchronous request, 2 streams, 2 slots: one runs, one waits, one is refused |
| `requests_lost` | *violated*: a stream cancelled before its first iteration keeps slot and file | 1 synchronous request and 1 stream on 1 slot |
| `engine` | implements the contract, at most one late batch, each step leaves less to do | batches of 2, 0 to 5 chunks: no batch, full and partial last batches |
| `chunking` | hard maximum, order, coverage, cuts in pauses and not before they are needed | audio of 14 ticks, 3 intervals, thresholds 3/4/6/1 in the order and roughly the proportions of 15/22/30/0.2 s; blocks of one, two and three parts occur |
| `chunking_min` | *violated*: `VAD_MIN_DURATION` is not a minimum | the same |
| `subtitles` | carries, halves, order | 11 times around the carries, 3 segments |
| `intake` | what is checked before what, the upload limit also for files left behind, the status of every failure, torch's threads | uploads of 0, 1 and 3 to 6 bytes in reads of 2 around a limit of 4, audios at and over a limit of 2 s, one kind of file left behind at a time (`MaxLeft`; the property speaks of one file), every combination of faults; one configuration with every limit and one with none, with and without a fixed device |

Deadlock is checked where the system runs for ever, and in `engine`, whose calls may stop only
at their end (`Terminated`); `CHECK_DEADLOCK FALSE` stands in the runs
of one response, one audio or one server life, which end.

### Disagreements found

1. **Load cap under cancellation** (`runner_overload`). `run` releases its slot in `finally`
   when the awaiting task is cancelled, while its work goes on; the docstring of `Runner`
   says the counter covers what is in progress.
2. **Streams lost before they begin** (`requests_lost`). The handler gives slot and file to a
   callback that only the first iteration of the body registers. If the response is cancelled
   before that (its client already gone), an async generator that never began runs no
   `finally`, and both leak. The comments say the file belongs to `_cleanup` from then on.
3. **Minimum segment length** (`chunking_min`). Below `VAD_MIN_DURATION` a chunk is still
   closed when the next interval would carry it over `VAD_MAX_DURATION`; the README of the
   server calls the setting the minimum segment length.

### Fairness

Safety runs without a liveness property use none. The others assume only what the code's
scheduling gives:

- *the worker thread* is scheduled and each job in it ends (weak fairness of the worker's
  actions). For the engine's own loops this is shown (`EveryStepCounts`, and no deadlock in
  `engine`); that ffprobe, ffmpeg and the model return is an assumption, they have no timeout;
- *the event loop* runs its ready callbacks in FIFO order (weak fairness of puts, of taking a
  message and of callbacks; strong fairness of what is ready again and again while others run
  in between, in `Transcriptions` one condition for each request, `Loop(r)`: `LoopFree` disables
  it for moments);
- *a shutdown* that has begun gets through its queue;
- *generators left behind* are collected (CPython's reference counts, and asyncio's hook for
  async generators);
- *a departed client* is noticed (`_watch_disconnect` polls every second, uvicorn cancels the
  streaming task: weak fairness of `Abort`);
- nothing is assumed of clients and of the network. `ResponseEnds` and `SlotsComeBack` name
  what they need of them in their own premise.

## 4. Proofs

| Module | Theorems | Argument |
|---|---|---|
| `RunnerProofs` | `TypeOK`, `SlotAccounting`, `SingleInference`, `LoadBounded`, `RefusedOnlyWhenFull`, `ImplementsAdmission`, `NobodyStranded`, `NoOvertaking` | `IInv`: besides type and counting, the queue holds each waiting job once and nothing else, the worker has one job, and work without a slot exists only if callers can be cancelled. Lemmas on a set that gains or loses one element carry the counting, lemmas on a queue that gains a last or loses its first element the order |
| `SlotCounterProofs` | `TypeOK`, `Counted`, `RefusedWhenFull`, `ImplementsSlots` | `IInv`: whoever is inside the `with` block owns the lock, alone, and what it read is still the counter |
| `TranscriptionsProofs` | `UsesTheRunner`, `TypeOK`, `FileUntilTheWorkerIsDone`, `NothingLeftBehind`, `OnlyTheGoneAreCancelled`, `ServerAdmits`, and that requests are decoded in the order of submission | every step is a step of the runner or leaves it alone, so the runner's invariant, its refinement of `Admission` and its order are inherited; `Owned(r)` says for each pair of places of response and job who owns the file, `Told(r)` what a cancellation implies. They speak of one request: a lemma reduces each step to the request that takes it |
| `StreamBridgeProofs` | `TypeOK`, `CleanupAfterProducer`, `CancelOnlyWhenOver`, `FrameOrder`, `DeltasMakeTheText`, `ImplementsDelivery`, `NobodyWaitsInVain`, `ClosedMeansTold`; for `ServedStream` `DoneTellsAll`, `ErrorsAreFailures`; for `HandledStream` `ImplementsHandler` | `IInv`: what is queued and posted continues what was taken (`InTransit`), and what was sent is the beginning of a script that the segments and the end of the producer determine (`OnScript`). The joined texts are a recursive function; what is needed of it is proved by taking the least index at which it would fail. `ServedStream` inherits all of it, since each of its steps is one of `StreamBridge`; `EndsAgree` adds that a call is cancelled only when its consumer is already gone. `HandledStream` in turn takes only steps of `ServedStream`; with `Stopping` (a shutdown comes after the response) each group of its steps is mapped to an action of `Transcriptions` by a lemma of its own |
| `IntakeProofs` | `TypeOK`, `UploadWithinLimit`, `WholeUpload`, `OnlyAcceptableInferred`, `StatusTellsWhy`, `InferenceThreads` | `IInv`: what has been checked at each place (`Sound`), what the file holds there (`Stored`), that nothing is answered yet (`Answered`), and that what is left behind came within its limit (`LeftBehind`). One lemma covers every exception and one every step to the next place; the process steps keep the handler's part, the handler's steps the process's |
| `EngineProofs` | `TypeOK`, `AtMostOneLateBatch`, `ImplementsContract`, `EveryStepCounts` | `IInv`: at the start of batch `idx`, `idx * BatchSize` chunks or all are taken; what is made and what is decoded continue each other; nothing decoded late before the first batch after the request. The rounding-up of `n_batches` is a lemma of its own. `StepsLeft` is shown to be a natural number that each action lowers |
| `ChunkingProofs` | `TypeOK`, `FitsTheModel`, `InOrder`, `SpeechKept`, `CutsInPauses`, `NoNeedlessCuts`, and that no blip is decoded | `IInv`: the current block starts with some interval m, all intervals before m are covered, and the last chunk ends before it. What is non-linear (parts of a block against the limits) is in the lemmas at the beginning |
| `SubtitlesProofs` | `TypeOK`, `TimesKept`, `CuesInOrder` | rounding is exact to half a millisecond and monotone; the divmods lose nothing |

They hold for every value of the constants under the named assumptions: finite sets of
requests, `MaxQueue >= 1` (as `config.py` demands), `BatchSize >= 1` and `StrictLimit > 0`
(which `config.py` does not check), thresholds that are not negative. `LoadBounded` and
`ImplementsAdmission` need `Cancellable = {}`, which is what `runner_overload` refutes
otherwise.

`IntakeProofs` assumes natural sizes and limits, and at least one thread.

Only model-checked: liveness, that is `CleanupWhateverTheClient`, `GoneStopsTheEngine`,
`ResponseEnds`, `ServedInTurn`, `SlotsComeBack`, `SyncAnswered`, `StalledClientFreesWorker`,
`GoneFreesEverything` and `ShutdownFreesEverything`. Fairness and ENABLED are out of the prover's
reach. What safety has to contribute to them is proved: a consumer that waits has something coming
(`NobodyWaitsInVain`), one that is over has told the engine to stop (`ClosedMeansTold`), queued
calls keep their order and are not stranded (`NoOvertaking`, `NobodyStranded`), and an engine
call only ever has less to do (`EveryStepCounts`).

Only proved: the type invariants, `SingleInference`, `Counted`, `NobodyStranded`,
`NobodyWaitsInVain`, `CleanupAfterProducer`, `CancelOnlyWhenOver`, `ClosedMeansTold` and
`ServerAdmits`. They are steps towards what the runs check, or follow from it.

## 5. Not modelled

- Tensors and decoding: no state that calls depend on.
- JSON and wording of frames, errors and logs; verbose_json, which copies fields; the
  compression ratio, which is zlib's.
- The command lines of ffprobe and ffmpeg, and what they print: a call is a duration, a success
  or one of its failures. A call that never ends is excluded by the fairness of the runs.
- Values that `config.py` does not check and that no deployment uses: a `BATCH_SIZE` below 1,
  no threads at all, negative limits (which the code takes as no limit, like 0).
- Forced stop of the server (cancelled handlers during shutdown) beyond the `Cancellable`
  calls of `Runner`.
- What the framework does before the handler: it parses the form and spools the file to a temp
  file of its own, before the key is checked and whatever `MAX_UPLOAD_MB` says, and answers a body
  that is not a form with 400 without asking for the key. `UploadWithinLimit`,
  `OnlyAcceptableInferred` and `StatusTellsWhy` are about the handler, its dependency and a form
  that could be parsed.
- Recovery from a crash: there is none in the code. `Intake` keeps what a killed process leaves on
  the disk (`left`); that it stays there is how the code is.
- Health and the models list, which read the settings and `app.state`; logging; the download
  command, which constructs the engine once; the container files.

## 6. State of the plan

Done: Runner, StreamBridge with its refinement proved, Transcriptions, Engine, Chunking,
SlotCounter, Subtitles, Lifespan, Intake, the composition of the stream with the engine, and the
proof that this composition does what `Transcriptions` says of a stream.

What could follow, in order of use:

1. The same for the steps of `Intake` and the places of `Transcriptions` before admission.
2. Forced shutdown: handlers cancelled while the runner drains its queue.
