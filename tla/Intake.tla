-------------------------------- MODULE Intake --------------------------------
(***************************************************************************)
(* One request through the endpoint and out again, in a process that       *)
(* starts, fails to start, stops and is killed (Lifespan): the key, the    *)
(* form, the upload in reads of _CHUNK, ffprobe, admission, the engine     *)
(* call, and the status that errors.py makes of whatever was raised.       *)
(* Other requests, and the runner, show as outcomes of its steps.  The     *)
(* framework has parsed the form, and spooled the file, before all this.   *)
(***************************************************************************)
EXTENDS Integers, FiniteSets

CONSTANTS Configurations, Cores,
          CHUNK,        \* _CHUNK; sizes are in any unit
          Sizes,        \* the sizes an upload may have
          Lengths,      \* the seconds an audio may last
          MaxLeft       \* bound: the kinds of file left behind

VARIABLES settings, phase, device, threads, found, saved, silero, app

L == INSTANCE Lifespan

VARIABLES at,        \* where the handler stands
          request,   \* what the client sent
          size,      \* the bytes read so far
          file,      \* the bytes in the temp file of this request, or NoFile
          left,      \* the temp files that nobody will delete
          trouble,   \* history: what went wrong on the server's side
          answer     \* the status sent

process == <<settings, phase, device, threads, found, saved, silero, app>>
handler == <<at, request, size, file, trouble, answer>>
vars    == <<process, handler, left>>

NoFile     == -1
Unreadable == -1  \* the seconds of what ffprobe cannot read

ASSUME IntakeAssumption ==
  /\ Configurations \subseteq L!Configuration
  /\ Cores \subseteq Nat \ {0}
  /\ CHUNK \in Nat \ {0} /\ Sizes \subseteq Nat /\ Lengths \subseteq Nat
  /\ MaxLeft \in Nat

(***************************************************************************)
(* wrong: what of the key, the form, the model and the format is not       *)
(* acceptable; sse: stream=true with json or text; an empty file is no     *)
(* audio.                                                                  *)
(***************************************************************************)
Checks   == {"key", "form", "model", "format"}
Requests ==
  {r \in [wrong : SUBSET Checks, sse : BOOLEAN, bytes : Sizes,
          seconds : Lengths \cup {Unreadable}] :
     r.bytes = 0 => r.seconds = Unreadable}

Places == {"idle", "authorizing", "validating", "opening", "reading", "probing",
           "admitting", "inferring", "streaming", "over"}
Statuses == {"200", "400", "401", "413", "499", "500", "503"}
Troubles == {"none", "disk", "no_tool", "full", "undecodable", "crashed", "cancelled"}

Nobody == [wrong |-> {}, sse |-> FALSE, bytes |-> 0, seconds |-> Unreadable]

Init ==
  /\ L!Init
  /\ at = "idle" /\ request = Nobody /\ size = 0 /\ file = NoFile
  /\ trouble = "none" /\ answer = "none" /\ left = {}

Forget ==
  /\ at' = "idle" /\ request' = Nobody /\ size' = 0 /\ file' = NoFile
  /\ trouble' = "none" /\ answer' = "none"

------------------------------------------------------------------------------
(* errors.py, and the error_response calls of the handler. *)

StatusOf(exc) ==
  CASE exc \in {"AudioDecodeError", "AudioTooLongError", "RequestValidationError",
                "error_response"} -> "400"
    [] exc = "AuthError" -> "401"
    [] exc = "PayloadTooLargeError" -> "413"
    [] exc = "QueueFullError" -> "503"
    [] exc \in {"AudioToolNotFoundError", "Exception"} -> "500"

\* The handler ends: `finally` deletes the file, if there is one.
Raise(exc, t) ==
  /\ at' = "over" /\ answer' = StatusOf(exc) /\ trouble' = t
  /\ file' = NoFile
  /\ UNCHANGED <<process, request, size>>

\* The temp file is on the disk for good, with what it has been given so far
\* under the limit of the process that wrote it.
Abandon ==
  /\ left' = left \cup IF file = NoFile THEN {}
                     ELSE {[bytes |-> file, limit |-> settings.MAX_UPLOAD]}
  /\ Cardinality(left') <= MaxLeft

Go(place) ==
  /\ at' = place
  /\ UNCHANGED <<process, request, trouble, answer>>

------------------------------------------------------------------------------
(* Before the handler. *)

Arrive(r) ==
  /\ at = "idle" /\ phase = "serving"
  /\ at' = "authorizing" /\ request' = r
  /\ UNCHANGED <<process, size, file, trouble, answer>>

RequireAuthSync ==   \* mutant: streams come in unchecked
  /\ at = "authorizing"
  /\ IF settings.API_KEY /\ "key" \in request.wrong /\ ~request.sse
     THEN Raise("AuthError", "none")
     ELSE Go("validating") /\ UNCHANGED <<size, file>>

\* require_auth: without a key in the settings everybody may come in.
RequireAuth ==
  /\ at = "authorizing"
  /\ IF settings.API_KEY /\ "key" \in request.wrong
     THEN Raise("AuthError", "none")
     ELSE Go("validating") /\ UNCHANGED <<size, file>>

\* FastAPI looks at the form after the dependencies.
Validate ==
  /\ at = "validating"
  /\ IF "form" \in request.wrong
     THEN Raise("RequestValidationError", "none")
     ELSE Go("opening") /\ UNCHANGED <<size, file>>

------------------------------------------------------------------------------
(* The handler: the upload. *)

\* The model and the format, and the temp file, which may fail.
Open ==
  /\ at = "opening"
  /\ \/ request.wrong \cap {"model", "format"} # {} /\ Raise("error_response", "none")
     \/ /\ request.wrong \cap {"model", "format"} = {}
        /\ \/ Raise("Exception", "disk")
           \/ Go("reading") /\ file' = 0 /\ UNCHANGED size

Chunk == IF request.bytes - size < CHUNK THEN request.bytes - size ELSE CHUNK

OverLimitAtLimit(n) ==   \* mutant: the limit itself is too much
  settings.MAX_UPLOAD > 0 /\ n >= settings.MAX_UPLOAD

OverLimitBefore(n) ==    \* mutant: the chunk at hand is not counted
  settings.MAX_UPLOAD > 0 /\ size > settings.MAX_UPLOAD

OverLimit(n) == settings.MAX_UPLOAD > 0 /\ n > settings.MAX_UPLOAD

Append(n) ==
  \/ Raise("Exception", "disk")
  \/ Go("reading") /\ size' = size + n /\ file' = file + n

ReadStopsShort ==   \* mutant: a chunk that is not full ends the upload unwritten
  /\ at = "reading"
  /\ \/ Chunk < CHUNK /\ Go("probing") /\ UNCHANGED <<size, file>>
     \/ Chunk = CHUNK /\ IF OverLimit(size + Chunk)
                         THEN Raise("PayloadTooLargeError", "none")
                         ELSE Append(Chunk)

\* file.read, the limit, tmp.write.
Read ==
  /\ at = "reading"
  /\ \/ Chunk = 0 /\ Go("probing") /\ UNCHANGED <<size, file>>
     \/ Chunk > 0 /\ IF OverLimit(size + Chunk)
                     THEN Raise("PayloadTooLargeError", "none")
                     ELSE Append(Chunk)

TooLong == settings.MAX_AUDIO_SECONDS > 0 /\ request.seconds > settings.MAX_AUDIO_SECONDS

\* probe_duration: no ffprobe, a file it cannot read, or no duration in it.
ProbeFails ==
  \/ Raise("AudioToolNotFoundError", "no_tool")
  \/ request.seconds = Unreadable /\ Raise("AudioDecodeError", "none")

\* probe_duration in a thread of its own, and the duration limit.
Probe ==
  /\ at = "probing"
  /\ \/ ProbeFails
     \/ /\ request.seconds # Unreadable
        /\ IF TooLong THEN Raise("AudioTooLongError", "none")
                      ELSE Go("admitting") /\ UNCHANGED <<size, file>>

------------------------------------------------------------------------------
(* The handler: the runner and the engine (Runner, Engine, Transcriptions). *)

\* A stream is answered 200 before its engine call begins.
Admit ==
  /\ at = "admitting"
  /\ \/ Raise("QueueFullError", "full")
     \/ ~request.sse /\ Go("inferring") /\ UNCHANGED <<size, file>>
     \/ /\ request.sse
        /\ at' = "streaming" /\ answer' = "200"
        /\ UNCHANGED <<process, request, size, file, trouble>>

\* runner.run(engine.transcribe, ...).
Infer ==
  /\ at = "inferring"
  /\ \/ Raise("AudioDecodeError", "undecodable")
     \/ Raise("AudioToolNotFoundError", "no_tool")
     \/ Raise("Exception", "crashed")
     \/ /\ at' = "over" /\ file' = NoFile
        /\ \/ answer' = "200" /\ UNCHANGED trouble
           \/ answer' = "499" /\ trouble' = "cancelled"
        /\ UNCHANGED <<process, request, size>>

\* _cleanup, whatever the engine call ended with.
StreamOver ==
  /\ at = "streaming"
  /\ at' = "over" /\ file' = NoFile
  /\ UNCHANGED <<process, request, size, trouble, answer>>

\* The response is cancelled before its body is iterated: no _cleanup.
LoseStream ==
  /\ at = "streaming"
  /\ at' = "over" /\ file' = NoFile /\ Abandon
  /\ UNCHANGED <<process, request, size, trouble, answer>>

NextRequest ==
  /\ at = "over"
  /\ Forget
  /\ UNCHANGED process

------------------------------------------------------------------------------
(* The process around the handler. *)

Load == L!Load /\ UNCHANGED handler

\* Uvicorn waits for the responses before it ends the lifespan; the job of a
\* stream may outlive it.
Stop == at \in {"idle", "streaming", "over"} /\ L!Stop /\ UNCHANGED handler

\* Killed or restarted: what the handler was doing is gone, but not the temp
\* file it had (delete=False), and no later process looks for it.
Boot == L!Boot /\ Forget /\ Abandon

Handle == RequireAuth \/ Validate \/ Open \/ Read \/ Probe \/ Admit \/ Infer
            \/ StreamOver \/ NextRequest

Next ==
  \/ ((\E r \in Requests : Arrive(r)) \/ Handle \/ Load \/ Stop) /\ UNCHANGED left
  \/ LoseStream \/ Boot

Spec == Init /\ [][Next]_vars

------------------------------------------------------------------------------
HandlerTypes ==
  /\ L!TypeOK
  /\ at \in Places /\ request \in Requests \cup {Nobody}
  /\ size \in Nat /\ file \in Nat \cup {NoFile}
  /\ trouble \in Troubles /\ answer \in Statuses \cup {"none"}

TypeOK == HandlerTypes /\ left \subseteq [bytes : Nat, limit : Nat]

(***************************************************************************)
(* What of a request would be refused, as the README's table of error      *)
(* codes has it: a limit of 0 is no limit.                                 *)
(***************************************************************************)
Limited(n)   == settings.MAX_UPLOAD = 0 \/ n <= settings.MAX_UPLOAD
Unauthorized == settings.API_KEY /\ "key" \in request.wrong
BadRequest   == request.wrong \ {"key"} # {}
BadAudio     == \/ request.seconds = Unreadable
                \/ /\ settings.MAX_AUDIO_SECONDS # 0
                   /\ request.seconds > settings.MAX_AUDIO_SECONDS
Acceptable   == ~Unauthorized /\ ~BadRequest /\ Limited(request.bytes) /\ ~BadAudio

\* However the reads fall, and wherever the handler is stopped, no temp file it
\* writes outgrows the MAX_UPLOAD_MB of its process: not the one at hand, which
\* is there only while the handler or the stream is at work, and none of those
\* that a killed process or a lost stream leaves on the disk for good.
UploadWithinLimit ==
  /\ file # NoFile =>
       Limited(file) /\ at \in {"reading", "probing", "admitting", "inferring", "streaming"}
  /\ \A f \in left : f.limit = 0 \/ f.bytes <= f.limit

\* ffprobe, and then the engine, get every byte of the upload.
WholeUpload ==
  at \in {"probing", "admitting", "inferring", "streaming"} => file = request.bytes

\* No slot is taken and nothing is inferred for a request that any check
\* would refuse, and what is answered as if it had been, was acceptable.
OnlyAcceptableInferred ==
  at \in {"admitting", "inferring", "streaming"} \/ answer \in {"200", "499", "503"}
    => Acceptable

\* Each status says which check refused the request, the first that counts
\* when several would, or, for a request that got that far, how it failed.
Refusal ==
  IF Unauthorized THEN "401"
  ELSE IF BadRequest THEN "400"
  ELSE IF ~Limited(request.bytes) THEN "413"
  ELSE IF BadAudio THEN "400" ELSE "200"
Failure == [disk |-> "500", no_tool |-> "500", crashed |-> "500", full |-> "503",
            undecodable |-> "400", cancelled |-> "499"]
StatusTellsWhy ==
  answer # "none" =>
    \/ trouble = "none" /\ answer = Refusal
    \/ /\ trouble # "none" /\ answer = Failure[trouble]
       /\ ~Unauthorized /\ ~BadRequest

\* Through startups that fail at any point, lifespans ended and begun anew in
\* one process, and new processes, torch has the threads it should have.
InferenceThreads == L!InferenceThreads

------------------------------------------------------------------------------
(* The inductive invariant (IntakeProofs.tla): what has been checked when. *)
WithFile == {"reading", "probing", "admitting", "inferring", "streaming"}
Admitted == {"admitting", "inferring", "streaming"}

Sound ==
  /\ at \notin {"idle", "authorizing", "over"} => ~Unauthorized
  /\ at = "opening" => "form" \notin request.wrong
  /\ at \in WithFile => ~BadRequest
  /\ at \in Admitted => Acceptable
Stored ==
  /\ at \in WithFile => Limited(file) /\ file = size /\ size <= request.bytes
  /\ at \in WithFile \ {"reading"} => file = request.bytes
  /\ at \notin WithFile => file = NoFile
  /\ at \in {"idle", "authorizing", "validating", "opening"} => size = 0
Answered ==
  /\ at \notin {"over", "streaming"} => answer = "none" /\ trouble = "none"
  /\ at = "streaming" => answer = "200" /\ trouble = "none"
  /\ at # "idle" => request \in Requests

LeftBehind ==
  /\ left \subseteq [bytes : Nat, limit : Nat]
  /\ \A f \in left : f.limit = 0 \/ f.bytes <= f.limit

IInv ==
  /\ L!IInv /\ HandlerTypes /\ Sound /\ Stored /\ Answered
  /\ OnlyAcceptableInferred /\ StatusTellsWhy /\ LeftBehind
===============================================================================
