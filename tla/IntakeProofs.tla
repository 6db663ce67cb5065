----------------------------- MODULE IntakeProofs -----------------------------
(***************************************************************************)
(* Proofs about the process and the request in it: for any configurations, *)
(* any machine, any sizes of uploads and of reads.                         *)
(***************************************************************************)
EXTENDS Intake, TLAPS

(* The process. *)

LEMMA ProcessStarts == L!Init => L!IInv
BY IntakeAssumption
   DEF L!Configuration, L!Init, L!IInv, L!TypeOK, L!InferenceThreads, L!Wanted, L!InsideLoadVad, L!Phases

\* One step of the startup, of the shutdown, or a new process.
LEMMA ProcessStep == L!IInv /\ L!Next => L!IInv'
<1> SUFFICES ASSUME L!IInv, L!Next PROVE L!IInv'
  OBVIOUS
<1> USE IntakeAssumption DEF L!Configuration, L!IInv, L!TypeOK, L!InferenceThreads, L!Wanted,
        L!InsideLoadVad, L!Phases, L!Devices
<1>1. CASE L!Startup
  <2>1. device' \in {"cpu", "mps", "cuda"}
    BY <1>1 DEF L!Startup, L!Resolved
  <2> QED
    BY <1>1, <2>1 DEF L!Startup
<1>2. CASE L!LoadModel
  BY <1>2 DEF L!LoadModel
<1>3. CASE L!CaptureThreads
  BY <1>3 DEF L!CaptureThreads
<1>4. CASE L!ImportSilero
  <2>1. UNCHANGED <<settings, device, found, saved, app>> /\ phase = "importing"
        /\ phase' \in {"loading", "failing"} /\ silero' \in BOOLEAN /\ threads' \in {threads, 1}
    BY <1>4 DEF L!ImportSilero
  <2> QED
    BY <2>1
<1>5. CASE L!LoadSilero
  BY <1>5 DEF L!LoadSilero
<1>6. CASE L!RestoreThreads
  BY <1>6 DEF L!RestoreThreads
<1>7. CASE L!Publish
  BY <1>7 DEF L!Publish
<1>8. CASE L!Stop
  BY <1>8 DEF L!Stop
<1>9. CASE L!Boot
  BY <1>9 DEF L!Boot
<1> QED
  BY <1>1, <1>2, <1>3, <1>4, <1>5, <1>6, <1>7, <1>8, <1>9 DEF L!Next, L!Load

LEMMA ProcessKept == L!IInv /\ UNCHANGED process => L!IInv'
BY DEF process, L!IInv, L!TypeOK, L!InferenceThreads, L!Wanted, L!InsideLoadVad

\* Torch keeps its threads through every startup and failure.
THEOREM ThreadsKept == Spec => []InferenceThreads
<1>1. Init => L!IInv
  BY ProcessStarts DEF Init
<1>2. L!IInv /\ [Next]_vars => L!IInv'
  <2> SUFFICES ASSUME L!IInv, [Next]_vars PROVE L!IInv'
    OBVIOUS
  <2>1. L!Next \/ UNCHANGED process
    BY DEF Next, Load, Stop, Boot, L!Next, Arrive, Handle, RequireAuth, Validate, Open,
           Read, Probe, ProbeFails, Admit, Infer, StreamOver, LoseStream, NextRequest, Raise, Go,
             Append, vars
  <2> QED
    BY <2>1, ProcessStep, ProcessKept
<1>3. L!IInv => InferenceThreads
  BY DEF L!IInv, InferenceThreads
<1> QED
  BY <1>1, <1>2, <1>3, PTL DEF Spec

------------------------------------------------------------------------------
(* The request. *)

LEMMA RequestFields ==
  ASSUME NEW r \in Requests \cup {Nobody}
  PROVE  r.bytes \in Nat /\ (r.seconds = Unreadable \/ r.seconds \in Nat)
<1>1. CASE r = Nobody
  BY <1>1 DEF Nobody
<1>2. CASE r \in Requests
  <2>1. r.bytes \in Sizes /\ r.seconds \in Lengths \cup {Unreadable}
    BY <1>2 DEF Requests
  <2> QED
    BY <2>1, IntakeAssumption
<1> QED
  BY <1>1, <1>2

LEMMA ChunkFits ==
  ASSUME HandlerTypes, size <= request.bytes
  PROVE  /\ Chunk \in Nat /\ size + Chunk \in Nat /\ size + Chunk <= request.bytes
         /\ Chunk = 0 => size = request.bytes
<1>1. request.bytes \in Nat /\ size \in Nat /\ CHUNK \in Nat \ {0}
  BY RequestFields, IntakeAssumption DEF HandlerTypes
<1> QED
  BY <1>1 DEF Chunk

\* What the handler's part of the state has to keep in every step.
Handled == HandlerTypes /\ Sound /\ Stored /\ Answered /\ OnlyAcceptableInferred /\ StatusTellsWhy

LEMMA HandledKept ==
  ASSUME Handled, UNCHANGED <<settings, handler>>, L!TypeOK'
  PROVE  Handled'
BY DEF Handled, handler, HandlerTypes, Sound, Stored, Answered, OnlyAcceptableInferred,
       StatusTellsWhy, Refusal, Acceptable, Unauthorized, BadRequest, BadAudio, Limited

\* An answer that says why keeps the rest.
LEMMA RaiseHandled ==
  ASSUME Handled, NEW exc, NEW t \in Troubles, Raise(exc, t), at \notin {"idle", "over"},
         StatusOf(exc) \in {"400", "401", "413", "500", "503"},
         \/ t = "none" /\ StatusOf(exc) = Refusal
         \/ /\ t # "none" /\ StatusOf(exc) = Failure[t]
            /\ ~Unauthorized /\ ~BadRequest,
         StatusOf(exc) = "503" => Acceptable
  PROVE  Handled'
<1>1. /\ at' = "over" /\ answer' = StatusOf(exc) /\ trouble' = t /\ file' = NoFile
      /\ UNCHANGED <<request, size>>
      /\ UNCHANGED process /\ UNCHANGED settings
  BY DEF Raise, process
<1>2. L!TypeOK'
  BY <1>1 DEF Handled, HandlerTypes, L!TypeOK, process
<1>3. HandlerTypes'
  BY <1>1, <1>2 DEF Handled, HandlerTypes, Places, Statuses
<1>4. Sound' /\ Stored' /\ Answered'
  BY <1>1 DEF Handled, Sound, Stored, Answered, WithFile, Admitted
<1>5. OnlyAcceptableInferred'
  BY <1>1 DEF OnlyAcceptableInferred, Acceptable, Unauthorized, BadRequest, BadAudio, Limited
<1>6. StatusTellsWhy'
  BY <1>1 DEF StatusTellsWhy, Refusal, Unauthorized, BadRequest, BadAudio, Limited
<1> QED
  BY <1>3, <1>4, <1>5, <1>6 DEF Handled

\* On to the next step of the handler.
LEMMA GoHandled ==
  ASSUME Handled, NEW place \in Places \ {"idle", "over", "streaming"}, Go(place),
         at \notin {"idle", "over", "streaming"},
         place # "authorizing" => ~Unauthorized,
         place = "opening" => "form" \notin request.wrong,
         place \in WithFile => ~BadRequest,
         place \in Admitted => Acceptable,
         size' \in Nat, file' \in Nat \cup {NoFile},
         place \in WithFile => Limited(file') /\ file' = size' /\ size' <= request.bytes,
         place \in WithFile \ {"reading"} => file' = request.bytes,
         place \notin WithFile => file' = NoFile,
         place \in {"authorizing", "validating", "opening"} => size' = 0
  PROVE  Handled'
<1>1. at' = place /\ UNCHANGED <<request, trouble, answer>> /\ UNCHANGED process
      /\ UNCHANGED settings /\ answer = "none" /\ trouble = "none"
  BY DEF Go, process, Handled, Answered
<1>2. L!TypeOK'
  BY <1>1 DEF Handled, HandlerTypes, L!TypeOK, process
<1>3. HandlerTypes'
  BY <1>1, <1>2 DEF Handled, HandlerTypes
<1>4. Sound'
  BY <1>1 DEF Handled, Sound, Acceptable, Unauthorized, BadRequest, BadAudio, Limited
<1>5. Stored' /\ Answered'
  BY <1>1 DEF Handled, Stored, Answered, Limited
<1>6. OnlyAcceptableInferred'
  BY <1>1 DEF OnlyAcceptableInferred, Acceptable, Unauthorized, BadRequest, BadAudio,
              Limited, Admitted
<1>7. StatusTellsWhy'
  BY <1>1 DEF StatusTellsWhy
<1> QED
  BY <1>3, <1>4, <1>5, <1>6, <1>7 DEF Handled

LEMMA UploadHandled ==
  ASSUME Handled, Read
  PROVE  Handled'
<1> USE DEF Places, WithFile, Admitted, Troubles
<1>1. /\ at = "reading" /\ ~Unauthorized /\ ~BadRequest /\ file = size
      /\ Limited(size) /\ size <= request.bytes /\ size \in Nat
  BY DEF Read, Handled, Sound, Stored, HandlerTypes
<1>2. /\ Chunk \in Nat /\ size + Chunk \in Nat /\ size + Chunk <= request.bytes
      /\ Chunk = 0 => size = request.bytes
  BY <1>1, ChunkFits DEF Handled
<1>3. settings.MAX_UPLOAD \in Nat /\ request.bytes \in Nat
  BY RequestFields, IntakeAssumption DEF Handled, HandlerTypes, L!TypeOK, L!Configuration
<1>4. CASE Chunk = 0 /\ Go("probing") /\ UNCHANGED <<size, file>>
  BY <1>1, <1>2, <1>4, GoHandled
<1>5. CASE OverLimit(size + Chunk) /\ Raise("PayloadTooLargeError", "none")
  <2>1. ~Limited(request.bytes)
    BY <1>2, <1>3, <1>5 DEF OverLimit, Limited
  <2>2. StatusOf("PayloadTooLargeError") = "413" /\ Refusal = "413"
    BY <1>1, <2>1 DEF StatusOf, Refusal
  <2> QED
    BY <1>1, <1>5, <2>2, RaiseHandled
<1>6. CASE Raise("Exception", "disk")
  <2>1. StatusOf("Exception") = "500" /\ Failure["disk"] = "500"
    BY DEF StatusOf, Failure
  <2> QED
    BY <1>1, <1>6, <2>1, RaiseHandled
<1>7. CASE /\ ~OverLimit(size + Chunk) /\ Go("reading")
           /\ size' = size + Chunk /\ file' = file + Chunk
  <2>1. Limited(size + Chunk)
    BY <1>2, <1>3, <1>7 DEF OverLimit, Limited
  <2> QED
    BY <1>1, <1>2, <1>7, <2>1, GoHandled
<1> QED
  BY <1>4, <1>5, <1>6, <1>7 DEF Read, Append

LEMMA CheckHandled ==
  ASSUME Handled, RequireAuth \/ Validate \/ Open
  PROVE  Handled'
<1> USE DEF Places, WithFile, Admitted, Troubles
<1>1. /\ size = 0 /\ file = NoFile /\ request.bytes \in Nat
      /\ at \in {"authorizing", "validating", "opening"}
      /\ settings.MAX_UPLOAD \in Nat
  BY RequestFields, IntakeAssumption
     DEF RequireAuth, Validate, Open, Handled, Stored, HandlerTypes, L!TypeOK, L!Configuration
<1>2. CASE RequireAuth
  <2>1. CASE Unauthorized
    <3>1. Raise("AuthError", "none")
      BY <1>2, <2>1 DEF RequireAuth, Unauthorized
    <3>2. StatusOf("AuthError") = "401" /\ Refusal = "401"
      BY <2>1 DEF StatusOf, Refusal
    <3> QED
      BY <1>1, <3>1, <3>2, RaiseHandled
  <2>2. CASE ~Unauthorized
    <3>1. Go("validating") /\ UNCHANGED <<size, file>>
      BY <1>2, <2>2 DEF RequireAuth, Unauthorized
    <3> QED
      BY <1>1, <2>2, <3>1, GoHandled
  <2> QED
    BY <2>1, <2>2
<1>3. CASE Validate
  <2>1. ~Unauthorized
    BY <1>3 DEF Validate, Handled, Sound
  <2>2. CASE "form" \in request.wrong
    <3>1. Raise("RequestValidationError", "none") /\ BadRequest
      BY <1>3, <2>2 DEF Validate, BadRequest
    <3>2. StatusOf("RequestValidationError") = "400" /\ Refusal = "400"
      BY <2>1, <3>1 DEF StatusOf, Refusal
    <3> QED
      BY <1>1, <3>1, <3>2, RaiseHandled
  <2>3. CASE "form" \notin request.wrong
    <3>1. Go("opening") /\ UNCHANGED <<size, file>>
      BY <1>3, <2>3 DEF Validate
    <3> QED
      BY <1>1, <2>1, <2>3, <3>1, GoHandled
  <2> QED
    BY <2>2, <2>3
<1>4. CASE Open
  <2>1. ~Unauthorized /\ "form" \notin request.wrong /\ request \in Requests
    BY <1>4 DEF Open, Handled, Sound, Answered
  <2>2. CASE request.wrong \cap {"model", "format"} # {}
    <3>1. Raise("error_response", "none") /\ BadRequest
      BY <1>4, <2>2 DEF Open, BadRequest
    <3>2. StatusOf("error_response") = "400" /\ Refusal = "400"
      BY <2>1, <3>1 DEF StatusOf, Refusal
    <3> QED
      BY <1>1, <3>1, <3>2, RaiseHandled
  <2>3. CASE request.wrong \cap {"model", "format"} = {}
    <3>1. ~BadRequest
      BY <2>1, <2>3 DEF BadRequest, Requests, Checks
    <3>2. CASE Raise("Exception", "disk")
      <4>1. StatusOf("Exception") = "500" /\ Failure["disk"] = "500"
        BY DEF StatusOf, Failure
      <4> QED
        BY <1>1, <2>1, <3>1, <3>2, <4>1, RaiseHandled
    <3>3. CASE Go("reading") /\ file' = 0 /\ UNCHANGED size
      <4>1. size = 0
        BY <1>4 DEF Open, Handled, Stored
      <4>2. Limited(0)
        BY <1>1 DEF Limited
      <4> QED
        BY <1>1, <2>1, <3>1, <3>3, <4>1, <4>2, GoHandled
    <3> QED
      BY <1>4, <2>3, <3>2, <3>3 DEF Open
  <2> QED
    BY <2>2, <2>3
<1> QED
  BY <1>2, <1>3, <1>4

LEMMA ProbeHandled ==
  ASSUME Handled, Probe
  PROVE  Handled'
<1> USE DEF Places, WithFile, Admitted, Troubles
<1>1. /\ at = "probing" /\ ~Unauthorized /\ ~BadRequest /\ file = request.bytes
      /\ file = size /\ Limited(size) /\ size \in Nat /\ request.bytes \in Nat
      /\ request.seconds = Unreadable \/ request.seconds \in Nat
      /\ settings.MAX_AUDIO_SECONDS \in Nat
  BY RequestFields, IntakeAssumption
     DEF Probe, Handled, Sound, Stored, HandlerTypes, L!TypeOK, L!Configuration
<1>2. CASE Raise("AudioToolNotFoundError", "no_tool")
  <2>1. StatusOf("AudioToolNotFoundError") = "500" /\ Failure["no_tool"] = "500"
    BY DEF StatusOf, Failure
  <2> QED
    BY <1>1, <1>2, <2>1, RaiseHandled
<1>3. ASSUME NEW exc \in {"AudioDecodeError", "AudioTooLongError"}, Raise(exc, "none"),
             BadAudio
      PROVE  Handled'
  <2>1. StatusOf(exc) = "400" /\ Refusal = "400"
    BY <1>1, <1>3 DEF StatusOf, Refusal
  <2> QED
    BY <1>1, <1>3, <2>1, RaiseHandled
<1>4. CASE request.seconds # Unreadable /\ TooLong /\ Raise("AudioTooLongError", "none")
  <2>1. BadAudio
    BY <1>1, <1>4 DEF BadAudio, TooLong
  <2> QED
    BY <1>3, <1>4, <2>1
<1>5. CASE request.seconds = Unreadable /\ Raise("AudioDecodeError", "none")
  BY <1>3, <1>5 DEF BadAudio
<1>6. CASE /\ request.seconds # Unreadable /\ ~TooLong
           /\ Go("admitting") /\ UNCHANGED <<size, file>>
  <2>1. ~BadAudio
    BY <1>1, <1>6 DEF BadAudio, TooLong
  <2>2. Acceptable
    BY <1>1, <2>1 DEF Acceptable
  <2> QED
    BY <1>1, <1>6, <2>2, GoHandled
<1> QED
  BY <1>2, <1>4, <1>5, <1>6 DEF Probe, ProbeFails

\* The handler and the stream end without an exception.
LEMMA EndHandled ==
  ASSUME Handled, at \in {"admitting", "inferring", "streaming"}, UNCHANGED <<process, request, size>>,
         \/ /\ at' = "over" /\ file' = NoFile
            /\ \/ answer' = "200" /\ trouble' = "none"
               \/ answer' = "499" /\ trouble' = "cancelled"
         \/ at' = "streaming" /\ answer' = "200" /\ trouble' = "none" /\ UNCHANGED file
  PROVE  Handled'
<1> USE DEF Places, WithFile, Admitted, Troubles
<1>1. Acceptable /\ UNCHANGED settings
  BY DEF Handled, Sound, process
<1>2. Refusal = "200" /\ ~Unauthorized /\ ~BadRequest
  BY <1>1 DEF Acceptable, Refusal
<1>3. HandlerTypes'
  BY DEF Handled, HandlerTypes, L!TypeOK, process, Statuses
<1>4. Sound' /\ OnlyAcceptableInferred'
  BY <1>1 DEF Sound, OnlyAcceptableInferred, Acceptable, Unauthorized, BadRequest, BadAudio,
              Limited
<1>5. Stored' /\ Answered'
  BY <1>1 DEF Handled, Stored, Answered, Limited
<1>6. StatusTellsWhy'
  BY <1>1, <1>2 DEF StatusTellsWhy, Refusal, Unauthorized, BadRequest, BadAudio, Limited, Failure
<1> QED
  BY <1>3, <1>4, <1>5, <1>6 DEF Handled

LEMMA InferenceHandled ==
  ASSUME Handled, Admit \/ Infer \/ StreamOver \/ LoseStream
  PROVE  Handled'
<1> USE DEF Places, WithFile, Admitted, Troubles
<1>1. /\ at \in {"admitting", "inferring", "streaming"} /\ Acceptable
      /\ at # "streaming" => trouble = "none" /\ answer = "none"
      /\ at = "streaming" => trouble = "none" /\ answer = "200"
      /\ size \in Nat /\ file = size /\ file = request.bytes /\ Limited(file)
      /\ request.bytes \in Nat
  BY RequestFields
     DEF Admit, Infer, StreamOver, LoseStream, Handled, Sound, Stored, Answered, HandlerTypes
<1>2. ~Unauthorized /\ ~BadRequest
  BY <1>1 DEF Acceptable
<1>3. ASSUME NEW exc \in {"QueueFullError", "AudioDecodeError", "AudioToolNotFoundError", "Exception"},
             NEW t \in {"full", "undecodable", "no_tool", "crashed"},
             Raise(exc, t), StatusOf(exc) = Failure[t]
      PROVE  Handled'
  <2>1. Failure[t] \in {"400", "500", "503"}
    BY DEF Failure
  <2> QED
    BY <1>1, <1>2, <1>3, <2>1, RaiseHandled
<1>4. /\ StatusOf("QueueFullError") = Failure["full"]
      /\ StatusOf("AudioDecodeError") = Failure["undecodable"]
      /\ StatusOf("AudioToolNotFoundError") = Failure["no_tool"]
      /\ StatusOf("Exception") = Failure["crashed"]
  BY DEF StatusOf, Failure
<1>5. CASE Admit
  <2>1. CASE Raise("QueueFullError", "full")
    BY <1>3, <1>4, <2>1
  <2>2. CASE Go("inferring") /\ UNCHANGED <<size, file>>
    <3>1. at = "admitting" /\ trouble = "none" /\ answer = "none"
      BY <1>1, <1>5 DEF Admit
    <3>2. settings' = settings /\ size' = size /\ file' = file
      BY <2>2 DEF Go, process
    <3>4. Limited(file')
      BY <1>1, <3>2 DEF Limited
    <3>5. size' \in Nat /\ size' = request.bytes /\ file' = size'
      BY <1>1, <3>2
    <3>6. size' <= request.bytes
      BY <3>5
    <3>3. at \notin {"idle", "over", "streaming"}
      BY <3>1
    <3> QED
      BY <1>1, <1>2, <2>2, <3>1, <3>3, <3>4, <3>5, <3>6, GoHandled
  <2>3. CASE at' = "streaming" /\ answer' = "200" /\ UNCHANGED <<process, request, size, file, trouble>>
    BY <1>1, <1>5, <2>3, EndHandled DEF Admit
  <2> QED
    BY <1>5, <2>1, <2>2, <2>3 DEF Admit
<1>6. CASE Infer
  <2>1. \/ Raise("AudioDecodeError", "undecodable")
        \/ Raise("AudioToolNotFoundError", "no_tool")
        \/ Raise("Exception", "crashed")
        \/ /\ at = "inferring" /\ at' = "over" /\ file' = NoFile
           /\ \/ answer' = "200" /\ UNCHANGED trouble
              \/ answer' = "499" /\ trouble' = "cancelled"
           /\ UNCHANGED <<process, request, size>>
    BY <1>6 DEF Infer
  <2> QED
    BY <1>1, <1>3, <1>4, <2>1, EndHandled
<1>7. CASE StreamOver \/ LoseStream
  BY <1>1, <1>7, EndHandled DEF StreamOver, LoseStream
<1> QED
  BY <1>5, <1>6, <1>7

LEMMA ForgetHandled ==
  ASSUME Forget, L!TypeOK'
  PROVE  Handled'
BY DEF Forget, Handled, HandlerTypes, Sound, Stored, Answered, OnlyAcceptableInferred, StatusTellsWhy,
       Places, WithFile, Admitted, Troubles, Nobody

LEMMA ArriveHandled ==
  ASSUME Handled, NEW r \in Requests, Arrive(r)
  PROVE  Handled'
<1> USE DEF Places, WithFile, Admitted, Troubles
<1>1. L!TypeOK'
  BY DEF Handled, HandlerTypes, L!TypeOK, Arrive, process
<1> QED
  BY <1>1 DEF Arrive, Handled, HandlerTypes, Sound, Stored, Answered, OnlyAcceptableInferred,
              StatusTellsWhy

\* What stays on the disk got there from the file at hand.
LEMMA LeftKept ==
  ASSUME Handled, LeftBehind, [Next]_vars
  PROVE  LeftBehind'
<1>1. CASE UNCHANGED left
  BY <1>1 DEF LeftBehind
<1>2. CASE Abandon
  <2>1. CASE file = NoFile
    BY <1>2, <2>1 DEF Abandon, LeftBehind
  <2>2. CASE file # NoFile
    <3> DEFINE f == [bytes |-> file, limit |-> settings.MAX_UPLOAD]
    <3>1. file \in Nat /\ Limited(file) /\ settings.MAX_UPLOAD \in Nat
      BY <2>2, IntakeAssumption
         DEF Handled, HandlerTypes, Stored, L!TypeOK, L!Configuration
    <3>2. f \in [bytes : Nat, limit : Nat] /\ (f.limit = 0 \/ f.bytes <= f.limit)
      BY <3>1 DEF Limited
    <3>3. left' = left \cup {f}
      BY <1>2, <2>2 DEF Abandon
    <3> QED
      BY <3>2, <3>3 DEF LeftBehind
  <2> QED
    BY <2>1, <2>2
<1> QED
  BY <1>1, <1>2 DEF Next, LoseStream, Boot, vars

THEOREM Invariance == Spec => []IInv
<1>1. Init => IInv
  <2> SUFFICES ASSUME Init PROVE IInv
    OBVIOUS
  <2>1. L!IInv /\ L!TypeOK
    BY ProcessStarts DEF Init, L!IInv
  <2> QED
    BY <2>1 DEF Init, IInv, HandlerTypes, LeftBehind, Sound, Stored, Answered, OnlyAcceptableInferred,
                StatusTellsWhy, Places, WithFile, Admitted, Troubles, Nobody
<1>2. IInv /\ [Next]_vars => IInv'
  <2> SUFFICES ASSUME IInv, [Next]_vars PROVE IInv'
    OBVIOUS
  <2>1. Handled /\ L!IInv /\ LeftBehind
    BY DEF IInv, Handled
  <2>2. L!IInv' /\ L!TypeOK'
    <3>1. L!Next \/ UNCHANGED process
      BY DEF Next, Load, Stop, Boot, L!Next, Arrive, Handle, RequireAuth, Validate, Open,
             Read, Probe, ProbeFails, Admit, Infer, StreamOver, LoseStream, NextRequest, Raise, Go,
             Append, vars
    <3>2. L!IInv'
      BY <2>1, <3>1, ProcessStep, ProcessKept
    <3> QED
      BY <3>2 DEF L!IInv
  <2>3. ASSUME NEW r \in Requests, Arrive(r) PROVE Handled'
    BY <2>1, <2>3, ArriveHandled
  <2>4. ASSUME RequireAuth \/ Validate \/ Open PROVE Handled'
    BY <2>1, <2>4, CheckHandled
  <2>5. ASSUME Read PROVE Handled'
    BY <2>1, <2>5, UploadHandled
  <2>6. ASSUME Probe PROVE Handled'
    BY <2>1, <2>6, ProbeHandled
  <2>7. ASSUME Admit \/ Infer \/ StreamOver \/ LoseStream PROVE Handled'
    BY <2>1, <2>7, InferenceHandled
  <2>8. ASSUME NextRequest \/ Boot PROVE Handled'
    BY <2>2, <2>8, ForgetHandled DEF NextRequest, Boot
  <2>9. ASSUME Load \/ Stop PROVE Handled'
    <3>1. UNCHANGED handler /\ UNCHANGED settings
      BY <2>9 DEF Load, Stop, L!Stop, L!Load, L!Startup, L!LoadModel, L!CaptureThreads,
                  L!ImportSilero, L!LoadSilero, L!RestoreThreads, L!Publish
    <3> QED
      BY <2>1, <2>2, <3>1, HandledKept
  <2>10. ASSUME UNCHANGED vars PROVE Handled'
    BY <2>1, <2>2, <2>10, HandledKept DEF vars, process
  <2>11. Handled'
    BY <2>3, <2>4, <2>5, <2>6, <2>7, <2>8, <2>9, <2>10 DEF Next, Handle
  <2>12. LeftBehind'
    BY <2>1, LeftKept
  <2> QED
    BY <2>2, <2>11, <2>12 DEF IInv, Handled
<1> QED
  BY <1>1, <1>2, PTL DEF Spec

\* Every part of the state keeps its type, what is left behind included.
THEOREM TypeCorrect == Spec => []TypeOK
<1>1. IInv => TypeOK
  BY DEF IInv, TypeOK, LeftBehind
<1> QED
  BY <1>1, Invariance, PTL

\* For any sizes, and wherever the handler is stopped: no temp file outgrows
\* its limit, whether somebody will delete it or not.
THEOREM LimitKept == Spec => []UploadWithinLimit
<1>1. IInv => UploadWithinLimit
  BY DEF IInv, Stored, UploadWithinLimit, WithFile, LeftBehind
<1> QED
  BY <1>1, Invariance, PTL

\* For any sizes of uploads and of reads the engine gets the whole upload.
THEOREM UploadComplete == Spec => []WholeUpload
<1>1. IInv => WholeUpload
  BY DEF IInv, Stored, WholeUpload, WithFile
<1> QED
  BY <1>1, Invariance, PTL

\* Nothing a check would refuse gets to the runner.
THEOREM NothingUnchecked == Spec => []OnlyAcceptableInferred
<1>1. IInv => OnlyAcceptableInferred
  BY DEF IInv
<1> QED
  BY <1>1, Invariance, PTL

\* The status is the one the table of error codes gives the first cause.
THEOREM StatusIsTheCause == Spec => []StatusTellsWhy
<1>1. IInv => StatusTellsWhy
  BY DEF IInv
<1> QED
  BY <1>1, Invariance, PTL
===============================================================================
