------------------------------- MODULE Lifespan -------------------------------
(***************************************************************************)
(* The server process: the settings it reads once (config.py), the engine  *)
(* it loads at startup (GigaAMEngine.__init__, load_vad), what main.py     *)
(* publishes in app.state, and torch's thread count, which belongs to the  *)
(* process and outlives a lifespan that failed or ended.                   *)
(***************************************************************************)
EXTENDS Naturals

CONSTANTS Configurations,   \* the .env files the server may be started with
          Cores             \* the thread counts torch may start with

\* The settings the model depends on; API_KEY: whether one is set.
Configuration ==
  [DEVICE : {"auto", "cpu", "mps", "cuda"}, NUM_THREADS : Nat \ {0},
   MAX_UPLOAD : Nat, MAX_AUDIO_SECONDS : Nat, API_KEY : BOOLEAN]

VARIABLES settings,   \* get_settings(), cached for the life of the process
          phase,      \* how far the startup of the lifespan has come
          device,     \* the engine's device, "none" before the first startup
          threads,    \* torch.get_num_threads()
          found,      \* history: the thread count this startup began with
          saved,      \* load_vad's saved_threads
          silero,     \* silero_vad was imported by this process
          app         \* app.state.engine and app.state.runner: "empty", "ready"

vars == <<settings, phase, device, threads, found, saved, silero, app>>

Devices == {"cpu", "mps", "cuda"}
Phases  == {"down", "weights", "capturing", "importing", "loading", "failing",
            "restoring", "loaded", "serving"}

Init ==
  /\ settings \in Configurations
  /\ threads \in Cores /\ found = threads /\ saved = threads
  /\ phase = "down" /\ device = "none" /\ silero = FALSE /\ app = "empty"

------------------------------------------------------------------------------
(* GigaAMEngine.__init__. *)

\* _resolve_device: "auto" takes the first of cuda, mps and cpu there is.
Resolved(available) ==
  IF settings.DEVICE # "auto" THEN settings.DEVICE
  ELSE IF "cuda" \in available THEN "cuda"
  ELSE IF "mps" \in available THEN "mps" ELSE "cpu"

\* The thread count is set for the CPU only.
Startup ==
  /\ phase = "down"
  /\ phase' = "weights"
  /\ \E available \in SUBSET {"cuda", "mps"} : device' = Resolved(available)
  /\ threads' = IF device' = "cpu" THEN settings.NUM_THREADS ELSE threads
  /\ found' = threads
  /\ UNCHANGED <<settings, saved, silero, app>>

\* gigaam.load_model, which may fail: no network, no such device, no memory.
LoadModel ==
  /\ phase = "weights"
  /\ phase' \in {"capturing", "down"}
  /\ UNCHANGED <<settings, device, threads, found, saved, silero, app>>

------------------------------------------------------------------------------
(* load_vad. *)

CaptureThreads ==
  /\ phase = "capturing"
  /\ phase' = "importing"
  /\ saved' = threads
  /\ UNCHANGED <<settings, device, threads, found, silero, app>>

ImportThenCapture ==   \* mutant: the threads are read after the import
  /\ phase = "importing" /\ phase' = "loading"
  /\ IF silero THEN UNCHANGED <<threads, silero>> ELSE threads' = 1 /\ silero' = TRUE
  /\ saved' = threads'
  /\ UNCHANGED <<settings, device, found, app>>

\* silero_vad sets torch to one thread when its model module is first run;
\* the import may fail before that, or after it, with the module kept or not.
ImportSilero ==
  /\ phase = "importing"
  /\ \/ silero /\ phase' = "loading" /\ UNCHANGED <<threads, silero>>
     \/ ~silero /\ phase' = "loading" /\ threads' = 1 /\ silero' = TRUE
     \/ ~silero /\ phase' = "failing" /\ UNCHANGED <<threads, silero>>
     \/ ~silero /\ phase' = "failing" /\ threads' = 1 /\ silero' \in BOOLEAN
  /\ UNCHANGED <<settings, device, found, saved, app>>

LoadSilero ==
  /\ phase = "loading"
  /\ phase' \in {"restoring", "failing"}
  /\ UNCHANGED <<settings, device, threads, found, saved, silero, app>>

\* `finally: torch.set_num_threads(saved_threads)`; what failed fails the
\* startup.
RestoreThreads ==
  /\ phase \in {"restoring", "failing"}
  /\ phase' = IF phase = "restoring" THEN "loaded" ELSE "down"
  /\ threads' = saved
  /\ UNCHANGED <<settings, device, found, saved, silero, app>>

------------------------------------------------------------------------------
(* main.py. *)

Publish ==
  /\ phase = "loaded"
  /\ phase' = "serving" /\ app' = "ready"
  /\ UNCHANGED <<settings, device, threads, found, saved, silero>>

\* The lifespan's `finally`: the process may enter another lifespan.
Stop ==
  /\ phase = "serving"
  /\ phase' = "down" /\ app' = "empty"
  /\ UNCHANGED <<settings, device, threads, found, saved, silero>>

\* The process ended, or was killed, and another one is started.
Boot ==
  /\ settings' \in Configurations
  /\ threads' \in Cores /\ found' = threads' /\ saved' = threads'
  /\ phase' = "down" /\ device' = "none" /\ silero' = FALSE /\ app' = "empty"

------------------------------------------------------------------------------
Load == Startup \/ LoadModel \/ CaptureThreads \/ ImportSilero \/ LoadSilero
          \/ RestoreThreads \/ Publish

Next == Load \/ Stop \/ Boot

Spec == Init /\ [][Next]_vars

TypeOK ==
  /\ settings \in Configurations
  /\ phase \in Phases
  /\ device \in Devices \cup {"none"}
  /\ threads \in Nat \ {0} /\ found \in Nat \ {0} /\ saved \in Nat \ {0}
  /\ silero \in BOOLEAN
  /\ app \in {"empty", "ready"}

\* What inference is meant to use: NUM_THREADS on the CPU, and elsewhere what
\* torch used before.
Wanted == IF device = "cpu" THEN settings.NUM_THREADS ELSE found

InsideLoadVad == phase \in {"loading", "restoring", "failing"}

\* "Loading the VAD has no global side effect": outside load_vad torch has
\* the wanted number of threads, after a failed startup too, and however
\* often the process went through startups before.
InferenceThreads == ~InsideLoadVad => threads = Wanted

\* The inductive invariant (IntakeProofs.tla).
IInv ==
  /\ TypeOK /\ InferenceThreads
  /\ InsideLoadVad \/ phase = "importing" => saved = Wanted
  /\ app = "ready" <=> phase = "serving"
===============================================================================
