----------------------------- MODULE SlotCounter -----------------------------
(***************************************************************************)
(* try_acquire and release of gigaam_api/runner.py, statement by           *)
(* statement: the event loop and the worker thread both change the         *)
(* admitted counter, and `+= 1` and `-= 1` read it before they write it.   *)
(* Runner.tla takes each of the two methods as one step; here is why.      *)
(***************************************************************************)
EXTENDS Integers, FiniteSets

CONSTANTS Actors,     \* whoever takes and gives back slots, in any thread
          MaxQueue    \* settings.MAX_QUEUE

ASSUME CounterAssumption == IsFiniteSet(Actors) /\ MaxQueue \in Nat \ {0}

VARIABLES inflight,   \* self._inflight
          locked,     \* who is inside `with self._lock`
          seen,       \* the value each actor read of inflight
          pc          \* where each actor stands

vars == <<inflight, locked, seen, pc>>

(***************************************************************************)
(* out, taking     before and inside try_acquire, `with` not passed yet    *)
(* testing, adding  inside it, before the test and before the write        *)
(* in, giving      holding a slot; called release, `with` not passed yet   *)
(* subtracting     has read the counter in release                         *)
(***************************************************************************)
Places == {"out", "taking", "testing", "adding", "in", "giving", "reading",
           "subtracting"}

Init ==
  /\ inflight = 0
  /\ locked = {}
  /\ seen = [a \in Actors |-> 0]
  /\ pc = [a \in Actors |-> "out"]

Go(a, place) == pc' = [pc EXCEPT ![a] = place]
Unlock(a) == locked' = locked \ {a}

LockMissing(a) == locked' = locked \cup {a}   \* mutant: no lock

Lock(a) == locked = {} /\ locked' = {a}

Call(a) ==
  /\ \/ pc[a] = "out" /\ Go(a, "taking")
     \/ pc[a] = "in" /\ Go(a, "giving")
  /\ UNCHANGED <<inflight, locked, seen>>

Enter(a) ==
  /\ \/ pc[a] = "taking" /\ Go(a, "testing")
     \/ pc[a] = "giving" /\ Go(a, "reading")
  /\ Lock(a)
  /\ UNCHANGED <<inflight, seen>>

RefuseAtLimit(a) ==   \* mutant: one slot is never given out
  /\ pc[a] = "testing" /\ inflight >= MaxQueue - 1
  /\ Go(a, "out") /\ Unlock(a)
  /\ UNCHANGED <<inflight, seen>>

\* QueueFullError leaves the `with` block.
Refuse(a) ==
  /\ pc[a] = "testing" /\ inflight >= MaxQueue
  /\ Go(a, "out") /\ Unlock(a)
  /\ UNCHANGED <<inflight, seen>>

\* The test passed; the read half of `+= 1`.
Load(a) ==
  /\ \/ pc[a] = "testing" /\ inflight < MaxQueue /\ Go(a, "adding")
     \/ pc[a] = "reading" /\ Go(a, "subtracting")
  /\ seen' = [seen EXCEPT ![a] = inflight]
  /\ UNCHANGED <<inflight, locked>>

\* The write half, and the end of the `with` block.
Store(a) ==
  /\ \/ pc[a] = "adding" /\ inflight' = seen[a] + 1 /\ Go(a, "in")
     \/ pc[a] = "subtracting" /\ inflight' = seen[a] - 1 /\ Go(a, "out")
  /\ Unlock(a)
  /\ UNCHANGED seen

Next == \E a \in Actors : Call(a) \/ Enter(a) \/ Refuse(a) \/ Load(a) \/ Store(a)

Spec == Init /\ [][Next]_vars

------------------------------------------------------------------------------
Owning == {"in", "giving", "reading", "subtracting"}
Owners == {a \in Actors : pc[a] \in Owning}

TypeOK ==
  /\ inflight \in 0..MaxQueue
  /\ locked \subseteq Actors
  /\ seen \in [Actors -> 0..MaxQueue]
  /\ pc \in [Actors -> Places]

\* No update of the counter is lost: at every moment, other actors halfway
\* through an update included, it is the number of slots given out.
Counted == inflight = Cardinality(Owners)

\* A call is refused only while MAX_QUEUE slots are given out.
RefusedWhenFull ==
  [][\A a \in Actors :
       pc[a] = "testing" /\ pc'[a] = "out" => Cardinality(Owners) >= MaxQueue]_vars

\* The two methods are the admission and the departure of the abstract
\* specification, whose capacity the counter enforces.
Slots == INSTANCE Admission WITH Jobs <- Actors, held <- Owners, active <- {}
ImplementsSlots == Slots!Spec

(* The inductive invariant (SlotCounterProofs.tla). *)

Inside == {"testing", "adding", "reading", "subtracting"}

LockHeld ==
  /\ \A a \in Actors : pc[a] \in Inside <=> a \in locked
  /\ \A a, b \in locked : a = b

FreshRead ==
  \A a \in Actors : pc[a] \in {"adding", "subtracting"} =>
    seen[a] = inflight /\ (pc[a] = "adding" => inflight < MaxQueue)

IInv == TypeOK /\ Counted /\ LockHeld /\ FreshRead
===============================================================================
