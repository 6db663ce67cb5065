-------------------------- MODULE SlotCounterProofs --------------------------
(***************************************************************************)
(* Proofs about the admitted counter of runner.py for any number of        *)
(* threads: under the lock no update is lost, and the two methods are the  *)
(* atomic steps that the other modules take them for.                      *)
(***************************************************************************)
EXTENDS SlotCounter, FiniteSetTheorems, TLAPS

\* There are finitely many owners.
LEMMA OwnersFinite == IsFiniteSet(Owners) /\ Cardinality(Owners) \in Nat
<1>1. Owners \subseteq Actors
  BY DEF Owners
<1> QED
  BY <1>1, CounterAssumption, FS_Subset, FS_CardinalityType

\* An actor that changes place enters or leaves the owners alone.
LEMMA OwnersMove ==
  ASSUME TypeOK, NEW a \in Actors, NEW place, Go(a, place)
  PROVE  Owners' = IF place \in Owning THEN Owners \cup {a} ELSE Owners \ {a}
BY DEF TypeOK, Owners, Go

LEMMA InitInv == Init => IInv
<1> SUFFICES ASSUME Init PROVE IInv
  OBVIOUS
<1>1. TypeOK /\ LockHeld /\ FreshRead
  BY CounterAssumption DEF Init, TypeOK, Places, LockHeld, FreshRead, Inside
<1>2. Owners = {}
  BY DEF Init, Owners, Owning
<1> QED
  BY <1>1, <1>2, FS_EmptySet DEF Init, IInv, Counted

\* A step that leaves the counter and the owners alone.
LEMMA SameOwners ==
  ASSUME IInv, NEW a \in Actors, NEW place, Go(a, place), UNCHANGED inflight,
         pc[a] \in Owning <=> place \in Owning
  PROVE  Counted' /\ Owners' = Owners
<1>1. Owners' = Owners
  BY OwnersMove DEF IInv, TypeOK, Owners
<1> QED
  BY <1>1 DEF IInv, Counted

LEMMA CallInv == ASSUME IInv, NEW a \in Actors, Call(a) PROVE IInv'
<1> USE DEF IInv, Call
<1>1. TypeOK'
  BY DEF TypeOK, Places, Go
<1>2. Counted'
  BY SameOwners DEF Owning
<1>3. LockHeld' /\ FreshRead'
  BY DEF TypeOK, LockHeld, FreshRead, Inside, Go
<1> QED
  BY <1>1, <1>2, <1>3

LEMMA EnterInv == ASSUME IInv, NEW a \in Actors, Enter(a) PROVE IInv'
<1> USE DEF IInv, Enter
<1>1. TypeOK'
  BY DEF TypeOK, Places, Go, Lock
<1>2. Counted'
  BY SameOwners DEF Owning
<1>3. LockHeld' /\ FreshRead'
  BY DEF TypeOK, LockHeld, FreshRead, Inside, Go, Lock
<1> QED
  BY <1>1, <1>2, <1>3

LEMMA RefuseInv == ASSUME IInv, NEW a \in Actors, Refuse(a) PROVE IInv'
<1> USE DEF IInv, Refuse
<1>1. TypeOK'
  BY DEF TypeOK, Places, Go, Unlock
<1>2. Counted'
  BY SameOwners DEF Owning
<1>3. LockHeld' /\ FreshRead'
  BY DEF TypeOK, LockHeld, FreshRead, Inside, Go, Unlock
<1> QED
  BY <1>1, <1>2, <1>3

LEMMA LoadInv == ASSUME IInv, NEW a \in Actors, Load(a) PROVE IInv'
<1> USE DEF IInv, Load
<1>1. TypeOK'
  BY DEF TypeOK, Places, Go
<1>2. Counted'
  BY SameOwners DEF Owning
<1>3. LockHeld' /\ FreshRead'
  BY DEF TypeOK, LockHeld, FreshRead, Inside, Go
<1> QED
  BY <1>1, <1>2, <1>3

\* What the write does to the owners, and that it writes what it should.
LEMMA StoreCounts ==
  ASSUME IInv, NEW a \in Actors, Store(a)
  PROVE  /\ Counted' /\ inflight' \in 0..MaxQueue
         /\ \/ /\ a \notin Owners /\ Owners' = Owners \cup {a}
               /\ Cardinality(Owners) < MaxQueue
            \/ a \in Owners /\ Owners' = Owners \ {a}
<1> USE DEF IInv
<1>1. inflight \in 0..MaxQueue /\ MaxQueue \in Nat
      /\ inflight = Cardinality(Owners) /\ IsFiniteSet(Owners)
  BY CounterAssumption, OwnersFinite DEF TypeOK, Counted
<1>2. CASE pc[a] = "adding" /\ inflight' = seen[a] + 1 /\ Go(a, "in")
  <2>1. seen[a] = inflight /\ inflight < MaxQueue
    BY <1>2 DEF FreshRead
  <2>2. Owners' = Owners \cup {a} /\ a \notin Owners
    BY <1>2, OwnersMove DEF Owners, Owning
  <2>3. Cardinality(Owners') = Cardinality(Owners) + 1
    BY <1>1, <2>2, FS_AddElement
  <2> QED
    BY <1>1, <1>2, <2>1, <2>2, <2>3 DEF Counted
<1>3. CASE pc[a] = "subtracting" /\ inflight' = seen[a] - 1 /\ Go(a, "out")
  <2>1. seen[a] = inflight
    BY <1>3 DEF FreshRead
  <2>2. Owners' = Owners \ {a} /\ a \in Owners
    BY <1>3, OwnersMove DEF Owners, Owning
  <2>3. Cardinality(Owners') = Cardinality(Owners) - 1 /\ IsFiniteSet(Owners')
    BY <1>1, <2>2, FS_RemoveElement
  <2>4. Cardinality(Owners') \in Nat
    BY <2>3, FS_CardinalityType
  <2> QED
    BY <1>1, <1>3, <2>1, <2>2, <2>3, <2>4 DEF Counted
<1> QED
  BY <1>2, <1>3 DEF Store

LEMMA StoreInv == ASSUME IInv, NEW a \in Actors, Store(a) PROVE IInv'
<1> USE DEF IInv
<1>1. Counted' /\ inflight' \in 0..MaxQueue
  BY StoreCounts
<1>2. TypeOK'
  BY <1>1 DEF Store, TypeOK, Places, Go, Unlock
<1>3. LockHeld'
  BY DEF Store, TypeOK, LockHeld, Inside, Go, Unlock
<1>4. FreshRead'
  <2>1. a \in locked /\ locked' = {}
    BY DEF Store, TypeOK, LockHeld, Inside, Unlock
  <2>2. \A b \in Actors : pc'[b] \notin Inside
    BY <1>3, <2>1 DEF LockHeld
  <2> QED
    BY <2>2 DEF FreshRead, Inside
<1> QED
  BY <1>1, <1>2, <1>3, <1>4

LEMMA NextInv == ASSUME IInv, [Next]_vars PROVE IInv'
<1>1. CASE Next
  BY <1>1, CallInv, EnterInv, RefuseInv, LoadInv, StoreInv DEF Next
<1>2. CASE UNCHANGED vars
  BY <1>2 DEF vars, IInv, TypeOK, Counted, Owners, LockHeld, FreshRead
<1> QED
  BY <1>1, <1>2

\* The inductive invariant holds of every behaviour.
THEOREM Invariance == Spec => []IInv
<1>1. Init => IInv
  BY InitInv
<1>2. IInv /\ [Next]_vars => IInv'
  BY NextInv
<1> QED
  BY <1>1, <1>2, PTL DEF Spec

\* The counter stays between 0 and MAX_QUEUE.
THEOREM TypeCorrect == Spec => []TypeOK
<1>1. IInv => TypeOK
  BY DEF IInv
<1> QED
  BY <1>1, Invariance, PTL

\* However many threads take and give back slots, no update is lost.
THEOREM NoLostUpdate == Spec => []Counted
<1>1. IInv => Counted
  BY DEF IInv
<1> QED
  BY <1>1, Invariance, PTL

\* A refusal means that MAX_QUEUE slots were given out.
THEOREM RefusalsJustified == Spec => RefusedWhenFull
<1>1. IInv /\ [Next]_vars =>
        [\A a \in Actors : pc[a] = "testing" /\ pc'[a] = "out" =>
           Cardinality(Owners) >= MaxQueue]_vars
  <2> SUFFICES ASSUME IInv, Next, NEW a \in Actors, pc[a] = "testing", pc'[a] = "out"
               PROVE  Cardinality(Owners) >= MaxQueue
    OBVIOUS
  <2>1. PICK b \in Actors : Call(b) \/ Enter(b) \/ Refuse(b) \/ Load(b) \/ Store(b)
    BY DEF Next
  <2>2. Refuse(b)
    BY <2>1 DEF IInv, TypeOK, Call, Enter, Load, Store, Go
  <2> QED
    BY <2>2 DEF Refuse, IInv, Counted
<1> QED
  BY <1>1, Invariance, PTL DEF Spec, RefusedWhenFull

\* Statement by statement, the counter implements the abstract admission.
THEOREM ImplementsAdmission == Spec => ImplementsSlots
<1>1. Init => Slots!Init
  BY DEF Init, Slots!Init, Owners, Owning
<1>2. \A S : Slots!Cardinality(S) = Cardinality(S)
  BY DEF Slots!Cardinality, Cardinality, Slots!IsFiniteSet, IsFiniteSet
<1>3. IInv /\ [Next]_vars => [Slots!Next]_(Slots!vars)
  <2> SUFFICES ASSUME IInv, [Next]_vars
               PROVE  Slots!Next \/ UNCHANGED Slots!vars
    OBVIOUS
  <2>1. CASE UNCHANGED vars
    BY <2>1 DEF vars, Slots!vars, Owners
  <2>2. CASE Next
    <3>1. PICK a \in Actors : Call(a) \/ Enter(a) \/ Refuse(a) \/ Load(a) \/ Store(a)
      BY <2>2 DEF Next
    <3>2. CASE Call(a) \/ Enter(a) \/ Refuse(a) \/ Load(a)
      <4>1. Owners' = Owners
        BY <3>2, SameOwners DEF Call, Enter, Refuse, Load, Owning
      <4> QED
        BY <4>1 DEF Slots!vars
    <3>3. CASE Store(a)
      <4>1. \/ /\ a \notin Owners /\ Owners' = Owners \cup {a}
               /\ Cardinality(Owners) < MaxQueue
            \/ a \in Owners /\ Owners' = Owners \ {a}
        BY <3>3, StoreCounts
      <4>2. Slots!Admit(a) \/ Slots!Leave(a)
        BY <1>2, <4>1 DEF Slots!Admit, Slots!Leave
      <4> QED
        BY <4>2 DEF Slots!Next
    <3> QED
      BY <3>1, <3>2, <3>3
  <2> QED
    BY <2>1, <2>2
<1> QED
  BY <1>1, <1>3, Invariance, PTL DEF Spec, ImplementsSlots, Slots!Spec
==============================================================================
