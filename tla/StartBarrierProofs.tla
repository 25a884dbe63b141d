------------------------- MODULE StartBarrierProofs -------------------------
(***************************************************************************)
(* StartAfterReady for any set of forwarding threads.  ready_count alone   *)
(* says nothing of who has arrived when increments overlap, as they can    *)
(* here, so the inductive invariant bounds both the counter and the value  *)
(* each thread has loaded from it by the number of threads that have       *)
(* stored theirs.                                                          *)
(***************************************************************************)
EXTENDS StartBarrier, FiniteSetTheorems, TLAPS

CountBound ==
    /\ ready_count <= Cardinality(Arrived)
    /\ \A w \in Workers : tmp[w] <= Cardinality(Arrived)

IInv == TypeOK /\ CountBound /\ StartAfterReady

(***************************************************************************)
(* The threads that have arrived are a finite set no larger than Workers.  *)
(***************************************************************************)
LEMMA ArrivedFinite ==
    /\ IsFiniteSet(Arrived)
    /\ Cardinality(Arrived) \in Nat
    /\ Cardinality(Workers) \in Nat
    /\ Cardinality(Arrived) <= Cardinality(Workers)
<1>1. Arrived \subseteq Workers
  BY DEF Arrived
<1>2. IsFiniteSet(Workers)
  BY BarrierAssumption
<1> QED
  BY <1>1, <1>2, FS_Subset, FS_CardinalityType

(***************************************************************************)
(* A step of any thread but a Store leaves the set of arrived threads as   *)
(* it is: the barrier is passed by storing the increment only.             *)
(***************************************************************************)
LEMMA ArrivedOnlyByStore ==
    ASSUME TypeOK, [Next]_vars, \A w \in Workers : ~Store(w)
    PROVE  Arrived' = Arrived
<1> USE DEF TypeOK, Arrived
<1>1. ASSUME NEW w \in Workers, Worker(w)
      PROVE  Arrived' = Arrived
  BY <1>1 DEF Worker, Lock, Load, TestCount, Signal, Unlock
<1>2. CASE Switch \/ SpuriousWake
  BY <1>2 DEF Switch, SwitchTest, SwitchWait, SwitchRelock, SpuriousWake
<1>3. CASE UNCHANGED vars
  BY <1>3 DEF vars
<1> QED
  BY <1>1, <1>2, <1>3 DEF Next

(***************************************************************************)
(* A Store adds exactly the storing thread to those that have arrived.     *)
(***************************************************************************)
LEMMA StoreArrives ==
    ASSUME TypeOK, NEW w \in Workers, Store(w)
    PROVE  Cardinality(Arrived') = Cardinality(Arrived) + 1
<1>1. w \notin Arrived
  BY DEF Store, Arrived
<1>2. Arrived' = Arrived \cup {w}
  BY DEF Store, Arrived, TypeOK
<1> QED
  BY <1>1, <1>2, ArrivedFinite, FS_AddElement

(***************************************************************************)
(* The invariant holds initially: nobody has arrived and nothing is        *)
(* counted.                                                                *)
(***************************************************************************)
LEMMA InitIInv == Init => IInv
<1> SUFFICES ASSUME Init PROVE IInv
  OBVIOUS
<1>1. /\ Cardinality(Arrived) \in Nat
      /\ Cardinality(Workers) \in Nat
  BY ArrivedFinite
<1>2. TypeOK
  <2>1. ready_count \in 0 .. Cardinality(Workers)
    BY <1>1 DEF Init
  <2>2. locked \in BOOLEAN
    BY DEF Init
  <2>3. pc \in [Workers -> {"lock", "load", "store", "test", "signal",
                            "unlock", "forward"}]
    BY DEF Init
  <2>4. tmp \in [Workers -> 0 .. Cardinality(Workers)]
    BY <1>1 DEF Init
  <2> QED
    BY <2>1, <2>2, <2>3, <2>4 DEF Init, TypeOK
<1>3. CountBound
  BY <1>1 DEF Init, CountBound
<1>4. StartAfterReady
  BY DEF Init, StartAfterReady
<1> QED
  BY <1>2, <1>3, <1>4 DEF IInv

(***************************************************************************)
(* Every step of a thread or of switch_start preserves the invariant.      *)
(***************************************************************************)
LEMMA NextIInv == IInv /\ [Next]_vars => IInv'
<1> SUFFICES ASSUME IInv, [Next]_vars PROVE IInv'
  OBVIOUS
<1> USE DEF IInv, CountBound, StartAfterReady
<1>1. /\ Cardinality(Arrived) \in Nat
      /\ Cardinality(Workers) \in Nat
      /\ Cardinality(Arrived) <= Cardinality(Workers)
  BY ArrivedFinite
<1>2. Needed \in Nat
  BY BarrierAssumption
<1>3. ASSUME NEW w \in Workers, Store(w) PROVE IInv'
  <2>1. Cardinality(Arrived') = Cardinality(Arrived) + 1
    BY <1>3, StoreArrives
  <2>2. Cardinality(Arrived') <= Cardinality(Workers)
    <3>1. Arrived' \subseteq Workers
      BY DEF Arrived
    <3> QED
      BY <3>1, BarrierAssumption, FS_Subset, FS_CardinalityType
  <2>3. TypeOK'
    BY <1>1, <1>3, <2>1, <2>2 DEF Store, Incremented, TypeOK
  <2>4. CountBound'
    BY <1>1, <1>3, <2>1 DEF Store, Incremented, TypeOK
  <2>5. StartAfterReady'
    BY <1>1, <1>2, <1>3, <2>1 DEF Store
  <2> QED
    BY <2>3, <2>4, <2>5
<1>4. ASSUME \A w \in Workers : ~Store(w) PROVE IInv'
  <2>1. Arrived' = Arrived
    BY <1>4, ArrivedOnlyByStore
  <2>2. ASSUME NEW w \in Workers, Worker(w) PROVE IInv'
    <3>1. CASE Lock(w)
      BY <1>1, <2>1, <3>1 DEF Lock, TypeOK
    <3>2. CASE Load(w)
      BY <1>1, <2>1, <3>2 DEF Load, TypeOK
    <3>3. CASE TestCount(w)
      BY <1>1, <2>1, <3>3 DEF TestCount, TypeOK
    <3>4. CASE Signal(w)
      BY <1>1, <2>1, <3>4 DEF Signal, TypeOK
    <3>5. CASE Unlock(w)
      BY <1>1, <2>1, <3>5 DEF Unlock, TypeOK
    <3> QED
      BY <1>4, <2>2, <3>1, <3>2, <3>3, <3>4, <3>5 DEF Worker
  <2>3. CASE SwitchTest
    BY <1>1, <1>2, <2>1, <2>3 DEF SwitchTest, AllReady, TypeOK
  <2>4. CASE SwitchWait
    BY <2>1, <2>4 DEF SwitchWait, TypeOK
  <2>5. CASE SwitchRelock
    BY <2>1, <2>5 DEF SwitchRelock, TypeOK
  <2>6. CASE SpuriousWake
    BY <2>1, <2>6 DEF SpuriousWake, TypeOK
  <2>7. CASE UNCHANGED vars
    BY <2>1, <2>7 DEF vars, TypeOK
  <2> QED
    BY <2>2, <2>3, <2>4, <2>5, <2>6, <2>7 DEF Next, Switch
<1> QED
  BY <1>3, <1>4

(***************************************************************************)
(* Type correctness of the barrier, for any number of threads.             *)
(***************************************************************************)
THEOREM BarrierTyped == Spec => []TypeOK
<1>1. IInv => TypeOK
  BY DEF IInv
<1> QED
  BY <1>1, InitIInv, NextIInv, PTL DEF Spec

(***************************************************************************)
(* switch_start passes the barrier only after Needed threads have reached  *)
(* it, for any number of threads, any interleaving and any number of       *)
(* spurious wake-ups.                                                      *)
(***************************************************************************)
THEOREM BarrierSafe == Spec => []StartAfterReady
<1>1. IInv => StartAfterReady
  BY DEF IInv
<1> QED
  BY <1>1, InitIInv, NextIInv, PTL DEF Spec

-----------------------------------------------------------------------------
\* Threads between the lock and the unlock of the mutex.
Inside == {w \in Workers : pc[w] \in {"load", "store", "test", "signal",
                                      "unlock"}}

\* A locked mutex has a holder: a thread, or switch_start, which has locked
\* it on wake-up and unlocks it in its next wait only.
MutexHeld == locked => Inside # {} \/ spc \in {"test", "wait", "run"}

(***************************************************************************)
(* A thread that finds the mutex locked finds it locked by a thread that   *)
(* will unlock it or by switch_start on its way to the next wait, never by *)
(* the switch_start that has gone on and keeps it.                         *)
(***************************************************************************)
NobodyLockedOut ==
    (\E w \in Workers : pc[w] = "lock") /\ locked =>
        Inside # {} \/ spc \in {"test", "wait"}

(***************************************************************************)
(* Whoever holds the mutex is in one of these places.                      *)
(***************************************************************************)
LEMMA MutexHeldHolds == Spec => []MutexHeld
<1>1. Init => MutexHeld
  BY DEF Init, MutexHeld
<1>2. TypeOK /\ MutexHeld /\ [Next]_vars => MutexHeld'
  <2> SUFFICES ASSUME TypeOK, MutexHeld, [Next]_vars, locked'
               PROVE  Inside' # {} \/ spc' \in {"test", "wait", "run"}
    BY DEF MutexHeld
  <2>1. ASSUME NEW w \in Workers, Worker(w)
        PROVE  Inside' # {}
    <3>1. pc'[w] \in {"load", "store", "test", "signal", "unlock"}
      BY <2>1 DEF Worker, Lock, Load, Store, TestCount, Signal, Unlock, TypeOK
    <3> QED
      BY <3>1 DEF Inside
  <2>2. CASE Switch
    <3>1. SwitchTest => spc' \in {"test", "wait", "run"}
      BY DEF SwitchTest
    <3>2. ~SwitchWait
      BY DEF SwitchWait
    <3>3. SwitchRelock => spc' = "test"
      BY DEF SwitchRelock
    <3> QED
      BY <2>2, <3>1, <3>2, <3>3 DEF Switch
  <2>3. CASE SpuriousWake
    <3>1. Inside # {} /\ Inside' = Inside
      BY <2>3 DEF SpuriousWake, MutexHeld, Inside
    <3> QED
      BY <3>1
  <2>4. CASE UNCHANGED vars
    BY <2>4 DEF vars, MutexHeld, Inside
  <2> QED
    BY <2>1, <2>2, <2>3, <2>4 DEF Next
<1> QED
  BY <1>1, <1>2, BarrierTyped, PTL DEF Spec

(***************************************************************************)
(* As long as switch_start waits for no fewer threads than there are, no   *)
(* thread is left at the mutex that switch_start never unlocks: the        *)
(* safety half of WorkersPass.                                             *)
(***************************************************************************)
THEOREM BarrierLocksNobodyOut ==
    ASSUME Needed >= Cardinality(Workers)  PROVE Spec => []NobodyLockedOut
<1>1. ASSUME StartAfterReady, spc = "run"
      PROVE  \A w \in Workers : pc[w] # "lock"
  <2>1. Arrived \subseteq Workers /\ IsFiniteSet(Workers)
    BY BarrierAssumption DEF Arrived
  <2>2. Cardinality(Arrived) = Cardinality(Workers)
    BY <1>1, ArrivedFinite, BarrierAssumption DEF StartAfterReady
  <2>3. Arrived = Workers
    BY <2>1, <2>2, FS_Subset
  <2> QED
    BY <2>3 DEF Arrived
<1>2. StartAfterReady /\ MutexHeld => NobodyLockedOut
  BY <1>1 DEF MutexHeld, NobodyLockedOut
<1> QED
  BY <1>2, BarrierSafe, MutexHeldHolds, PTL
=============================================================================
