---------------------------- MODULE StartBarrier ----------------------------
(***************************************************************************)
(* The start barrier of testapp_inter.c: forwarding threads count          *)
(* themselves in ready_count under a mutex and the last one signals a      *)
(* condition variable; switch_start waits on it before it starts the       *)
(* packet generators.                                                      *)
(*                                                                         *)
(* switch_start tests ready_count and calls pthread_cond_wait without      *)
(* holding the mutex.  What pthread_cond_wait does then is undefined; the  *)
(* model has what glibc does for a default mutex: it unlocks it whoever    *)
(* holds it, and locks it again on wake-up.                                *)
(***************************************************************************)
EXTENDS Integers, FiniteSets

CONSTANTS Workers,   \* threads running fpga_to_fpga
          Needed     \* the 2 that ready_count is compared with

ASSUME BarrierAssumption ==
    /\ IsFiniteSet(Workers)
    /\ Needed \in Nat

VARIABLES
    ready_count,
    locked,      \* lock word of mutex
    pc,          \* pc[w]: where worker w is
    tmp,         \* tmp[w]: value of ready_count that ready_count++ loaded
    spc          \* where switch_start is

vars == <<ready_count, locked, pc, tmp, spc>>

TypeOK ==
    /\ ready_count \in 0 .. Cardinality(Workers)
    /\ locked \in BOOLEAN
    /\ pc \in [Workers -> {"lock", "load", "store", "test", "signal",
                            "unlock", "forward"}]
    /\ tmp \in [Workers -> 0 .. Cardinality(Workers)]
    /\ spc \in {"test", "wait", "sleep", "woken", "run"}

Init ==
    /\ ready_count = 0
    /\ locked = FALSE
    /\ pc = [w \in Workers |-> "lock"]
    /\ tmp = [w \in Workers |-> 0]
    /\ spc = "test"

-----------------------------------------------------------------------------
\* pthread_mutex_lock
Lock(w) ==
    /\ pc[w] = "lock"
    /\ ~locked
    /\ locked' = TRUE
    /\ pc' = [pc EXCEPT ![w] = "load"]
    /\ UNCHANGED <<ready_count, tmp, spc>>

\* ready_count++ is a load and a store.
Load(w) ==
    /\ pc[w] = "load"
    /\ tmp' = [tmp EXCEPT ![w] = ready_count]
    /\ pc' = [pc EXCEPT ![w] = "store"]
    /\ UNCHANGED <<ready_count, locked, spc>>

\* Wrong variant: the thread counts itself twice.
CountTwice(w) == tmp[w] + 2

Incremented(w) == tmp[w] + 1

Store(w) ==
    /\ pc[w] = "store"
    /\ ready_count' = Incremented(w)
    /\ pc' = [pc EXCEPT ![w] = "test"]
    /\ UNCHANGED <<locked, tmp, spc>>

\* The comparison with 2 uses the value just stored or loads it again.
TestCount(w) ==
    /\ pc[w] = "test"
    /\ \E v \in {Incremented(w), ready_count} :
          pc' = [pc EXCEPT ![w] = IF v = Needed THEN "signal" ELSE "unlock"]
    /\ UNCHANGED <<ready_count, locked, tmp, spc>>

\* pthread_cond_signal: wakes switch_start if it sleeps, is lost otherwise.
Signal(w) ==
    /\ pc[w] = "signal"
    /\ spc' = IF spc = "sleep" THEN "woken" ELSE spc
    /\ pc' = [pc EXCEPT ![w] = "unlock"]
    /\ UNCHANGED <<ready_count, locked, tmp>>

\* Wrong variant: the mutex is not released.
NoUnlock(w) ==
    /\ pc[w] = "unlock"
    /\ pc' = [pc EXCEPT ![w] = "forward"]
    /\ UNCHANGED <<ready_count, locked, tmp, spc>>

\* pthread_mutex_unlock; the thread goes on to sleep(1) and to forward.
Unlock(w) ==
    /\ pc[w] = "unlock"
    /\ locked' = FALSE
    /\ pc' = [pc EXCEPT ![w] = "forward"]
    /\ UNCHANGED <<ready_count, tmp, spc>>

-----------------------------------------------------------------------------
\* Wrong variant: one thread is enough.
OneIsEnough == ready_count >= Needed - 1

AllReady == ready_count >= Needed

\* while (ready_count < 2), tested with or without the mutex.
SwitchTest ==
    /\ spc = "test"
    /\ spc' = IF AllReady THEN "run" ELSE "wait"
    /\ UNCHANGED <<ready_count, locked, pc, tmp>>

\* pthread_cond_wait: unlocks the mutex and sleeps ...
SwitchWait ==
    /\ spc = "wait"
    /\ locked' = FALSE
    /\ spc' = "sleep"
    /\ UNCHANGED <<ready_count, pc, tmp>>

\* ... may wake up without a signal ...
SpuriousWake ==
    /\ spc = "sleep"
    /\ spc' = "woken"
    /\ UNCHANGED <<ready_count, locked, pc, tmp>>

\* ... and locks the mutex before it returns.  switch_start never unlocks it.
SwitchRelock ==
    /\ spc = "woken"
    /\ ~locked
    /\ locked' = TRUE
    /\ spc' = "test"
    /\ UNCHANGED <<ready_count, pc, tmp>>

-----------------------------------------------------------------------------
Worker(w) == \/ Lock(w) \/ Load(w) \/ Store(w) \/ TestCount(w)
             \/ Signal(w) \/ Unlock(w)

Switch == SwitchTest \/ SwitchWait \/ SwitchRelock

Next == (\E w \in Workers : Worker(w)) \/ Switch \/ SpuriousWake

Spec == Init /\ [][Next]_vars

\* Each thread has a core to itself; a spurious wake-up need never come.  A
\* lock that becomes free again and again is obtained in the end.
FairSpec ==
    /\ Spec
    /\ \A w \in Workers : WF_vars(Worker(w)) /\ SF_vars(Lock(w))
    /\ WF_vars(Switch) /\ SF_vars(SwitchRelock)

-----------------------------------------------------------------------------
\* Threads that have counted themselves.
Arrived == {w \in Workers : pc[w] \in {"test", "signal", "unlock", "forward"}}

(***************************************************************************)
(* switch_start starts the generators only when the needed threads have    *)
(* reached the barrier, although it reads ready_count without the mutex    *)
(* and although its pthread_cond_wait can let two increments overlap.      *)
(***************************************************************************)
StartAfterReady == spc = "run" => Cardinality(Arrived) >= Needed

(***************************************************************************)
(* No forwarding thread is held up at the barrier, although switch_start   *)
(* keeps the mutex locked once it has returned from pthread_cond_wait.     *)
(***************************************************************************)
WorkersPass == \A w \in Workers : <>(pc[w] = "forward")

(***************************************************************************)
(* testapp_inter.c:538, 643: when both threads have arrived, the waiting   *)
(* switch_start is woken up and starts.                                    *)
(***************************************************************************)
EventuallyStarts == <>(spc = "run")
=============================================================================
