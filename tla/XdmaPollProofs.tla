--------------------------- MODULE XdmaPollProofs ---------------------------
(***************************************************************************)
(* Polls between the receive calls, for every ring size, polling limit and *)
(* number of packets: they leave the receive path as it is, and what they  *)
(* return is a count of the run the engine is in.                          *)
(***************************************************************************)
EXTENDS XdmaPoll, XdmaRxProofs

\* No receive call is under way during a poll, and the count it has loaded
\* lies between what the driver has handed over and what is written back.
PollInv ==
    /\ ppc \in {"none", "first", "second", "returned"}
    /\ ppc # "none" => pc = "idle"
    /\ ppc \in {"second", "returned"} =>
          /\ poll_old \in Nat
          /\ running => desc_used <= poll_old /\ poll_old <= wb
          /\ ~running => poll_old = 0

-----------------------------------------------------------------------------
(***************************************************************************)
(* Every step is a step of the receive path or leaves it alone.            *)
(***************************************************************************)
LEMMA PollLeavesReceive ==
    [PollNext]_<<vars, pollVars>> => [Next]_vars
  BY DEF PollNext, Thread, Next

(***************************************************************************)
(* The word in memory while the engine runs, and while it does not.        *)
(***************************************************************************)
LEMMA WordBounds ==
    ASSUME IInv
    PROVE  /\ wb \in Nat /\ desc_used \in Nat /\ done \in Nat
           /\ running => desc_used <= wb /\ wb = done
           /\ ~running => wb = 0
<1>1. wb \in Nat /\ desc_used \in Nat /\ done \in Nat
  BY Numbers DEF IInv
<1>. QED  BY <1>1 DEF IInv, RunningInv, StoppedInv

(***************************************************************************)
(* The hardware only counts up, and only a running engine has it count.    *)
(***************************************************************************)
LEMMA HardwareCountsUp ==
    ASSUME IInv, Hardware
    PROVE  /\ wb' \in Nat /\ wb <= wb'
           /\ UNCHANGED <<pc, running, desc_used>>
<1>1. UNCHANGED <<pc, running, desc_used>>
  BY DEF Hardware, HwStore, HwReport, engine, call
<1>2. CASE HwStore
  BY <1>1, <1>2, WordBounds DEF HwStore
<1>3. CASE HwReport
  <2>1. running /\ wb = done
    BY <1>3, WordBounds DEF HwReport, IInv, StoppedInv
  <2>. QED  BY <1>1, <1>3, <2>1, WordBounds DEF HwReport
<1>. QED  BY <1>2, <1>3 DEF Hardware

(***************************************************************************)
(* Every step keeps the invariant.                                         *)
(***************************************************************************)
LEMMA PollInductive ==
    ASSUME IInv, PollInv, [PollNext]_<<vars, pollVars>>  PROVE PollInv'
<1>1. CASE ppc = "none" /\ Driver /\ UNCHANGED pollVars
  BY <1>1 DEF PollInv, pollVars
<1>2. CASE xdma_poll_rx_complete /\ UNCHANGED vars
  <2>1. UNCHANGED <<pc, running, desc_used, wb>>
    BY <1>2 DEF vars, engine, call
  <2>2. CASE PollCall
    BY <2>1, <2>2 DEF PollInv, PollCall
  <2>3. CASE PollFirst
    BY <2>1, <2>3, WordBounds DEF PollInv, PollFirst
  <2>4. CASE PollFound \/ PollMissed \/ PollDone
    BY <2>1, <2>4 DEF PollInv, PollFound, PollMissed, PollDone
  <2>. QED  BY <1>2, <2>2, <2>3, <2>4 DEF xdma_poll_rx_complete
<1>3. CASE Hardware /\ UNCHANGED pollVars
  BY <1>3, HardwareCountsUp, WordBounds DEF PollInv, pollVars
<1>4. CASE UNCHANGED <<vars, pollVars>>
  BY <1>4 DEF PollInv, pollVars, vars, engine, call
<1>. QED  BY <1>1, <1>2, <1>3, <1>4 DEF PollNext, Thread

(***************************************************************************)
(* Both invariants hold in every reachable state.                          *)
(***************************************************************************)
LEMMA PollInvariant == PollSpec => [](IInv /\ PollInv)
<1>1. PollInit => IInv /\ PollInv
  BY InitIInv DEF PollInit, PollInv
<1>2. IInv /\ PollInv /\ [PollNext]_<<vars, pollVars>> => IInv' /\ PollInv'
  BY PollLeavesReceive, NextIInv, PollInductive
<1>. QED  BY <1>1, <1>2, PTL DEF PollSpec

-----------------------------------------------------------------------------
(***************************************************************************)
(* Polls leave the receive path as it is: every theorem of XdmaRxProofs    *)
(* holds with rte_poll_complete called between the receive calls.          *)
(***************************************************************************)
THEOREM PollReceives == PollSpec => Spec
<1>1. PollInit => Init
  BY DEF PollInit
<1>. QED  BY <1>1, PollLeavesReceive, PTL DEF PollSpec, Spec

(***************************************************************************)
(* What xdma_poll_rx_complete returns is a count of this run of the        *)
(* engine, although the copy it works with knows neither desc_used nor     *)
(* whether the engine runs.                                                *)
(***************************************************************************)
THEOREM PollTellsOfRun == PollSpec => []PollWithinRun
<1>1. ASSUME IInv, PollInv, ppc = "returned", running
      PROVE  poll_old \in desc_used .. done
  <2>1. /\ poll_old \in Nat /\ desc_used <= poll_old /\ poll_old <= wb
    BY <1>1 DEF PollInv
  <2>. QED  BY <1>1, <2>1, WordBounds
<1>2. ASSUME IInv, PollInv, ppc = "returned", ~running  PROVE poll_old = 0
  BY <1>2 DEF PollInv
<1>3. IInv /\ PollInv => PollWithinRun
  BY <1>1, <1>2 DEF PollWithinRun
<1>. QED  BY <1>3, PollInvariant, PTL
=============================================================================
