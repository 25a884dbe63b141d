-------------------------- MODULE ForwarderProofs ---------------------------
(***************************************************************************)
(* The forwarder for every ring size, polling limit and number of packets: *)
(* its receive side keeps what XdmaRxProofs proves, the index the thread   *)
(* keeps by adding up counts is the driver's desc_used whenever it         *)
(* matters, and what leaves through the second port is what came in        *)
(* through the first, full batches included.                               *)
(***************************************************************************)
EXTENDS Forwarder, XdmaRxProofs

\* Where the thread is in the receive call, the index and what the call has
\* found, and the burst it passes on.
IndexInv ==
    /\ fpc = "recv" <=> pc # "idle"
    /\ pc \in {"poll", "test", "prep"} => pkts_buffer_idx = desc_used
    /\ pc = "check" => pkts_buffer_idx + nb_cmpt = desc_used
    /\ fpc \in {"call", "next"} => pkts_buffer_idx = desc_used
    /\ fpc \in {"got", "send", "exit"} =>
          \/ pkts_buffer_idx + ret = desc_used /\ desc_used < NbPkts
          \/ pkts_buffer_idx + ret = NbPkts /\ desc_used = 0
    /\ fpc = "send" => Len(t_burst) = ret

\* The types of the thread's own variables.
IndexTyped ==
    /\ fpc \in {"call", "recv", "got", "send", "next", "end", "exit"}
    /\ ret \in Nat /\ ret < 65536
    /\ pkts_buffer_idx \in Idx

FwdInv == IInv /\ IndexTyped /\ IndexInv

-----------------------------------------------------------------------------
(***************************************************************************)
(* Every step of the forwarder is a step of the receive path or leaves it  *)
(* alone.                                                                  *)
(***************************************************************************)
LEMMA ReceiveSide == [FwdNext]_fwdVars => [Next]_vars
BY DEF FwdNext, Thread, FwdRecv, FwdRecvStep, FwdRecvReturn, FwdTestBit,
       FwdNothing, FwdSend, FwdSendStep, FwdSendReturn, FwdLoop, FwdRxHardware,
       FwdTxHardware, fwdVars, Next, Driver, Hardware

(***************************************************************************)
(* What the receive path's invariant bounds.                               *)
(***************************************************************************)
LEMMA IndexBounds ==
    ASSUME IInv
    PROVE  /\ DescMax \in Nat /\ DescMax > 0
           /\ NbPkts = DescMax /\ DescMax < 65536
           /\ desc_used \in Nat /\ desc_used <= DescMax
           /\ pc = "prep" => old \in Nat /\ desc_used <= old /\ old <= DescMax
           /\ pc \in {"poll", "test"} => nb_cmpt = 0
           /\ pc # "idle" => nb_pkts = NbPkts
           /\ nb_cmpt \in Nat
<1>1. /\ DescMax \in Nat /\ DescMax > 0 /\ NbPkts = DescMax /\ DescMax < 65536
  BY DescMaxAssumption, RxAssumption
<1>2. /\ desc_used \in Nat /\ done \in Nat /\ old \in Nat /\ wb \in Nat
      /\ nb_cmpt \in Nat
  BY DEF IInv, TypeOK, EngineTyped, DmaTyped, CallTyped, HostTyped
<1>3. hw \in {"off", "fetch", "report", "halt"}
  BY DEF IInv, TypeOK, DmaTyped
<1>4. running => wb <= DescMax /\ desc_used <= wb
  BY <1>1, <1>2, <1>3 DEF IInv, RunningInv
<1>5. ~running => desc_used = 0 /\ pc = "idle"
  BY DEF IInv, StoppedInv
<1>6. running \in BOOLEAN
  BY DEF IInv, TypeOK, EngineTyped
<1>7. /\ pc = "prep" => desc_used <= old /\ old <= wb
      /\ pc # "idle" => nb_pkts = NbPkts
      /\ pc \in {"poll", "test"} => nb_cmpt = 0
  BY DEF IInv, CallInv, CountInv
<1>. QED  BY <1>1, <1>2, <1>4, <1>5, <1>6, <1>7

(***************************************************************************)
(* The thread calls xdma_recv_pkts_poll: the call starts from the index    *)
(* the driver holds.                                                       *)
(***************************************************************************)
LEMMA RecvPreserves ==
    ASSUME FwdInv, FwdRecv  PROVE IndexTyped' /\ IndexInv'
<1>1. /\ pc' = "poll" /\ fpc = "call" /\ fpc' = "recv"
      /\ UNCHANGED <<ret, pkts_buffer_idx, t_burst>>
  BY DEF FwdRecv, RecvStart, RecvResume, CallFrame, txVars
<1>2. desc_used' = desc_used
  <2>1. CASE RecvResume
    BY <2>1 DEF RecvResume, engine
  <2>2. CASE RecvStart
    <3>1. desc_used = 0
      BY <2>2 DEF RecvStart, FwdInv, IInv, StoppedInv
    <3>2. ring \in [Idx -> Desc]
      BY DEF FwdInv, IInv, TypeOK, EngineTyped
    <3>. QED  BY <2>2, <3>1, <3>2, StartFillsRing DEF RecvStart
  <2>. QED  BY <2>1, <2>2 DEF FwdRecv
<1>3. IndexTyped'
  BY <1>1 DEF FwdInv, IndexTyped
<1>4. IndexInv'
  BY <1>1, <1>2 DEF FwdInv, IndexInv
<1>. QED  BY <1>3, <1>4

(***************************************************************************)
(* A step inside the call moves desc_used and the count of packets found   *)
(* together, so their difference stays the index the call began with.      *)
(***************************************************************************)
LEMMA RecvStepPreserves ==
    ASSUME FwdInv, FwdRecvStep  PROVE IndexTyped' /\ IndexInv'
<1>. USE DEF FwdInv
<1>1. fpc = "recv" /\ UNCHANGED <<fpc, ret, pkts_buffer_idx, t_burst>>
  BY DEF FwdRecvStep, txVars
<1>2. IndexTyped'
  BY <1>1 DEF IndexTyped
<1>3. CASE PollRead \/ PollHit \/ PreparePacket
  BY <1>1, <1>2, <1>3 DEF IndexInv, PollRead, PollHit, PreparePacket, engine
<1>4. CASE PollMiss
  <2>1. /\ nb_cmpt' = 0 /\ desc_used' = desc_used /\ pc = "test"
        /\ pc' \in {"poll", "check"}
    BY <1>4, IndexBounds DEF PollMiss, engine
  <2>. QED  BY <1>1, <1>2, <2>1, IndexBounds DEF IndexInv
<1>5. CASE PrepareDone
  <2>1. /\ pc = "prep" /\ pc' = "check" /\ desc_used' = old
        /\ nb_cmpt' = (old - desc_used) % 65536
    BY <1>5 DEF PrepareDone, CompletedNow
  <2>2. old - desc_used \in 0 .. DescMax /\ old \in Nat /\ desc_used \in Nat
    BY <2>1, IndexBounds
  <2>3. nb_cmpt' = old - desc_used
    BY <2>1, <2>2, CountRemainder
  <2>. QED  BY <1>1, <1>2, <2>1, <2>2, <2>3 DEF IndexInv
<1>. QED  BY <1>3, <1>4, <1>5 DEF FwdRecvStep

(***************************************************************************)
(* The call returns: what it found is what desc_used moved by, or the      *)
(* engine completed the burst and was stopped, which put desc_used back to *)
(* 0 when index and count reach the burst size.                            *)
(***************************************************************************)
LEMMA RecvReturnPreserves ==
    ASSUME FwdInv, FwdRecvReturn  PROVE IndexTyped' /\ IndexInv'
<1>. USE DEF FwdInv
<1>1. /\ fpc = "recv" /\ fpc' = "got" /\ pc = "check" /\ pc' = "idle"
      /\ ret' = nb_cmpt
      /\ UNCHANGED pkts_buffer_idx
  BY DEF FwdRecvReturn, RecvStop, RecvReturn
<1>2. /\ pkts_buffer_idx + nb_cmpt = desc_used /\ nb_pkts = NbPkts
      /\ desc_used <= NbPkts
      /\ desc_used \in Nat /\ nb_cmpt \in Nat /\ nb_cmpt < 65536
      /\ NbPkts \in Nat
  <2>1. nb_cmpt < 65536
    BY DEF IInv, TypeOK, CallTyped
  <2>2. nb_cmpt \in Nat /\ nb_cmpt < 65536
    BY <2>1, IndexBounds
  <2>3. pkts_buffer_idx + nb_cmpt = desc_used
    BY <1>1 DEF IndexInv
  <2>. QED  BY <1>1, <2>2, <2>3, IndexBounds
<1>3. CASE RecvStop
  <2>1. desc_used' = 0 /\ desc_used = NbPkts
    BY <1>2, <1>3 DEF RecvStop, xdma_rx_engine_stop, BatchComplete
  <2>2. IndexInv'
    BY <1>1, <1>2, <2>1 DEF IndexInv
  <2>3. IndexTyped'
    BY <1>1, <1>2 DEF IndexTyped
  <2>. QED  BY <2>2, <2>3
<1>4. CASE RecvReturn
  <2>1. desc_used' = desc_used /\ desc_used # NbPkts
    BY <1>2, <1>4 DEF RecvReturn, BatchComplete, engine
  <2>2. IndexInv'
    BY <1>1, <1>2, <2>1 DEF IndexInv
  <2>3. IndexTyped'
    BY <1>1, <1>2 DEF IndexTyped
  <2>. QED  BY <2>2, <2>3
<1>. QED  BY <1>3, <1>4 DEF FwdRecvReturn

(***************************************************************************)
(* The thread goes round without a packet, ends the program on a test bit, *)
(* hands its batch to the sender, waits in the send call, or starts its    *)
(* next turn: index and desc_used stay.                                    *)
(***************************************************************************)
LEMMA SendPreserves ==
    ASSUME FwdInv,
           FwdTestBit \/ FwdNothing \/ FwdSend \/ FwdSendStep \/ FwdLoop
    PROVE  IndexTyped' /\ IndexInv'
<1>. USE DEF FwdInv
<1>1. /\ pc' = pc /\ desc_used' = desc_used /\ nb_cmpt' = nb_cmpt
      /\ UNCHANGED <<ret, pkts_buffer_idx>>
  BY DEF FwdTestBit, FwdNothing, FwdSend, FwdSendStep, FwdLoop, vars, engine,
         call
<1>2. /\ NbPkts = DescMax /\ pkts_buffer_idx \in Nat
      /\ pkts_buffer_idx < NbPkts /\ ret \in Nat
      /\ desc_used \in Nat
  BY IndexBounds DEF IndexTyped, Idx
<1>3. CASE FwdNothing
  BY <1>1, <1>2, <1>3 DEF FwdNothing, IndexTyped, IndexInv
<1>4. CASE FwdSend
  <2>1. fpc = "got" /\ fpc' = "send" /\ Len(t_burst') = ret
    BY <1>2, <1>4 DEF FwdSend, Tx!XmitEnter
  <2>2. IndexInv'
    BY <1>1, <2>1 DEF IndexInv
  <2>3. IndexTyped'
    BY <1>1, <2>1 DEF IndexTyped
  <2>. QED  BY <2>2, <2>3
<1>5. CASE FwdSendStep
  <2>1. fpc = "send" /\ UNCHANGED <<fpc, t_burst>>
    BY <1>5 DEF FwdSendStep, Tx!PostPacket, Tx!XmitStart
  <2>2. IndexInv'
    BY <1>1, <2>1 DEF IndexInv
  <2>3. IndexTyped'
    BY <1>1, <2>1 DEF IndexTyped
  <2>. QED  BY <2>2, <2>3
<1>6. CASE FwdLoop
  <2>1. fpc = "next" /\ fpc' \in {"call", "end"} /\ t_burst' = t_burst
    BY <1>6 DEF FwdLoop, txVars
  <2>2. IndexInv'
    BY <1>1, <2>1 DEF IndexInv
  <2>3. IndexTyped'
    BY <1>1, <2>1 DEF IndexTyped
  <2>. QED  BY <2>2, <2>3
<1>7. CASE FwdTestBit
  <2>1. fpc = "got" /\ fpc' = "exit" /\ t_burst' = t_burst
    BY <1>7 DEF FwdTestBit, txVars
  <2>2. IndexInv'
    BY <1>1, <2>1 DEF IndexInv
  <2>3. IndexTyped'
    BY <1>1, <2>1 DEF IndexTyped
  <2>. QED  BY <2>2, <2>3
<1>. QED  BY <1>3, <1>4, <1>5, <1>6, <1>7

(***************************************************************************)
(* The send call returns and the thread adds the batch to its index,       *)
(* modulo the burst size: index and desc_used meet again.                  *)
(***************************************************************************)
LEMMA SendReturnPreserves ==
    ASSUME FwdInv, FwdSendReturn  PROVE IndexTyped' /\ IndexInv'
<1>. USE DEF FwdInv
<1>1. /\ fpc = "send" /\ fpc' = "next" /\ Len(t_burst) = ret /\ ret' = ret
      /\ pkts_buffer_idx' = (pkts_buffer_idx + ret) % NbPkts
      /\ pc' = pc /\ desc_used' = desc_used
  BY DEF FwdSendReturn, NextIndex, IndexInv, vars, engine, call
<1>2. NbPkts = DescMax /\ desc_used \in Nat
  BY IndexBounds
<1>3. \/ pkts_buffer_idx + ret = desc_used /\ desc_used \in Idx
      \/ pkts_buffer_idx + ret = DescMax /\ desc_used = 0
  BY <1>1, <1>2, IndexBounds DEF IndexInv, Idx
<1>4. pkts_buffer_idx' = desc_used
  BY <1>1, <1>2, <1>3, RingRemainder
<1>5. desc_used \in Idx
  BY <1>3, DescMaxAssumption DEF Idx
<1>. QED  BY <1>1, <1>4, <1>5 DEF IndexTyped, IndexInv

(***************************************************************************)
(* Neither engine touches what the invariant speaks of.                    *)
(***************************************************************************)
LEMMA HardwarePreserves ==
    ASSUME FwdInv, FwdRxHardware \/ FwdTxHardware \/ UNCHANGED fwdVars
    PROVE  IndexTyped' /\ IndexInv'
<1>1. /\ UNCHANGED <<pc, desc_used, nb_cmpt, fpc, ret, pkts_buffer_idx,
                     t_burst>>
  BY DEF FwdRxHardware, FwdTxHardware, HwStore, HwReport, Tx!HwSend,
         Tx!HwReport, Tx!HwBlank, Tx!call, fwdVars, txVars, vars, engine, call
<1>. QED  BY <1>1 DEF FwdInv, IndexTyped, IndexInv

(***************************************************************************)
(* Every step of the forwarder keeps the invariant.                        *)
(***************************************************************************)
LEMMA FwdInductive ==
    ASSUME FwdInv, [FwdNext]_fwdVars  PROVE FwdInv'
<1>1. IInv'
  BY ReceiveSide, NextIInv DEF FwdInv
<1>2. IndexTyped' /\ IndexInv'
  BY RecvPreserves, RecvStepPreserves, RecvReturnPreserves, SendPreserves,
     SendReturnPreserves, HardwarePreserves
  DEF FwdNext, Thread
<1>. QED  BY <1>1, <1>2 DEF FwdInv

(***************************************************************************)
(* The invariant holds in every reachable state.                           *)
(***************************************************************************)
LEMMA FwdInvariant == FwdSpec => []FwdInv
<1>1. FwdInit => FwdInv
  BY InitIInv, DescMaxAssumption
  DEF FwdInit, Init, FwdInv, IndexTyped, IndexInv, Idx
<1>2. FwdInv /\ [FwdNext]_fwdVars => FwdInv'
  BY FwdInductive
<1>. QED  BY <1>1, <1>2, PTL DEF FwdSpec

-----------------------------------------------------------------------------
(***************************************************************************)
(* The forwarder keeps its types: its return value fits the uint16_t it    *)
(* has in testapp_count.c, and its index is one of the ring.               *)
(***************************************************************************)
THEOREM FwdTyped == FwdSpec => []FwdTypeOK
<1>1. FwdInv => FwdTypeOK
  BY DEF FwdInv, IInv, IndexTyped, FwdTypeOK
<1>. QED  BY <1>1, FwdInvariant, PTL

(***************************************************************************)
(* Between two receive calls pkts_buffer_idx, which forward_app counts up  *)
(* from the results, is the driver's own desc_used: the packets sent are   *)
(* the ones the call found.                                                *)
(***************************************************************************)
THEOREM FwdIndexInStep == FwdSpec => []IndexInStep
<1>1. FwdInv => IndexInStep
  BY IndexBounds DEF FwdInv, IndexInv, IndexTyped, IndexInStep, Idx
<1>. QED  BY <1>1, FwdInvariant, PTL

(***************************************************************************)
(* The forwarder never drives the receive path in a way its own            *)
(* specification forbids, so every theorem of XdmaRxProofs holds of it.    *)
(***************************************************************************)
THEOREM FwdReceives == FwdSpec => Spec
<1>1. FwdInit => Init
  BY DEF FwdInit
<1>. QED  BY <1>1, ReceiveSide, PTL DEF FwdSpec, Spec

-----------------------------------------------------------------------------
(***************************************************************************)
(* From end to end.  The send call reads the mbufs of a batch while the    *)
(* receive engine fills those behind it; the invariant follows a packet    *)
(* from its mbuf over the descriptors of the send call onto the wire.      *)
(***************************************************************************)

\* What the transmit side's variables range over.
SendTyped ==
    /\ t_pc \in {"idle", "post", "wait"}
    /\ t_hw \in {"off", "fetch", "report", "halt"}
    /\ t_ring \in [Idx -> Desc]
    /\ t_count \in Nat /\ t_done \in Nat /\ t_cur \in Nat /\ t_wb \in Nat
    /\ wire \in Seq(Nat)
    /\ t_posted \in Nat

\* How far the send call is with the batch.
SendInv ==
    /\ fpc = "send" <=> t_pc # "idle"
    /\ t_pc = "idle" => t_desc_used = 0
    /\ t_pc # "idle" =>
          /\ t_burst = [i \in 1 .. ret |-> 1]
          /\ t_count <= ret
          /\ t_count < DescMax => t_desc_used = t_count
          /\ t_count = DescMax => t_desc_used = 0
          /\ t_avail = DescMax - t_count
          /\ t_seg = pkts_buffer_idx + t_count
    /\ t_pc = "wait" => t_count = ret

\* A descriptor that sends its part of the batch, and one that is not used.
Sends(i) == /\ t_ring[i].buf = pkts_buffer_idx + i
            /\ "COMPLETED" \in t_ring[i].flags
            /\ i # DescMax - 1 => "STOPPED" \notin t_ring[i].flags
Unused(i) == /\ t_ring[i].buf = NoBuf
             /\ i # DescMax - 1 => t_ring[i].flags = {}

SendRingInv ==
    /\ t_pc = "idle" => \A i \in Idx : Unused(i)
    /\ t_pc = "post" => \A i \in Idx : IF i < t_count THEN Sends(i)
                                                      ELSE Unused(i)
    /\ t_pc = "wait" =>
          /\ "STOPPED" \in t_ring[t_desc_used].flags
          /\ t_count < DescMax => /\ \A i \in Idx : i < t_count => Sends(i)
                                  /\ t_ring[t_count].buf = NoBuf
          /\ t_count = DescMax =>
                /\ t_ring[0].buf = pkts_buffer_idx
                /\ "COMPLETED" \in t_ring[0].flags

\* What the hardware sends of the batch: of one as long as the ring, whose
\* terminator has come to lie on its first descriptor, one packet.
Limit == IF t_count < DescMax THEN t_count ELSE 1

SendHwInv ==
    /\ t_hw = "off" <=> t_pc # "wait"
    /\ t_pc # "wait" => t_wb = 0
    /\ t_pc = "wait" =>
          /\ t_wb = t_done
          /\ t_hw = "fetch" => /\ t_cur = t_done /\ t_done <= Limit
                               /\ t_done = Limit => t_count < DescMax
          /\ t_hw = "report" => t_cur = t_done /\ t_done < Limit
          /\ t_hw = "halt" => t_done = Limit

\* The packets returned to the thread and not sent yet.
SentNow ==
    IF t_pc = "wait" THEN (IF t_hw = "report" THEN t_done + 1 ELSE t_done)
                     ELSE 0
Unsent == IF fpc \in {"got", "exit"} THEN ret
          ELSE IF fpc = "send" THEN ret - SentNow ELSE 0

\* They are the last ones returned, in the mbufs from the index on, and the
\* receive engine does not write there.
BatchInv ==
    /\ Len(wire) = returned - Unsent
    /\ fpc \in {"got", "send", "exit"} =>
          /\ ret > 0 /\ desc_used = 0 => ~running
          /\ \A i \in Idx :
                pkts_buffer_idx <= i /\ i < pkts_buffer_idx + ret =>
                    mb[i].pkt = returned - ret + (i - pkts_buffer_idx) + 1

FifoInv == /\ FwdInv /\ SendTyped /\ SendInv /\ SendRingInv
           /\ SendHwInv /\ BatchInv

-----------------------------------------------------------------------------
(***************************************************************************)
(* What the receive side's invariant says of the engine and the packets.   *)
(***************************************************************************)
LEMMA ReceiveFacts ==
    ASSUME FwdInv
    PROVE  /\ DescMax \in Nat /\ DescMax > 0 /\ NbPkts = DescMax
           /\ Len(delivered) \in Nat /\ returned \in Nat /\ rcvd \in Nat
           /\ desc_used \in Nat /\ ret \in Nat /\ pkts_buffer_idx \in Nat
           /\ Landed \in Nat /\ Handed \in Nat
           /\ fpc # "recv" => pc = "idle"
           /\ pc = "idle" => returned = Len(delivered) /\ Handed = desc_used
           /\ ~running => hw = "off" /\ desc_used = 0
           /\ hw = "off" => Landed = 0 /\ ~running
           /\ Handed <= Landed /\ desc_used <= Landed /\ Landed <= DescMax
           /\ Len(delivered) = rcvd - Landed + Handed
           /\ hw = "fetch" => /\ running /\ Landed = done
                              /\ done < DescMax /\ cur = done
                              /\ ring[cur].buf = cur
<1>1. /\ DescMax \in Nat /\ DescMax > 0 /\ NbPkts = DescMax
      /\ desc_used \in Nat /\ ret \in Nat /\ pkts_buffer_idx \in Nat
  BY IndexBounds DEF FwdInv, IndexTyped, Idx
<1>2. /\ Len(delivered) \in Nat /\ returned \in Nat /\ rcvd \in Nat
      /\ done \in Nat /\ id \in Nat /\ wb \in Nat /\ old \in Nat
  BY Numbers DEF FwdInv, IInv
<1>3. hw \in {"off", "fetch", "report", "halt"} /\ running \in BOOLEAN
  BY DEF FwdInv, IInv, TypeOK, DmaTyped, EngineTyped
<1>4. /\ fpc # "recv" => pc = "idle"
      /\ pc = "idle" => returned = Len(delivered)
      /\ pc = "prep" => desc_used <= id /\ id <= old /\ old <= wb
      /\ Len(delivered) = rcvd - Landed + Handed
  BY DEF FwdInv, IndexInv, IInv, CountInv, CallInv, OrderInv
<1>5. ~running => hw = "off" /\ desc_used = 0 /\ pc = "idle"
  BY DEF FwdInv, IInv, StoppedInv
<1>6. running => /\ hw # "off" /\ wb = done /\ desc_used <= wb
                 /\ hw \in {"fetch", "report"} =>
                       cur = done /\ done < DescMax
                 /\ hw = "halt" => done = DescMax
                 /\ \A i \in Idx : ring[i].buf = i
  BY DEF FwdInv, IInv, RunningInv
<1>7. /\ Landed \in Nat /\ Landed <= DescMax
      /\ hw = "off" => Landed = 0
      /\ running => wb <= Landed
      /\ hw = "fetch" => Landed = done
  BY <1>1, <1>2, <1>3, <1>5, <1>6 DEF Landed
<1>8. /\ Handed \in Nat /\ Handed <= Landed
      /\ pc # "prep" => Handed = desc_used
  BY <1>1, <1>2, <1>3, <1>4, <1>5, <1>6, <1>7 DEF Handed
<1>9. desc_used <= Landed
  BY <1>1, <1>2, <1>3, <1>5, <1>6, <1>7
<1>10. hw = "fetch" => /\ running /\ Landed = done
                       /\ done < DescMax /\ cur = done
                       /\ ring[cur].buf = cur
  <2>1. hw = "fetch" => running /\ cur = done /\ done < DescMax
    BY <1>3, <1>5, <1>6
  <2>2. hw = "fetch" => cur \in Idx
    BY <1>1, <1>2, <2>1 DEF Idx
  <2>. QED  BY <1>6, <1>7, <2>1, <2>2
<1>. QED  BY <1>1, <1>2, <1>3, <1>4, <1>5, <1>6, <1>7, <1>8, <1>9, <1>10

(***************************************************************************)
(* A batch lies inside the array, and in front of what the receive engine  *)
(* works on: behind it when the engine runs, anywhere when it is stopped.  *)
(***************************************************************************)
LEMMA BatchPlace ==
    ASSUME FifoInv, fpc \in {"got", "send", "exit"}
    PROVE  /\ pkts_buffer_idx + ret <= DescMax
           /\ running => pkts_buffer_idx + ret <= Landed \/ ret = 0
<1>1. \/ pkts_buffer_idx + ret = desc_used /\ desc_used < NbPkts
      \/ pkts_buffer_idx + ret = NbPkts /\ desc_used = 0
  BY DEF FifoInv, FwdInv, IndexInv
<1>2. ret > 0 /\ desc_used = 0 => ~running
  BY DEF FifoInv, BatchInv
<1>. QED  BY <1>1, <1>2, ReceiveFacts DEF FifoInv

(***************************************************************************)
(* The numbers of the batch being sent.                                    *)
(***************************************************************************)
LEMMA SendFacts ==
    ASSUME FifoInv
    PROVE  /\ ret \in Nat /\ pkts_buffer_idx \in Nat /\ DescMax \in Nat
           /\ DescMax > 0
           /\ t_count \in Nat /\ t_done \in Nat /\ t_cur \in Nat
           /\ t_wb \in Nat /\ SentNow \in Nat /\ Len(wire) \in Nat
           /\ t_pc # "idle" => /\ ret <= DescMax /\ t_count <= ret
                               /\ pkts_buffer_idx + ret <= DescMax
                               /\ t_burst = [i \in 1 .. ret |-> 1]
                               /\ Len(t_burst) = ret
                               /\ t_desc_used \in Idx
<1>1. /\ ret \in Nat /\ pkts_buffer_idx \in Nat /\ DescMax \in Nat
      /\ DescMax > 0
  BY ReceiveFacts DEF FifoInv
<1>2. /\ t_count \in Nat /\ t_done \in Nat /\ t_cur \in Nat
      /\ t_wb \in Nat /\ Len(wire) \in Nat
  BY DEF FifoInv, SendTyped
<1>3. SentNow \in Nat
  BY <1>2 DEF SentNow
<1>4. ASSUME t_pc # "idle"
      PROVE  /\ ret <= DescMax /\ t_count <= ret
             /\ pkts_buffer_idx + ret <= DescMax
             /\ t_burst = [i \in 1 .. ret |-> 1]
             /\ Len(t_burst) = ret
             /\ t_desc_used \in Idx
  <2>1. fpc = "send" /\ t_count <= ret
        /\ t_burst = [i \in 1 .. ret |-> 1]
    BY <1>4 DEF FifoInv, SendInv
  <2>2. Len(t_burst) = ret
    BY <2>1 DEF FifoInv, FwdInv, IndexInv
  <2>3. pkts_buffer_idx + ret <= DescMax
    BY <2>1, BatchPlace
  <2>4. t_desc_used \in Idx
    BY <1>1, <1>2, <1>4, <2>1, <2>3 DEF FifoInv, SendInv, Idx
  <2>. QED  BY <1>1, <2>1, <2>2, <2>3, <2>4
<1>. QED  BY <1>1, <1>2, <1>3, <1>4

-----------------------------------------------------------------------------
(***************************************************************************)
(* Outside the send call the transmit side rests.                          *)
(***************************************************************************)
LEMMA SendRests ==
    ASSUME FifoInv, UNCHANGED txVars,
           \/ fpc # "send" /\ fpc' # "send"
           \/ UNCHANGED <<fpc, ret, pkts_buffer_idx>>
    PROVE  SendTyped' /\ SendInv' /\ SendRingInv' /\ SendHwInv'
<1>1. UNCHANGED <<t_pc, t_hw, t_ring, t_count, t_done, t_cur, t_wb, wire,
                  t_posted, t_desc_used, t_burst, t_avail, t_seg>>
  BY DEF txVars
<1>2. SendTyped'
  BY <1>1 DEF FifoInv, SendTyped
<1>3. SendHwInv'
  BY <1>1 DEF FifoInv, SendHwInv, Limit
<1>4. CASE fpc # "send" /\ fpc' # "send"
  <2>1. t_pc = "idle"
    BY <1>4 DEF FifoInv, SendInv
  <2>2. SendInv' /\ SendRingInv'
    BY <1>1, <1>4, <2>1 DEF FifoInv, SendInv, SendRingInv, Unused
  <2>. QED  BY <1>2, <1>3, <2>2
<1>5. CASE UNCHANGED <<fpc, ret, pkts_buffer_idx>>
  <2>1. SendInv'
    BY <1>1, <1>5 DEF FifoInv, SendInv
  <2>2. SendRingInv'
    BY <1>1, <1>5 DEF FifoInv, SendRingInv, Sends, Unused
  <2>. QED  BY <1>2, <1>3, <2>1, <2>2
<1>. QED  BY <1>4, <1>5

(***************************************************************************)
(* A receive call does not touch what was received before it.              *)
(***************************************************************************)
LEMMA RecvKeepsBatch ==
    ASSUME FifoInv, FwdRecv \/ FwdRecvStep  PROVE BatchInv'
<1>1. /\ UNCHANGED <<wire, returned>>
      /\ fpc \in {"call", "recv"} /\ fpc' = "recv"
  BY DEF FwdRecv, FwdRecvStep, RecvStart, RecvResume, PollRead, PollHit,
         PollMiss, PreparePacket, PrepareDone, txVars
<1>2. Len(wire) = returned
  BY <1>1, ReceiveFacts DEF FifoInv, BatchInv, Unsent
<1>. QED  BY <1>1, <1>2, ReceiveFacts DEF FifoInv, BatchInv, Unsent

(***************************************************************************)
(* What a receive call returns is a batch: the packets in the mbufs from   *)
(* the index on are the ones received after all that has been returned.    *)
(***************************************************************************)
LEMMA RecvReturnsBatch ==
    ASSUME FifoInv, FwdRecvReturn  PROVE BatchInv'
<1>1. /\ pc = "check" /\ fpc = "recv" /\ fpc' = "got" /\ ret' = nb_cmpt
      /\ returned' = returned + nb_cmpt
      /\ UNCHANGED <<wire, mb, pkts_buffer_idx>>
  BY DEF FwdRecvReturn, RecvStop, RecvReturn, txVars
<1>2. /\ nb_cmpt \in Nat /\ returned + nb_cmpt = Len(delivered)
      /\ pkts_buffer_idx + nb_cmpt = desc_used /\ nb_pkts = NbPkts
  BY <1>1, IndexBounds DEF FifoInv, FwdInv, IInv, CountInv, IndexInv
<1>3. Len(delivered) = rcvd - Landed + desc_used /\ desc_used <= Landed
  BY <1>1, ReceiveFacts DEF FifoInv, Handed
<1>4. \A i \in Idx : i < Landed => mb[i].pkt = rcvd - Landed + i + 1
  BY DEF FifoInv, FwdInv, IInv, OrderInv
<1>5. Len(wire') = returned' - Unsent'
  <2>1. Len(wire) = returned
    BY <1>1, ReceiveFacts DEF FifoInv, BatchInv, Unsent
  <2>2. Unsent' = nb_cmpt
    BY <1>1 DEF Unsent
  <2>3. returned \in Nat /\ nb_cmpt \in Nat
    BY <1>2, ReceiveFacts DEF FifoInv
  <2>4. returned' = returned + nb_cmpt /\ Len(wire') = Len(wire)
    BY <1>1
  <2>. QED  BY <2>1, <2>2, <2>3, <2>4
<1>6. ret' > 0 /\ desc_used' = 0 => ~running'
  <2>1. CASE RecvStop
    BY <2>1 DEF RecvStop, xdma_rx_engine_stop
  <2>2. CASE RecvReturn
    BY <1>1, <1>2, <2>2, ReceiveFacts DEF FifoInv, RecvReturn, engine
  <2>. QED  BY <2>1, <2>2 DEF FwdRecvReturn
<1>7. ASSUME NEW i \in Idx, pkts_buffer_idx <= i, i < pkts_buffer_idx + nb_cmpt
      PROVE  mb[i].pkt = returned' - nb_cmpt + (i - pkts_buffer_idx) + 1
  <2>1. i \in Nat
    BY DEF Idx
  <2>2. mb[i].pkt = rcvd - Landed + i + 1
    BY <1>2, <1>3, <1>4, <1>7, <2>1, ReceiveFacts DEF FifoInv
  <2>3. /\ returned \in Nat /\ pkts_buffer_idx \in Nat /\ rcvd \in Nat
        /\ Landed \in Nat /\ Len(delivered) \in Nat /\ desc_used \in Nat
    BY ReceiveFacts DEF FifoInv
  <2>4. /\ returned' = returned + nb_cmpt /\ nb_cmpt \in Nat
        /\ returned + nb_cmpt = Len(delivered)
        /\ pkts_buffer_idx + nb_cmpt = desc_used
        /\ Len(delivered) = rcvd - Landed + desc_used
    BY <1>1, <1>2, <1>3
  <2>5. rcvd - Landed + i + 1 = returned' - nb_cmpt + (i - pkts_buffer_idx) + 1
    BY <2>1, <2>3, <2>4
  <2>. QED  BY <2>2, <2>5
<1>. QED  BY <1>1, <1>5, <1>6, <1>7 DEF BatchInv

(***************************************************************************)
(* The receive engine writes behind the batch.                             *)
(***************************************************************************)
LEMMA StoreKeepsBatch ==
    ASSUME FifoInv, FwdRxHardware  PROVE BatchInv'
<1>1. UNCHANGED <<running, desc_used, fpc, ret, pkts_buffer_idx, returned,
                  wire, t_pc, t_hw, t_done>>
  BY DEF FwdRxHardware, HwStore, HwReport, engine, txVars
<1>2. UNCHANGED Unsent
  BY <1>1 DEF Unsent, SentNow
<1>3. ASSUME fpc \in {"got", "send", "exit"}, NEW i \in Idx,
             pkts_buffer_idx <= i, i < pkts_buffer_idx + ret
      PROVE  mb'[i].pkt = mb[i].pkt
  <2>1. CASE HwReport
    BY <2>1 DEF HwReport
  <2>2. CASE HwStore
    <3>1. /\ mb' = [mb EXCEPT ![ring[cur].buf].pkt = rcvd + 1]
          /\ hw = "fetch"
      BY <2>2 DEF HwStore
    <3>2. ring[cur].buf = Landed /\ running
      <4>1. FwdInv
        BY DEF FifoInv
      <4>. QED  BY <3>1, <4>1, ReceiveFacts
    <3>3. i # Landed
      <4>1. pkts_buffer_idx + ret <= Landed \/ ret = 0
        BY <1>3, <3>2, BatchPlace
      <4>2. FwdInv
        BY DEF FifoInv
      <4>3. pkts_buffer_idx \in Nat /\ ret \in Nat /\ Landed \in Nat
        BY <4>2, ReceiveFacts
      <4>4. i \in Nat
        BY DEF Idx
      <4>. QED  BY <1>3, <4>1, <4>3, <4>4
    <3>4. mb \in [Idx -> Mbuf]
      BY DEF FifoInv, FwdInv, IInv, TypeOK, HostTyped
    <3>. QED  BY <3>1, <3>2, <3>3, <3>4
  <2>. QED  BY <2>1, <2>2 DEF FwdRxHardware
<1>4. Len(wire') = returned' - Unsent'
  BY <1>1, <1>2 DEF FifoInv, BatchInv
<1>5. fpc \in {"got", "send", "exit"} =>
         /\ ret > 0 /\ desc_used = 0 => ~running
         /\ \A i \in Idx :
               pkts_buffer_idx <= i /\ i < pkts_buffer_idx + ret =>
                   mb'[i].pkt = returned - ret + (i - pkts_buffer_idx) + 1
  BY <1>3 DEF FifoInv, BatchInv
<1>. QED  BY <1>1, <1>4, <1>5 DEF BatchInv

(***************************************************************************)
(* Turns of the thread without a packet, and the end of the program by a   *)
(* test bit, which leaves the batch where it is.                           *)
(***************************************************************************)
LEMMA LoopKeepsBatch ==
    ASSUME FifoInv, FwdTestBit \/ FwdNothing \/ FwdLoop  PROVE BatchInv'
<1>1. CASE FwdNothing \/ FwdLoop
  <2>1. /\ UNCHANGED <<wire, returned>>
        /\ fpc' \in {"call", "next", "end"}
        /\ (fpc = "got" /\ ret = 0) \/ fpc = "next"
    BY <1>1 DEF FwdNothing, FwdLoop, txVars, vars
  <2>. QED  BY <2>1, ReceiveFacts DEF FifoInv, BatchInv, Unsent
<1>2. CASE FwdTestBit
  <2>1. /\ fpc = "got" /\ fpc' = "exit"
        /\ UNCHANGED <<wire, returned, ret, pkts_buffer_idx, desc_used,
                       running, mb>>
    BY <1>2 DEF FwdTestBit, txVars, vars, engine
  <2>2. Unsent' = Unsent
    BY <2>1 DEF Unsent
  <2>. QED  BY <2>1, <2>2 DEF FifoInv, BatchInv
<1>. QED  BY <1>1, <1>2

-----------------------------------------------------------------------------
\* The transmit side's invariant, and that of the batch, together.
Joined == SendTyped /\ SendInv /\ SendRingInv /\ SendHwInv /\ BatchInv

(***************************************************************************)
(* The thread hands its batch over.                                        *)
(***************************************************************************)
LEMMA EnterKeeps ==
    ASSUME FifoInv, FwdSend  PROVE Joined'
<1>1. /\ fpc = "got" /\ fpc' = "send" /\ t_pc = "idle" /\ t_pc' = "post"
      /\ t_burst' = [i \in 1 .. ret |-> 1] /\ t_count' = 0
      /\ t_avail' = DescMax /\ t_seg' = pkts_buffer_idx
      /\ UNCHANGED <<ret, pkts_buffer_idx, t_desc_used, t_ring, t_hw, t_cur,
                     t_done, t_wb, wire, t_posted, returned, desc_used,
                     running, mb>>
  BY DEF FwdSend, Tx!XmitEnter, Tx!dma, Tx!sent, SendFrom, vars, engine, Idx
<1>2. SendTyped'
  BY <1>1 DEF FifoInv, SendTyped
<1>3. SendInv'
  BY <1>1, SendFacts DEF FifoInv, SendInv
<1>4. SendRingInv'
  <2>1. ASSUME NEW i \in Idx  PROVE ~(i < t_count') /\ Unused(i)'
    BY <1>1 DEF FifoInv, SendRingInv, Unused, Idx
  <2>. QED  BY <1>1, <2>1 DEF SendRingInv
<1>5. SendHwInv'
  BY <1>1 DEF FifoInv, SendHwInv
<1>6. BatchInv'
  <2>1. Len(wire') = returned' - Unsent'
    BY <1>1, SendFacts DEF FifoInv, BatchInv, Unsent, SentNow
  <2>. QED  BY <1>1, <2>1 DEF FifoInv, BatchInv
<1>. QED  BY <1>2, <1>3, <1>4, <1>5, <1>6 DEF Joined

(***************************************************************************)
(* Distances between positions of the ring, taken modulo its size, tell    *)
(* the positions apart.                                                    *)
(***************************************************************************)
LEMMA Distance ==
    ASSUME NEW i \in Idx, NEW j \in Idx
    PROVE  /\ i = j => (i - j) % DescMax = 0
           /\ (i - j) % DescMax < 1 => i = j
<1>1. /\ i \in Int /\ j \in Int /\ DescMax \in Int /\ DescMax > 0 /\ 0 <= i
      /\ i < DescMax /\ 0 <= j /\ j < DescMax
  BY DescMaxAssumption DEF Idx
<1>. QED  BY <1>1

(***************************************************************************)
(* One packet is posted: a descriptor is left for it, even the last one.   *)
(***************************************************************************)
LEMMA PostKeeps ==
    ASSUME FifoInv, FwdSendStep, Tx!PostPacket  PROVE Joined'
<1>1. /\ fpc = "send" /\ t_pc = "post" /\ t_pc' = "post"
      /\ t_count < Len(t_burst)
      /\ t_count' = t_count + 1
      /\ t_ring' = Tx!xdma_h2c_desc_set(t_burst[t_count + 1])
      /\ t_desc_used' = get_desc(t_desc_used, t_burst[t_count + 1])
      /\ t_avail' = t_avail - t_burst[t_count + 1]
      /\ t_seg' = t_seg + t_burst[t_count + 1]
      /\ t_posted' = t_posted + t_burst[t_count + 1]
      /\ UNCHANGED <<fpc, ret, pkts_buffer_idx, t_burst, t_hw, t_cur,
                     t_done, t_wb, wire, returned, desc_used, running, mb>>
  <2>1. /\ fpc = "send" /\ UNCHANGED <<fpc, ret, pkts_buffer_idx>>
        /\ UNCHANGED vars
    BY DEF FwdSendStep
  <2>2. UNCHANGED <<returned, desc_used, running, mb>>
    BY <2>1 DEF vars, engine
  <2>3. /\ t_pc = "post" /\ t_pc' = t_pc
        /\ t_ring' = Tx!xdma_h2c_desc_set(t_burst[t_count + 1])
        /\ t_desc_used' = get_desc(t_desc_used, t_burst[t_count + 1])
        /\ t_avail' = t_avail - t_burst[t_count + 1]
        /\ t_seg' = t_seg + t_burst[t_count + 1]
        /\ t_posted' = t_posted + t_burst[t_count + 1]
        /\ t_count' = t_count + 1
    BY DEF Tx!PostPacket, Tx!get_desc, get_desc
  <2>4. t_count < Len(t_burst)
    BY DEF Tx!PostPacket, Tx!Fits, Tx!nb_pkts
  <2>5. UNCHANGED <<t_burst, t_hw, t_cur, t_done, t_wb, wire>>
    BY DEF Tx!PostPacket, Tx!dma, Tx!sent
  <2>. QED  BY <2>1, <2>2, <2>3, <2>4, <2>5
<1>2. /\ t_count < ret /\ t_count + 1 <= ret /\ ret <= DescMax
      /\ t_burst[t_count + 1] = 1
      /\ t_count < DescMax /\ t_count \in Idx /\ t_desc_used = t_count
  <2>1. /\ Len(t_burst) = ret /\ ret <= DescMax /\ t_desc_used \in Idx
        /\ t_burst = [i \in 1 .. ret |-> 1]
        /\ ret \in Nat /\ t_count \in Nat /\ DescMax \in Nat
    BY <1>1, SendFacts
  <2>2. t_count < ret
    BY <1>1, <2>1
  <2>3. t_count + 1 <= ret /\ t_count < DescMax /\ t_count \in Idx
    BY <2>1, <2>2 DEF Idx
  <2>4. t_burst[t_count + 1] = 1
    BY <2>1, <2>3
  <2>5. t_desc_used = t_count
    BY <1>1, <2>3 DEF FifoInv, SendInv
  <2>. QED  BY <2>1, <2>2, <2>3, <2>4, <2>5
<1>3. t_desc_used' = IF t_count + 1 = DescMax THEN 0 ELSE t_count + 1
  <2>1. t_desc_used' = (t_count + 1) % DescMax
    BY <1>1, <1>2 DEF get_desc
  <2>2. CASE t_count + 1 = DescMax
    BY <2>1, <2>2, RingRemainder
  <2>3. CASE t_count + 1 # DescMax
    <3>1. t_count + 1 \in Idx
      BY <1>2, <2>3, SendFacts DEF Idx
    <3>. QED  BY <2>1, <2>3, <3>1, RingRemainder
  <2>. QED  BY <2>2, <2>3
<1>4. ASSUME NEW i \in Idx
      PROVE  t_ring'[i] =
                IF i = t_count
                THEN [flags |-> t_ring[i].flags \cup {"EOP", "COMPLETED"},
                      buf |-> pkts_buffer_idx + t_count, adj |-> t_ring[i].adj]
                ELSE t_ring[i]
  <2>1. t_ring[i] \in Desc
    BY DEF FifoInv, SendTyped
  <2>2. t_seg = pkts_buffer_idx + t_count
    BY <1>1 DEF FifoInv, SendInv
  <2>3. CASE i = t_count
    <3>1. (i - t_desc_used) % DescMax = 0
      BY <1>2, <2>3, Distance
    <3>2. [t_ring[i] EXCEPT !.buf = t_seg + 0] =
            [flags |-> t_ring[i].flags, buf |-> pkts_buffer_idx + t_count,
             adj |-> t_ring[i].adj]
      <4>1. t_seg + 0 = pkts_buffer_idx + t_count
        BY <2>2, SendFacts
      <4>. QED  BY <2>1, <4>1 DEF Desc
    <3>3. t_ring'[i] =
            Tx!xdma_desc_control_set([t_ring[i] EXCEPT !.buf = t_seg + 0],
                                     {"EOP", "COMPLETED"})
      BY <1>1, <1>2, <3>1 DEF Tx!xdma_h2c_desc_set, Tx!Idx, Idx
    <3>. QED  BY <2>3, <3>2, <3>3 DEF Tx!xdma_desc_control_set
  <2>4. CASE i # t_count
    <3>1. ~((i - t_desc_used) % DescMax < 1)
      BY <1>2, <2>4, Distance
    <3>. QED  BY <1>1, <1>2, <2>4, <3>1 DEF Tx!xdma_h2c_desc_set, Tx!Idx, Idx
  <2>. QED  BY <2>3, <2>4
<1>5. t_ring' \in [Idx -> Desc]
  <2>1. t_ring' = [i \in Idx |-> t_ring'[i]]
    BY <1>1 DEF Tx!xdma_h2c_desc_set, Tx!Idx, Idx
  <2>2. ASSUME NEW i \in Idx  PROVE t_ring'[i] \in Desc
    <3>1. t_ring[i] \in Desc
      BY DEF FifoInv, SendTyped
    <3>2. [flags |-> t_ring[i].flags \cup {"EOP", "COMPLETED"},
           buf |-> pkts_buffer_idx + t_count, adj |-> t_ring[i].adj] \in Desc
      <4>1. pkts_buffer_idx + t_count \in Nat
        BY SendFacts
      <4>. QED  BY <3>1, <4>1 DEF Desc, Flags
    <3>. QED  BY <1>4, <3>1, <3>2
  <2>. QED  BY <2>1, <2>2
<1>6. SendTyped'
  <2>0. /\ t_count' = t_count + 1 /\ t_count \in Nat
        /\ t_posted' = t_posted + t_burst[t_count + 1]
        /\ t_burst[t_count + 1] = 1
    BY <1>1, <1>2, SendFacts
  <2>1. t_count' \in Nat /\ t_posted' = t_posted + 1
    BY <2>0
  <2>2. SendTyped
    BY DEF FifoInv
  <2>3. t_posted' \in Nat
    BY <2>1, <2>2 DEF SendTyped
  <2>4. UNCHANGED <<t_pc, t_hw, t_cur, t_done, t_wb, wire>>
    BY <1>1
  <2>. QED  BY <1>5, <2>1, <2>2, <2>3, <2>4 DEF SendTyped
<1>7. SendInv'
  <2>1. /\ t_pc' = "post" /\ fpc' = "send"
        /\ t_burst' = [i \in 1 .. ret' |-> 1] /\ t_count' <= ret'
    <3>1. t_burst = [i \in 1 .. ret |-> 1]
      BY <1>1, SendFacts
    <3>. QED  BY <1>1, <1>2, <3>1
  <2>2. /\ t_count' < DescMax => t_desc_used' = t_count'
        /\ t_count' = DescMax => t_desc_used' = 0
    <3>1. t_count' = t_count + 1
      BY <1>1
    <3>. QED  BY <1>3, <3>1
  <2>3. /\ t_avail' = DescMax - t_count'
        /\ t_seg' = pkts_buffer_idx' + t_count'
    <3>1. t_avail = DescMax - t_count /\ t_seg = pkts_buffer_idx + t_count
      BY <1>1 DEF FifoInv, SendInv
    <3>2. /\ t_avail' = t_avail - t_burst[t_count + 1]
          /\ t_seg' = t_seg + t_burst[t_count + 1]
          /\ t_count' = t_count + 1 /\ pkts_buffer_idx' = pkts_buffer_idx
          /\ t_burst[t_count + 1] = 1
      BY <1>1, <1>2, Zenon
    <3>3. /\ t_avail' = (DescMax - t_count) - 1
          /\ t_seg' = (pkts_buffer_idx + t_count) + 1
      BY <3>1, <3>2, Zenon
    <3>4. /\ t_count' = t_count + 1 /\ pkts_buffer_idx' = pkts_buffer_idx
          /\ t_count \in Nat /\ pkts_buffer_idx \in Nat /\ DescMax \in Nat
      BY <3>2, SendFacts
    <3>. QED  BY <3>3, <3>4
  <2>. QED  BY <2>1, <2>2, <2>3 DEF SendInv
<1>8. SendRingInv'
  <2>1. ASSUME NEW i \in Idx, i < t_count + 1  PROVE Sends(i)'
    <3>1. CASE i = t_count
      <4>1. Unused(i)
        <5>1. ~(i < t_count)
          BY <3>1, SendFacts
        <5>. QED  BY <1>1, <5>1 DEF FifoInv, SendRingInv
      <4>2. /\ t_ring'[i].buf = pkts_buffer_idx' + i
            /\ t_ring'[i].flags = t_ring[i].flags \cup {"EOP", "COMPLETED"}
        <5>1. t_ring'[i] =
                 [flags |-> t_ring[i].flags \cup {"EOP", "COMPLETED"},
                  buf |-> pkts_buffer_idx + t_count, adj |-> t_ring[i].adj]
          BY <1>4, <3>1
        <5>2. pkts_buffer_idx' + i = pkts_buffer_idx + t_count
          BY <1>1, <3>1
        <5>. QED  BY <5>1, <5>2
      <4>. QED  BY <4>1, <4>2 DEF Sends, Unused
    <3>2. CASE i # t_count
      <4>1. Sends(i)
        <5>1. i < t_count
          <6>1. i \in Nat /\ t_count \in Nat
            BY SendFacts DEF Idx
          <6>. QED  BY <2>1, <3>2, <6>1
        <5>. QED  BY <1>1, <5>1 DEF FifoInv, SendRingInv
      <4>. QED  BY <1>1, <1>4, <3>2, <4>1 DEF Sends
    <3>. QED  BY <3>1, <3>2
  <2>2. ASSUME NEW i \in Idx, ~(i < t_count + 1)  PROVE Unused(i)'
    <3>1. i # t_count /\ ~(i < t_count)
      BY <2>2, SendFacts DEF Idx
    <3>2. Unused(i)
      BY <1>1, <3>1 DEF FifoInv, SendRingInv
    <3>. QED  BY <1>4, <3>1, <3>2 DEF Unused
  <2>. QED  BY <1>1, <2>1, <2>2 DEF SendRingInv
<1>9. SendHwInv'
  BY <1>1 DEF FifoInv, SendHwInv
<1>10. BatchInv'
  <2>1. UNCHANGED Unsent
    BY <1>1 DEF Unsent, SentNow
  <2>. QED  BY <1>1, <2>1 DEF FifoInv, BatchInv
<1>. QED  BY <1>6, <1>7, <1>8, <1>9, <1>10 DEF Joined

(***************************************************************************)
(* The batch is posted and the engine started.  Of a batch as long as the  *)
(* ring the terminator lies on its first descriptor.                       *)
(***************************************************************************)
LEMMA StartKeeps ==
    ASSUME FifoInv, FwdSendStep, Tx!XmitStart  PROVE Joined'
<1>1. /\ fpc = "send" /\ t_pc = "post" /\ t_pc' = "wait"
      /\ ~Tx!Fits
      /\ t_ring' = Tx!Adjacent(Tx!Terminated)
      /\ t_hw' = "fetch" /\ t_cur' = 0 /\ t_done' = 0
      /\ UNCHANGED <<fpc, ret, pkts_buffer_idx, t_burst, t_count, t_avail,
                     t_seg, t_desc_used, t_wb, wire, t_posted, returned,
                     desc_used, running, mb>>
  BY DEF FwdSendStep, Tx!PostPacket, Tx!XmitStart, Tx!sent,
         Tx!xdma_tx_engine_start, vars, engine
<1>2. t_count = ret
  <2>1. ASSUME t_count < ret  PROVE FALSE
    <3>1. t_burst[t_count + 1] = 1
      BY <1>1, <2>1, SendFacts
    <3>2. t_avail = DescMax - t_count
      BY <1>1 DEF FifoInv, SendInv
    <3>. QED  BY <1>1, <2>1, <3>1, <3>2, SendFacts DEF Tx!Fits, Tx!nb_pkts
  <2>. QED  BY <1>1, <2>1, SendFacts
<1>3. t_desc_used \in Idx
  BY <1>1, SendFacts
<1>4. ASSUME NEW i \in Idx
      PROVE  /\ t_ring'[i].buf = t_ring[i].buf
             /\ t_ring'[i].flags = IF i = t_desc_used
                   THEN t_ring[i].flags \cup {"COMPLETED", "STOPPED"}
                   ELSE t_ring[i].flags
             /\ t_ring'[i] \in Desc
  <2>1. t_ring[i] \in Desc
    BY DEF FifoInv, SendTyped
  <2>2. Tx!Terminated[i] =
           IF i = t_desc_used
           THEN [flags |-> t_ring[i].flags \cup {"COMPLETED", "STOPPED"},
                 buf |-> t_ring[i].buf, adj |-> t_ring[i].adj]
           ELSE t_ring[i]
    <3>1. t_ring \in [Idx -> Desc]
      BY DEF FifoInv, SendTyped
    <3>2. CASE i = t_desc_used
      <4>1. Tx!Terminated[i] =
               Tx!xdma_desc_control_set(t_ring[i], {"COMPLETED", "STOPPED"})
        BY <1>3, <3>1, <3>2 DEF Tx!Terminated
      <4>2. [t_ring[i] EXCEPT
                !.flags = t_ring[i].flags \cup {"COMPLETED", "STOPPED"}] =
               [flags |-> t_ring[i].flags \cup {"COMPLETED", "STOPPED"},
                buf |-> t_ring[i].buf, adj |-> t_ring[i].adj]
        BY <2>1 DEF Desc
      <4>. QED  BY <3>2, <4>1, <4>2 DEF Tx!xdma_desc_control_set
    <3>3. CASE i # t_desc_used
      BY <1>3, <3>1, <3>3 DEF Tx!Terminated
    <3>. QED  BY <3>2, <3>3
  <2>3. Tx!Terminated[i] \in Desc
    BY <2>1, <2>2 DEF Desc, Flags
  <2>4. t_ring'[i] =
           IF i < t_count - 1
           THEN [flags |-> Tx!Terminated[i].flags,
                 buf |-> Tx!Terminated[i].buf, adj |-> t_count - 2 - i]
           ELSE Tx!Terminated[i]
    <3>. DEFINE d == Tx!Terminated[i]
    <3>1. t_ring'[i] = IF i < t_count - 1
                       THEN Tx!xdma_desc_adjacent_set(d, t_count - 2 - i)
                       ELSE d
      BY <1>1 DEF Tx!Adjacent, Tx!Idx, Idx
    <3>2. d \in Desc
      BY <2>3
    <3>. HIDE DEF d
    <3>3. ASSUME NEW n
          PROVE  [d EXCEPT !.adj = n] =
                    [flags |-> d.flags, buf |-> d.buf, adj |-> n]
      BY <3>2 DEF Desc
    <3>4. Tx!xdma_desc_adjacent_set(d, t_count - 2 - i) =
             [flags |-> d.flags, buf |-> d.buf, adj |-> t_count - 2 - i]
      BY <3>3 DEF Tx!xdma_desc_adjacent_set
    <3>. QED  BY <3>1, <3>4 DEF d
  <2>5. i < t_count - 1 => t_count - 2 - i \in 0 .. AdjValues - 1
    <3>1. /\ i \in Nat /\ t_count \in Nat
          /\ DescMax \in Nat /\ t_count <= DescMax
      <4>1. t_count <= ret /\ ret <= DescMax
        BY <1>1, SendFacts
      <4>2. ret \in Nat /\ t_count \in Nat /\ DescMax \in Nat
        BY SendFacts
      <4>. QED  BY <4>1, <4>2 DEF Idx
    <3>. QED  BY <3>1, AdjAssumption DEF AdjValues
  <2>. QED  BY <2>2, <2>3, <2>4, <2>5 DEF Desc
<1>5. SendTyped'
  <2>1. t_ring' = [i \in Idx |-> t_ring'[i]]
    BY <1>1 DEF Tx!Adjacent, Tx!Idx, Idx
  <2>2. t_ring' \in [Idx -> Desc]
    BY <1>4, <2>1
  <2>. QED  BY <1>1, <2>2 DEF FifoInv, SendTyped
<1>6. SendInv'
  BY <1>1, <1>2, SendFacts DEF FifoInv, SendInv
<1>7. SendRingInv'
  <2>1. "STOPPED" \in t_ring'[t_desc_used].flags
    BY <1>3, <1>4
  <2>2. ASSUME t_count < DescMax, NEW i \in Idx, i < t_count
        PROVE  Sends(i)'
    <3>1. i # t_desc_used
      BY <1>1, <2>2, SendFacts DEF FifoInv, SendInv, Idx
    <3>2. Sends(i)
      BY <1>1, <2>2 DEF FifoInv, SendRingInv
    <3>3. t_ring'[i].buf = t_ring[i].buf /\ t_ring'[i].flags = t_ring[i].flags
      BY <1>4, <3>1
    <3>. QED  BY <1>1, <3>2, <3>3 DEF Sends
  <2>3. ASSUME t_count < DescMax  PROVE t_ring'[t_count].buf = NoBuf
    <3>1. t_count \in Idx /\ ~(t_count < t_count)
      BY <2>3, SendFacts DEF Idx
    <3>2. Unused(t_count)
      BY <1>1, <3>1 DEF FifoInv, SendRingInv
    <3>. QED  BY <1>4, <3>1, <3>2 DEF Unused
  <2>4. ASSUME t_count = DescMax
        PROVE  /\ t_ring'[0].buf = pkts_buffer_idx
               /\ "COMPLETED" \in t_ring'[0].flags
    <3>1. 0 \in Idx /\ 0 < t_count /\ pkts_buffer_idx + 0 = pkts_buffer_idx
      BY <2>4, SendFacts DEF Idx
    <3>2. Sends(0)
      BY <1>1, <3>1 DEF FifoInv, SendRingInv
    <3>3. t_ring[0].buf = pkts_buffer_idx /\ "COMPLETED" \in t_ring[0].flags
      BY <3>1, <3>2 DEF Sends
    <3>. QED  BY <1>4, <3>1, <3>3
  <2>. QED  BY <1>1, <2>1, <2>2, <2>3, <2>4 DEF SendRingInv
<1>8. SendHwInv'
  <2>1. t_wb' = 0 /\ t_hw' = "fetch" /\ t_cur' = 0 /\ t_done' = 0
        /\ t_pc' = "wait" /\ t_count' = t_count
    BY <1>1 DEF FifoInv, SendHwInv
  <2>2. Limit' \in Nat /\ (0 = Limit' => t_count' < DescMax)
    BY <2>1, SendFacts DEF Limit
  <2>. QED  BY <2>1, <2>2 DEF SendHwInv
<1>9. BatchInv'
  <2>1. SentNow = 0 /\ SentNow' = 0
    BY <1>1 DEF SentNow
  <2>2. UNCHANGED Unsent
    BY <1>1, <2>1 DEF Unsent
  <2>. QED  BY <1>1, <2>2 DEF FifoInv, BatchInv
<1>. QED  BY <1>5, <1>6, <1>7, <1>8, <1>9 DEF Joined

(***************************************************************************)
(* The wait ends when the hardware has counted the whole batch, which it   *)
(* does only if the batch is shorter than the ring or of one packet.       *)
(***************************************************************************)
LEMMA CompletedMeansSent ==
    ASSUME FifoInv, TxBuild = "debug", t_pc = "wait", Tx!Completed
    PROVE  SentNow = ret
<1>1. DescMax < 65536
  BY RxAssumption
<1>2. /\ t_count = ret /\ t_wb = t_done
      /\ t_hw \in {"fetch", "report", "halt"}
      /\ t_hw = "fetch" => t_done <= Limit
      /\ t_hw = "report" => t_done < Limit
      /\ t_hw = "halt" => t_done = Limit
  BY DEF FifoInv, SendTyped, SendInv, SendHwInv
<1>3. Limit \in Nat /\ Limit <= t_count
  BY <1>2, SendFacts DEF Limit
<1>4. t_wb <= ret /\ ret < 65536 /\ t_wb \in Nat
  BY <1>1, <1>2, <1>3, SendFacts
<1>5. t_wb % (2 ^ 24) = ret
  BY SendFacts DEF Tx!Completed, Tx!nb_pkts
<1>6. t_wb % (2 ^ 24) = t_wb
  <2>1. 65536 < 2 ^ 24
    OBVIOUS
  <2>2. 2 ^ 24 \in Nat
    OBVIOUS
  <2>3. t_wb < 2 ^ 24
    BY <1>4, <2>1, <2>2, SendFacts
  <2>4. ASSUME NEW n \in Nat, t_wb < n  PROVE t_wb % n = t_wb
    BY <1>4, <2>4
  <2>. QED  BY <2>2, <2>3, <2>4, Zenon
<1>7. t_done = ret
  BY <1>2, <1>5, <1>6
<1>8. t_hw # "report"
  BY <1>2, <1>3, <1>7, SendFacts
<1>. QED  BY <1>7, <1>8 DEF SentNow

(***************************************************************************)
(* The send call returns.                                                  *)
(***************************************************************************)
LEMMA ReturnKeeps ==
    ASSUME FifoInv, TxBuild = "debug", FwdSendReturn  PROVE Joined'
<1>1. /\ fpc = "send" /\ fpc' = "next" /\ t_pc = "wait" /\ t_pc' = "idle"
      /\ Tx!Completed
      /\ t_hw' = "off" /\ t_ring' = Tx!xdma_desc_ring_clear(t_ring, "H2C")
      /\ t_desc_used' = 0 /\ t_wb' = 0
      /\ UNCHANGED <<t_cur, t_done, t_count, wire, t_posted, returned>>
  BY DEF FwdSendReturn, Tx!XmitReturn, Tx!xdma_tx_engine_stop, Tx!sent, vars
<1>2. ASSUME NEW i \in Idx
      PROVE  t_ring'[i] = [flags |-> {}, buf |-> NoBuf, adj |-> 0]
  BY <1>1
  DEF Tx!xdma_desc_ring_clear, Tx!Idx, Idx, Tx!BlankDesc, Tx!NoBuf, NoBuf
<1>3. SendTyped'
  <2>1. t_ring' \in [Idx -> Desc]
    <3>1. [flags |-> {}, buf |-> NoBuf, adj |-> 0] \in Desc
      BY DEF Desc, NoBuf, AdjValues
    <3>2. t_ring' = [i \in Idx |-> t_ring'[i]]
      BY <1>1 DEF Tx!xdma_desc_ring_clear, Tx!Idx, Idx
    <3>. QED  BY <1>2, <3>1, <3>2
  <2>. QED  BY <1>1, <2>1 DEF FifoInv, SendTyped
<1>4. SendInv'
  BY <1>1 DEF SendInv
<1>5. SendRingInv'
  BY <1>1, <1>2 DEF SendRingInv, Unused
<1>6. SendHwInv'
  BY <1>1 DEF SendHwInv
<1>7. BatchInv'
  <2>1. Len(wire) = returned
    <3>1. Unsent = 0
      BY <1>1, CompletedMeansSent, SendFacts DEF Unsent
    <3>. QED  BY <3>1, ReceiveFacts DEF FifoInv, BatchInv
  <2>. QED  BY <1>1, <2>1, ReceiveFacts DEF FifoInv, BatchInv, Unsent
<1>. QED  BY <1>3, <1>4, <1>5, <1>6, <1>7 DEF Joined

(***************************************************************************)
(* The packet the hardware is about to send is the next of the batch, and  *)
(* it is in its mbuf.                                                      *)
(***************************************************************************)
LEMMA NextOfBatch ==
    ASSUME FifoInv, Tx!HwSend
    PROVE  /\ t_pc = "wait" /\ fpc = "send" /\ t_hw = "fetch"
           /\ t_cur = t_done /\ t_done < Limit /\ Limit <= ret
           /\ wire' = Append(wire, Len(wire) + 1)
           /\ Len(wire) < Len(delivered)
<1>1. /\ t_hw = "fetch" /\ t_ring[t_cur].buf \in Idx
      /\ wire' = Append(wire, MbufData[t_ring[t_cur].buf])
  BY DEF Tx!HwSend, Tx!Bufs, Idx
<1>2. /\ t_pc = "wait" /\ fpc = "send" /\ t_count = ret
      /\ t_cur = t_done /\ t_done <= Limit
      /\ t_done = Limit => t_count < DescMax
  BY <1>1 DEF FifoInv, SendHwInv, SendInv
<1>3. Limit \in Nat /\ Limit <= ret
  BY <1>2, SendFacts DEF Limit
<1>4. t_done < Limit
  <2>1. SUFFICES ASSUME t_done = Limit  PROVE FALSE
    BY <1>2, <1>3, SendFacts
  <2>2. t_count < DescMax /\ t_cur = t_count
    BY <1>2, <2>1 DEF Limit
  <2>3. t_ring[t_cur].buf = NoBuf
    BY <1>2, <2>2 DEF FifoInv, SendRingInv
  <2>. QED  BY <1>1, <2>3 DEF Idx, NoBuf
<1>5. t_ring[t_cur].buf = pkts_buffer_idx + t_done
  <2>1. CASE t_count < DescMax
    <3>1. t_cur \in Idx /\ t_cur < t_count
      BY <1>2, <1>4, <2>1, SendFacts DEF Limit, Idx
    <3>. QED  BY <1>2, <2>1, <3>1 DEF FifoInv, SendRingInv, Sends
  <2>2. CASE ~(t_count < DescMax)
    <3>1. t_count = DescMax /\ t_done = 0
      BY <1>2, <1>4, <2>2, SendFacts DEF Limit
    <3>2. pkts_buffer_idx + t_done = pkts_buffer_idx
      BY <3>1, SendFacts
    <3>. QED  BY <1>2, <3>1, <3>2 DEF FifoInv, SendRingInv
  <2>. QED  BY <2>1, <2>2
<1>6. Len(wire) = returned - (ret - t_done) /\ returned = Len(delivered)
  <2>1. Unsent = ret - t_done
    BY <1>1, <1>2 DEF Unsent, SentNow
  <2>. QED  BY <1>2, <2>1, ReceiveFacts DEF FifoInv, BatchInv
<1>7. MbufData[t_ring[t_cur].buf] = Len(wire) + 1
  <2>. DEFINE b == pkts_buffer_idx + t_done
  <2>1. b \in Idx
    BY <1>1, <1>5
  <2>2. pkts_buffer_idx <= b /\ b < pkts_buffer_idx + ret
        /\ b - pkts_buffer_idx = t_done
    BY <1>3, <1>4, SendFacts
  <2>3. mb[b].pkt = returned - ret + (b - pkts_buffer_idx) + 1
    BY <1>2, <2>1, <2>2 DEF FifoInv, BatchInv
  <2>4. mb[b].pkt = returned - ret + t_done + 1
    BY <2>2, <2>3
  <2>5. MbufData[b] = mb[b].pkt
    BY <2>1 DEF MbufData
  <2>6. returned - ret + t_done + 1 = Len(wire) + 1
    <3>1. returned \in Nat
      BY ReceiveFacts DEF FifoInv
    <3>. QED  BY <1>6, <3>1, SendFacts
  <2>. QED  BY <1>5, <2>4, <2>5, <2>6
<1>8. Len(wire) < Len(delivered)
  <2>1. Len(delivered) \in Nat /\ ret \in Nat /\ t_done \in Nat
    BY ReceiveFacts, SendFacts DEF FifoInv
  <2>2. Len(wire) = Len(delivered) - (ret - t_done)
    BY <1>6
  <2>. QED  BY <1>3, <1>4, <2>1, <2>2
<1>. QED  BY <1>1, <1>2, <1>3, <1>4, <1>7, <1>8

(***************************************************************************)
(* The engines that send: one packet further on the wire, counted, or the  *)
(* terminator reached.                                                     *)
(***************************************************************************)
LEMMA HardwareKeeps ==
    ASSUME FifoInv, FwdTxHardware  PROVE Joined'
<1>1. /\ UNCHANGED <<t_pc, t_burst, t_count, t_avail, t_seg, t_desc_used,
                     t_ring, t_posted, fpc, ret, pkts_buffer_idx, returned,
                     desc_used, running, mb>>
  BY DEF FwdTxHardware, Tx!HwSend, Tx!HwReport, Tx!HwBlank, Tx!engine,
         Tx!call, Tx!sent, vars, engine
<1>2. SendInv' /\ SendRingInv'
  BY <1>1 DEF FifoInv, SendInv, SendRingInv, Sends, Unused
<1>3. UNCHANGED Limit
  BY <1>1 DEF Limit
<1>4. CASE Tx!HwSend
  <2>1. /\ t_hw' = "report" /\ UNCHANGED <<t_cur, t_done, t_wb>>
        /\ wire' = Append(wire, Len(wire) + 1)
    BY <1>4, NextOfBatch DEF Tx!HwSend
  <2>2. wire' \in Seq(Nat) /\ Len(wire') = Len(wire) + 1
    BY <2>1, SendFacts DEF FifoInv, SendTyped
  <2>3. SendTyped'
    BY <1>1, <2>1, <2>2 DEF FifoInv, SendTyped
  <2>4. SendHwInv'
    BY <1>1, <1>3, <1>4, <2>1, NextOfBatch DEF FifoInv, SendHwInv
  <2>5. Unsent = ret - t_done /\ Unsent' = ret - (t_done + 1)
    BY <1>1, <1>4, <2>1, NextOfBatch DEF Unsent, SentNow
  <2>6. Len(wire') = returned' - Unsent'
    <3>1. Len(wire) = returned - Unsent /\ returned \in Nat
      BY ReceiveFacts DEF FifoInv, BatchInv
    <3>2. Len(wire') = returned - (ret - t_done) + 1
      BY <2>2, <2>5, <3>1
    <3>3. returned - (ret - t_done) + 1 = returned - (ret - (t_done + 1))
      BY <3>1, SendFacts
    <3>. QED  BY <1>1, <2>5, <3>2, <3>3
  <2>7. BatchInv'
    BY <1>1, <2>6 DEF FifoInv, BatchInv
  <2>. QED  BY <1>2, <2>3, <2>4, <2>7 DEF Joined
<1>5. CASE Tx!HwReport
  <2>1. /\ t_hw = "report" /\ t_pc = "wait" /\ t_cur = t_done
        /\ t_done < Limit /\ t_count = ret
    BY <1>5 DEF Tx!HwReport, FifoInv, SendHwInv, SendInv
  <2>2. /\ t_done' = t_done + 1 /\ UNCHANGED wire
        /\ t_wb' = IF "COMPLETED" \in t_ring[t_cur].flags
                   THEN t_done + 1 ELSE t_wb
        /\ IF "STOPPED" \in t_ring[t_cur].flags
           THEN t_hw' = "halt" /\ UNCHANGED t_cur
           ELSE t_hw' = "fetch" /\ t_cur' = t_cur + 1
    BY <1>5 DEF Tx!HwReport, Tx!sent, Tx!NextDesc
  <2>3. /\ "COMPLETED" \in t_ring[t_cur].flags
        /\ "STOPPED" \in t_ring[t_cur].flags <=> t_count = DescMax
    <3>1. CASE t_count < DescMax
      <4>1. t_cur \in Idx /\ t_cur < t_count /\ t_cur # DescMax - 1
        BY <2>1, <3>1, SendFacts DEF Limit, Idx
      <4>2. Sends(t_cur)
        BY <2>1, <3>1, <4>1 DEF FifoInv, SendRingInv
      <4>. QED  BY <3>1, <4>1, <4>2, SendFacts DEF Sends
    <3>2. CASE ~(t_count < DescMax)
      <4>1. t_count = DescMax /\ t_cur = 0
        BY <2>1, <3>2, SendFacts DEF Limit
      <4>2. t_desc_used = 0
        BY <2>1, <4>1 DEF FifoInv, SendInv
      <4>. QED  BY <2>1, <4>1, <4>2 DEF FifoInv, SendRingInv
    <3>. QED  BY <3>1, <3>2
  <2>4. t_wb' = t_done' /\ t_done' <= Limit
    <3>1. Limit \in Nat
      BY SendFacts DEF Limit
    <3>. QED  BY <2>1, <2>2, <2>3, <3>1, SendFacts
  <2>5. SendTyped'
    <3>1. t_cur' \in Nat /\ t_done' \in Nat /\ t_wb' \in Nat
      BY <2>2, <2>4, SendFacts
    <3>2. t_hw' \in {"off", "fetch", "report", "halt"}
      BY <2>2
    <3>. QED  BY <1>1, <2>2, <3>1, <3>2 DEF FifoInv, SendTyped
  <2>6. SendHwInv'
    <3>1. CASE t_count = DescMax
      <4>1. t_hw' = "halt" /\ t_done' = Limit
        BY <2>1, <2>2, <2>3, <3>1, SendFacts DEF Limit
      <4>. QED  BY <1>1, <1>3, <2>1, <2>4, <4>1 DEF SendHwInv
    <3>2. CASE t_count # DescMax
      <4>1. t_hw' = "fetch" /\ t_cur' = t_done' /\ t_count < DescMax
        BY <2>1, <2>2, <2>3, <3>2, SendFacts
      <4>. QED  BY <1>1, <1>3, <2>1, <2>4, <4>1 DEF SendHwInv
    <3>. QED  BY <3>1, <3>2
  <2>7. UNCHANGED Unsent
    BY <1>1, <2>1, <2>2 DEF Unsent, SentNow
  <2>8. BatchInv'
    BY <1>1, <2>2, <2>7 DEF FifoInv, BatchInv
  <2>. QED  BY <1>2, <2>5, <2>6, <2>8 DEF Joined
<1>6. CASE Tx!HwBlank
  <2>1. /\ t_hw = "fetch" /\ t_pc = "wait" /\ t_cur = t_done
        /\ t_done <= Limit
        /\ t_done = Limit => t_count < DescMax
        /\ t_ring[t_cur].buf = NoBuf /\ t_count = ret
    BY <1>6 DEF Tx!HwBlank, Tx!NoBuf, NoBuf, FifoInv, SendHwInv, SendInv
  <2>2. /\ UNCHANGED <<t_done, t_wb, wire>>
        /\ IF "STOPPED" \in t_ring[t_cur].flags
           THEN t_hw' = "halt" /\ UNCHANGED t_cur
           ELSE t_cur' = t_cur + 1 /\ UNCHANGED t_hw
    BY <1>6 DEF Tx!HwBlank, Tx!sent, Tx!NextDesc
  <2>3. t_done = Limit
    <3>1. SUFFICES ASSUME t_done < Limit  PROVE FALSE
      <4>1. Limit \in Nat /\ t_done \in Nat
        BY SendFacts DEF Limit
      <4>2. t_done <= Limit
        BY <2>1
      <4>. QED  BY <4>1, <4>2
    <3>2. t_ring[t_cur].buf = pkts_buffer_idx + t_cur
      <4>1. CASE t_count < DescMax
        <5>1. t_cur \in Idx /\ t_cur < t_count
          BY <2>1, <3>1, <4>1, SendFacts DEF Limit, Idx
        <5>. QED  BY <2>1, <4>1, <5>1 DEF FifoInv, SendRingInv, Sends
      <4>2. CASE ~(t_count < DescMax)
        <5>1. t_count = DescMax /\ t_cur = 0
          BY <2>1, <3>1, <4>2, SendFacts DEF Limit
        <5>2. pkts_buffer_idx + t_cur = pkts_buffer_idx
          BY <5>1, SendFacts
        <5>. QED  BY <2>1, <5>1, <5>2 DEF FifoInv, SendRingInv
      <4>. QED  BY <4>1, <4>2
    <3>. QED  BY <2>1, <3>2, SendFacts DEF NoBuf
  <2>4. t_cur = t_desc_used
    BY <2>1, <2>3, SendFacts DEF Limit, FifoInv, SendInv
  <2>5. t_hw' = "halt" /\ UNCHANGED t_cur
    BY <2>1, <2>2, <2>4 DEF FifoInv, SendRingInv
  <2>6. SendTyped'
    BY <1>1, <2>2, <2>5 DEF FifoInv, SendTyped
  <2>7. SendHwInv'
    BY <1>1, <1>3, <2>1, <2>2, <2>3, <2>5 DEF FifoInv, SendHwInv
  <2>8. UNCHANGED Unsent
    BY <1>1, <2>1, <2>2, <2>5 DEF Unsent, SentNow
  <2>9. BatchInv'
    BY <1>1, <2>2, <2>8 DEF FifoInv, BatchInv
  <2>. QED  BY <1>2, <2>6, <2>7, <2>9 DEF Joined
<1>. QED  BY <1>4, <1>5, <1>6 DEF FwdTxHardware

-----------------------------------------------------------------------------
(***************************************************************************)
(* Every step of the forwarder keeps the invariant.                        *)
(***************************************************************************)
LEMMA FifoInductive ==
    ASSUME FifoInv, TxBuild = "debug", [FwdNext]_fwdVars  PROVE FifoInv'
<1>1. FwdInv'
  BY FwdInductive DEF FifoInv
<1>2. CASE FwdRecv \/ FwdRecvStep \/ FwdRecvReturn \/ FwdTestBit
           \/ FwdNothing \/ FwdLoop \/ FwdRxHardware
  <2>1. /\ UNCHANGED txVars
        /\ \/ fpc # "send" /\ fpc' # "send"
           \/ UNCHANGED <<fpc, ret, pkts_buffer_idx>>
    BY <1>2 DEF FwdRecv, FwdRecvStep, FwdRecvReturn, FwdTestBit,
                FwdNothing, FwdLoop, FwdRxHardware
  <2>2. SendTyped' /\ SendInv' /\ SendRingInv' /\ SendHwInv'
    BY <2>1, SendRests
  <2>3. BatchInv'
    BY <1>2, RecvKeepsBatch, RecvReturnsBatch, LoopKeepsBatch,
       StoreKeepsBatch
  <2>. QED  BY <1>1, <2>2, <2>3 DEF FifoInv
<1>3. CASE FwdSend \/ FwdSendStep \/ FwdSendReturn \/ FwdTxHardware
  <2>1. Joined'
    BY <1>3, EnterKeeps, PostKeeps, StartKeeps, ReturnKeeps, HardwareKeeps
    DEF FwdSendStep
  <2>. QED  BY <1>1, <2>1 DEF FifoInv, Joined
<1>4. CASE UNCHANGED fwdVars
  <2>1. UNCHANGED <<txVars, fpc, ret, pkts_buffer_idx>>
    BY <1>4 DEF fwdVars
  <2>2. SendTyped' /\ SendInv' /\ SendRingInv' /\ SendHwInv'
    BY <2>1, SendRests
  <2>3. UNCHANGED <<wire, returned, desc_used, running, mb, t_pc, t_hw,
                    t_done, fpc, ret, pkts_buffer_idx>>
    BY <1>4 DEF fwdVars, txVars, vars, engine
  <2>4. BatchInv'
    BY <2>3 DEF FifoInv, BatchInv, Unsent, SentNow
  <2>. QED  BY <1>1, <2>2, <2>4 DEF FifoInv
<1>. QED  BY <1>2, <1>3, <1>4 DEF FwdNext, Thread

(***************************************************************************)
(* The invariant holds of two engines just set up.                         *)
(***************************************************************************)
LEMMA FifoInvInit == FwdInit => FifoInv
<1>. SUFFICES ASSUME FwdInit  PROVE FifoInv
  OBVIOUS
<1>1. FwdInv
  BY InitIInv, DescMaxAssumption
  DEF FwdInit, Init, FwdInv, IndexTyped, IndexInv, Idx
<1>2. ASSUME NEW i \in Idx  PROVE Unused(i) /\ t_ring[i] \in Desc
  BY DEF FwdInit, xdma_desc_ring_init, BlankDesc, Desc, Flags, Unused, NoBuf,
         AdjValues
<1>3. SendTyped
  <2>1. t_ring = [i \in Idx |-> t_ring[i]]
    BY DEF FwdInit, xdma_desc_ring_init
  <2>2. t_ring \in [Idx -> Desc]
    BY <1>2, <2>1
  <2>. QED  BY <2>2 DEF FwdInit, SendTyped
<1>4. SendInv /\ SendRingInv /\ SendHwInv
  BY <1>2 DEF FwdInit, SendInv, SendRingInv, SendHwInv
<1>5. BatchInv
  BY DEF FwdInit, Init, BatchInv, Unsent
<1>. QED  BY <1>1, <1>3, <1>4, <1>5 DEF FifoInv

(***************************************************************************)
(* The invariant holds in every reachable state.                           *)
(***************************************************************************)
LEMMA FifoInvariant ==
    ASSUME TxBuild = "debug"  PROVE FwdSpec => []FifoInv
<1>1. FifoInv /\ [FwdNext]_fwdVars => FifoInv'
  BY FifoInductive
<1>. QED  BY <1>1, FifoInvInit, PTL DEF FwdSpec

(***************************************************************************)
(* A packet stored by the receive engine finds room: of the packets that   *)
(* came in, fewer than a ring's worth are not on the wire.                 *)
(***************************************************************************)
LEMMA RoomLeft ==
    ASSUME FifoInv, hw = "fetch"
    PROVE  rcvd + 1 - Len(wire) <= DescMax
<1>1. /\ running /\ Landed = done /\ done < DescMax
      /\ Len(delivered) = rcvd - Landed + Handed
      /\ Len(wire) = returned - Unsent
      /\ Len(delivered) \in Nat /\ returned \in Nat /\ rcvd \in Nat
      /\ done \in Nat /\ Handed \in Nat /\ desc_used \in Nat /\ ret \in Nat
      /\ pkts_buffer_idx \in Nat /\ DescMax \in Nat
  <2>1. done \in Nat
    BY ReceiveFacts DEF FifoInv
  <2>. QED  BY <2>1, ReceiveFacts DEF FifoInv, BatchInv
<1>2. Unsent \in Int /\ Len(delivered) - returned + Unsent <= Handed
  <2>1. CASE fpc \in {"call", "next", "end"}
    BY <1>1, <2>1, ReceiveFacts DEF FifoInv, Unsent
  <2>2. CASE fpc = "recv"
    <3>1. Unsent = 0
      BY <2>2 DEF Unsent
    <3>2. Len(delivered) - returned <= Handed
      <4>1. /\ pc \in {"poll", "test"} => returned = Len(delivered)
            /\ pc = "prep" => returned + (id - desc_used) = Len(delivered)
                              /\ Handed = id
            /\ pc = "check" => returned + nb_cmpt = Len(delivered)
                               /\ Handed = desc_used
                               /\ pkts_buffer_idx + nb_cmpt = desc_used
            /\ pc \in {"poll", "test", "prep", "check"}
        BY <2>2 DEF FifoInv, FwdInv, IInv, TypeOK, CallTyped, CountInv,
                    IndexInv, Handed
      <4>2. id \in Nat /\ nb_cmpt \in Nat
        BY Numbers DEF FifoInv, FwdInv, IInv
      <4>. QED  BY <1>1, <4>1, <4>2
    <3>. QED  BY <1>1, <3>1, <3>2
  <2>3. CASE fpc \in {"got", "send", "exit"}
    <3>1. Unsent \in Int /\ Unsent <= ret
      BY <1>1, <2>3, SendFacts DEF Unsent
    <3>2. ret <= desc_used
      <4>1. \/ pkts_buffer_idx + ret = desc_used
            \/ desc_used = 0
        BY <2>3 DEF FifoInv, FwdInv, IndexInv
      <4>2. ret > 0 /\ desc_used = 0 => ~running
        BY <2>3 DEF FifoInv, BatchInv
      <4>. QED  BY <1>1, <4>1, <4>2
    <3>3. returned = Len(delivered) /\ Handed = desc_used
      BY <2>3, ReceiveFacts DEF FifoInv
    <3>. QED  BY <1>1, <3>1, <3>2, <3>3
  <2>4. fpc \in {"call", "recv", "got", "send", "next", "end", "exit"}
    BY DEF FifoInv, FwdInv, IndexTyped
  <2>. QED  BY <2>1, <2>2, <2>3, <2>4
<1>. QED  BY <1>1, <1>2

(***************************************************************************)
(* In a debug build, for every ring size, polling limit and number of      *)
(* packets, what leaves through the second port is what came in through    *)
(* the first: in order, each packet once, none overwritten while it waits. *)
(* A batch as long as the ring is no exception: it is never completed, but *)
(* what is sent of it is right.                                            *)
(***************************************************************************)
THEOREM FwdIsFifo ==
    ASSUME TxBuild = "debug"  PROVE FwdSpec => ForwardingIsFifo
<1>1. FwdInit => EndToEnd!FifoInit
  BY DEF FwdInit, Init, EndToEnd!FifoInit
<1>2. ASSUME FifoInv, FwdRxHardware
      PROVE  [EndToEnd!FifoNext]_(EndToEnd!fifoVars)
  <2>1. wire' = wire
    BY <1>2 DEF FwdRxHardware, txVars
  <2>2. CASE HwStore
    <3>1. hw = "fetch" /\ rcvd' = rcvd + 1
      BY <2>2 DEF HwStore
    <3>2. EndToEnd!Take(1)
      BY <1>2, <2>1, <3>1, RoomLeft DEF EndToEnd!Take
    <3>3. 1 \in 1 .. DescMax
      BY DescMaxAssumption
    <3>. QED  BY <3>2, <3>3 DEF EndToEnd!FifoNext
  <2>3. CASE HwReport
    BY <2>1, <2>3 DEF HwReport, EndToEnd!fifoVars
  <2>. QED  BY <1>2, <2>2, <2>3 DEF FwdRxHardware
<1>3. ASSUME FifoInv, FwdTxHardware
      PROVE  [EndToEnd!FifoNext]_(EndToEnd!fifoVars)
  <2>1. rcvd' = rcvd
    BY <1>3 DEF FwdTxHardware, vars, dma
  <2>2. CASE Tx!HwSend
    <3>1. /\ wire' = Append(wire, Len(wire) + 1)
          /\ Len(wire) < Len(delivered)
      BY <1>3, <2>2, NextOfBatch
    <3>2. Len(delivered) <= rcvd /\ Len(delivered) \in Nat /\ rcvd \in Nat
      BY <1>3, ReceiveFacts DEF FifoInv
    <3>3. EndToEnd!Give
      BY <1>3, <2>1, <3>1, <3>2, SendFacts DEF EndToEnd!Give
    <3>. QED  BY <3>3 DEF EndToEnd!FifoNext
  <2>3. CASE Tx!HwReport \/ Tx!HwBlank
    BY <2>1, <2>3 DEF Tx!HwReport, Tx!HwBlank, Tx!sent, EndToEnd!fifoVars
  <2>. QED  BY <1>3, <2>2, <2>3 DEF FwdTxHardware
<1>4. ASSUME Thread \/ UNCHANGED fwdVars
      PROVE  UNCHANGED EndToEnd!fifoVars
  <2>1. ASSUME FwdRecv \/ FwdRecvStep \/ FwdRecvReturn
        PROVE  UNCHANGED <<rcvd, wire>>
    BY <2>1 DEF FwdRecv, FwdRecvStep, FwdRecvReturn, RecvStart, RecvResume,
                PollRead, PollHit, PollMiss, PreparePacket, PrepareDone,
                RecvStop, RecvReturn, xdma_rx_engine_start, dma, txVars
  <2>2. ASSUME FwdTestBit \/ FwdNothing \/ FwdLoop \/ UNCHANGED fwdVars
        PROVE  UNCHANGED <<rcvd, wire>>
    BY <2>2 DEF FwdTestBit, FwdNothing, FwdLoop, fwdVars, vars, dma, txVars
  <2>3. ASSUME FwdSend \/ FwdSendStep \/ FwdSendReturn
        PROVE  UNCHANGED <<rcvd, wire>>
    BY <2>3 DEF FwdSend, FwdSendStep, FwdSendReturn, Tx!XmitEnter,
                Tx!PostPacket, Tx!XmitStart, Tx!XmitReturn, Tx!sent,
                vars, dma
  <2>. QED  BY <1>4, <2>1, <2>2, <2>3 DEF Thread, EndToEnd!fifoVars
<1>5. FifoInv /\ [FwdNext]_fwdVars =>
         [EndToEnd!FifoNext]_(EndToEnd!fifoVars)
  BY <1>2, <1>3, <1>4 DEF FwdNext
<1>. QED  BY <1>1, <1>5, FifoInvariant, PTL
          DEF FwdSpec, ForwardingIsFifo, EndToEnd!FifoSpec

(***************************************************************************)
(* In a debug build, for every ring size, polling limit and number of      *)
(* packets, the receive engine is started again only when all packets of   *)
(* the run before are on the wire.                                         *)
(***************************************************************************)
THEOREM FwdRearmAfterSent ==
    ASSUME TxBuild = "debug"  PROVE FwdSpec => RearmAfterSent
<1>1. ASSUME FifoInv, [FwdNext]_fwdVars, ~running, running'
      PROVE  Len(wire) = rcvd
  <2>1. fpc = "call"
    BY <1>1 DEF FwdNext, Thread, FwdRecv, FwdRecvStep, FwdRecvReturn,
                FwdTestBit, FwdNothing, FwdSend, FwdSendStep, FwdSendReturn,
                FwdLoop, FwdRxHardware, FwdTxHardware, fwdVars, PollRead, PollHit,
                PollMiss, PreparePacket, PrepareDone, RecvStop, RecvReturn,
                xdma_rx_engine_stop, HwStore, HwReport, vars, engine
  <2>2. Len(wire) = Len(delivered)
    BY <1>1, <2>1, ReceiveFacts DEF FifoInv, BatchInv, Unsent
  <2>. QED  BY <1>1, <2>1, <2>2, ReceiveFacts DEF FifoInv
<1>2. FifoInv /\ [FwdNext]_fwdVars
         => [(~running /\ running') => Len(wire) = rcvd]_fwdVars
  BY <1>1
<1>. QED  BY <1>2, FifoInvariant, PTL DEF FwdSpec, RearmAfterSent

-----------------------------------------------------------------------------
(***************************************************************************)
(* How a send call ends.  Of a batch as long as the ring it does not: the  *)
(* terminator lies on the first descriptor, the hardware halts behind one  *)
(* packet, and the count for which the driver waits is never written.      *)
(***************************************************************************)

\* During the wait the hardware has a descriptor to process or has halted,
\* and then the count is right unless the batch is as long as the ring.
SendGoesOn ==
    t_pc = "wait" =>
        \/ t_hw = "report" /\ t_cur \in Idx
        \/ /\ t_hw = "fetch" /\ t_cur \in Idx
           /\ t_ring[t_cur].buf \in Idx \cup {NoBuf}
        \/ /\ t_hw = "halt"
           /\ Tx!Completed <=> Len(t_burst) < DescMax \/ DescMax = 1

\* Steps the hardware still takes in the wait.
SendStepsLeft == 2 * (Limit - t_done) + (IF t_hw = "fetch" THEN 1 ELSE 0)

\* Every step of the transmit hardware brings it nearer to its halt.
SendShrinks ==
    [][FwdTxHardware => /\ SendStepsLeft \in Nat /\ SendStepsLeft' \in Nat
                        /\ SendStepsLeft' < SendStepsLeft]_fwdVars

\* A batch as long as the ring stays where it is, ...
FullBurstStays == [][FullBurst => FullBurst']_fwdVars

\* ... with at most one of its packets sent.
FullBurstSendsOne ==
    FullBurst => Len(wire) <= Len(delivered) - DescMax + 1

(***************************************************************************)
(* What the hardware sends of a batch is at most the part of it in front   *)
(* of the terminator.                                                      *)
(***************************************************************************)
LEMMA WaitFacts ==
    ASSUME FifoInv, t_pc = "wait"
    PROVE  /\ Limit \in Nat /\ SentNow <= Limit /\ t_count = ret
           /\ Len(t_burst) = ret /\ ret <= DescMax /\ t_done <= Limit
           /\ t_hw \in {"fetch", "report", "halt"}
<1>1. /\ t_count = ret /\ Len(t_burst) = ret /\ ret <= DescMax
      /\ t_done \in Nat /\ t_count \in Nat
  BY SendFacts DEF FifoInv, SendInv
<1>2. Limit \in Nat
  BY <1>1 DEF Limit
<1>3. /\ t_hw \in {"fetch", "report", "halt"}
      /\ t_hw = "fetch" => t_done <= Limit
      /\ t_hw = "report" => t_done < Limit
      /\ t_hw = "halt" => t_done = Limit
  BY DEF FifoInv, SendTyped, SendHwInv
<1>4. t_done <= Limit
  BY <1>1, <1>2, <1>3
<1>5. SentNow <= Limit
  BY <1>1, <1>2, <1>3 DEF SentNow
<1>. QED  BY <1>1, <1>2, <1>3, <1>4, <1>5

(***************************************************************************)
(* In a debug build the send call never returns with a batch as long as    *)
(* the ring.                                                               *)
(***************************************************************************)
LEMMA FullBurstWaits ==
    ASSUME FifoInv, TxBuild = "debug", DescMax > 1, FullBurst
    PROVE  ~FwdSendReturn
<1>1. SUFFICES ASSUME FwdSendReturn  PROVE FALSE
  OBVIOUS
<1>2. t_pc = "wait" /\ Tx!Completed
  BY <1>1 DEF FwdSendReturn, Tx!XmitReturn
<1>3. ret = DescMax /\ t_count = DescMax
  BY <1>2, WaitFacts DEF FullBurst
<1>4. Limit = 1
  BY <1>3, SendFacts DEF Limit
<1>5. SentNow = ret
  BY <1>2, CompletedMeansSent
<1>. QED  BY <1>2, <1>3, <1>4, <1>5, WaitFacts, SendFacts

(***************************************************************************)
(* For every ring of more than one descriptor a full batch that is handed  *)
(* to rte_eth_tx_burst keeps the thread there for good, although           *)
(* testapp_count.c:99-102 allows NUM_TX_PKTS pending descriptors: what the *)
(* run forwarder_full_batch shows for one size.                            *)
(***************************************************************************)
THEOREM FwdFullBurstStays ==
    ASSUME TxBuild = "debug", DescMax > 1  PROVE FwdSpec => FullBurstStays
<1>1. ASSUME FifoInv, FwdNext, FullBurst  PROVE FullBurst'
  <2>1. fpc = "send" /\ Len(t_burst) = DescMax
    BY <1>1 DEF FullBurst
  <2>2. ~FwdSendReturn
    BY <1>1, FullBurstWaits
  <2>3. UNCHANGED <<fpc, t_burst>>
    <3>1. ASSUME FwdSendStep  PROVE UNCHANGED <<fpc, t_burst>>
      BY <3>1 DEF FwdSendStep, Tx!PostPacket, Tx!XmitStart
    <3>2. ASSUME FwdRxHardware  PROVE UNCHANGED <<fpc, t_burst>>
      BY <3>2 DEF FwdRxHardware, txVars
    <3>3. ASSUME FwdTxHardware  PROVE UNCHANGED <<fpc, t_burst>>
      BY <3>3 DEF FwdTxHardware, Tx!HwSend, Tx!HwReport, Tx!HwBlank, Tx!call
    <3>4. /\ ~FwdRecv /\ ~FwdRecvStep /\ ~FwdRecvReturn /\ ~FwdNothing
          /\ ~FwdTestBit /\ ~FwdSend /\ ~FwdLoop
      BY <2>1 DEF FwdRecv, FwdRecvStep, FwdRecvReturn, FwdTestBit,
                  FwdNothing, FwdSend, FwdLoop
    <3>. QED  BY <1>1, <2>2, <3>1, <3>2, <3>3, <3>4 DEF FwdNext, Thread
  <2>. QED  BY <2>1, <2>3 DEF FullBurst
<1>2. FifoInv /\ [FwdNext]_fwdVars => [FullBurst => FullBurst']_fwdVars
  BY <1>1
<1>. QED  BY <1>2, FifoInvariant, PTL DEF FwdSpec, FullBurstStays

(***************************************************************************)
(* Of a full batch, which the thread has received, one packet at most      *)
(* leaves: the others are never sent, whatever the size of the ring.       *)
(***************************************************************************)
THEOREM FwdFullBurstSendsOne ==
    ASSUME TxBuild = "debug"  PROVE FwdSpec => []FullBurstSendsOne
<1>1. ASSUME FifoInv, FullBurst
      PROVE  Len(wire) <= Len(delivered) - DescMax + 1
  <2>1. fpc = "send" /\ Len(t_burst) = DescMax /\ t_pc # "idle"
    BY <1>1 DEF FullBurst, FifoInv, SendInv
  <2>2. /\ ret = DescMax /\ SentNow \in Nat /\ DescMax \in Nat
        /\ DescMax > 0
    BY <1>1, <2>1, SendFacts
  <2>3. /\ Len(wire) = returned - Unsent /\ Unsent = ret - SentNow
        /\ returned = Len(delivered) /\ returned \in Nat
    BY <1>1, <2>1, ReceiveFacts DEF FifoInv, BatchInv, Unsent
  <2>4. SentNow <= 1
    <3>1. CASE t_pc = "wait"
      <4>1. t_count = DescMax /\ SentNow <= Limit
        BY <1>1, <2>2, <3>1, WaitFacts
      <4>2. Limit = 1
        BY <2>2, <4>1 DEF Limit
      <4>. QED  BY <4>1, <4>2
    <3>2. CASE t_pc # "wait"
      BY <3>2 DEF SentNow
    <3>. QED  BY <3>1, <3>2
  <2>. QED  BY <2>2, <2>3, <2>4
<1>2. FifoInv => FullBurstSendsOne
  BY <1>1 DEF FullBurstSendsOne
<1>. QED  BY <1>2, FifoInvariant, PTL

(***************************************************************************)
(* In a debug build the wait of the send call is stuck in one state only:  *)
(* the hardware has halted and the batch is as long as a ring of more than *)
(* one descriptor.                                                         *)
(***************************************************************************)
THEOREM FwdSendGoesOn ==
    ASSUME TxBuild = "debug"  PROVE FwdSpec => []SendGoesOn
<1>1. ASSUME FifoInv, t_pc = "wait", t_hw = "report"
      PROVE  t_cur \in Idx
  <2>1. t_cur = t_done /\ t_done < Limit
    BY <1>1 DEF FifoInv, SendHwInv
  <2>2. Limit <= DescMax
    BY <1>1, WaitFacts, SendFacts DEF Limit
  <2>. QED  BY <1>1, <2>1, <2>2, WaitFacts, SendFacts DEF Idx
<1>2. ASSUME FifoInv, t_pc = "wait", t_hw = "fetch"
      PROVE  t_cur \in Idx /\ t_ring[t_cur].buf \in Idx \cup {NoBuf}
  <2>1. /\ t_cur = t_done /\ t_done <= Limit
        /\ t_done = Limit => t_count < DescMax
    BY <1>2 DEF FifoInv, SendHwInv
  <2>2. /\ t_count = ret /\ pkts_buffer_idx + ret <= DescMax
        /\ ret \in Nat /\ pkts_buffer_idx \in Nat /\ DescMax \in Nat
        /\ DescMax > 0 /\ t_done \in Nat /\ Limit \in Nat
    BY <1>2, WaitFacts, SendFacts
  <2>3. CASE t_count < DescMax
    <3>1. Limit = t_count /\ t_cur \in Idx
      BY <2>1, <2>2, <2>3 DEF Limit, Idx
    <3>2. CASE t_cur < t_count
      <4>1. t_ring[t_cur].buf = pkts_buffer_idx + t_cur
        BY <1>2, <2>3, <3>1, <3>2 DEF FifoInv, SendRingInv, Sends
      <4>2. pkts_buffer_idx + t_cur \in Idx
        BY <2>1, <2>2, <3>2 DEF Idx
      <4>. QED  BY <3>1, <4>1, <4>2
    <3>3. CASE t_cur = t_count
      BY <1>2, <2>3, <3>1, <3>3 DEF FifoInv, SendRingInv
    <3>4. t_cur <= t_count
      BY <2>1, <3>1
    <3>. QED  BY <2>1, <2>2, <3>2, <3>3, <3>4
  <2>4. CASE ~(t_count < DescMax)
    <3>1. t_count = DescMax /\ t_cur = 0 /\ 0 \in Idx
      <4>1. t_count = DescMax /\ Limit = 1
        BY <1>2, <2>2, <2>4, SendFacts DEF Limit
      <4>2. t_done = 0
        BY <2>1, <2>2, <2>4, <4>1
      <4>. QED  BY <2>1, <2>2, <4>1, <4>2 DEF Idx
    <3>2. t_ring[0].buf = pkts_buffer_idx
      BY <1>2, <3>1 DEF FifoInv, SendRingInv
    <3>3. pkts_buffer_idx \in Idx
      BY <1>2 DEF FifoInv, FwdInv, IndexTyped
    <3>. QED  BY <3>1, <3>2, <3>3
  <2>. QED  BY <2>3, <2>4
<1>3. ASSUME FifoInv, t_pc = "wait", t_hw = "halt"
      PROVE  Tx!Completed <=> Len(t_burst) < DescMax \/ DescMax = 1
  <2>1. /\ t_wb = t_done /\ t_done = Limit /\ t_count = ret
        /\ Len(t_burst) = ret
        /\ ret \in Nat /\ ret <= DescMax /\ DescMax \in Nat /\ DescMax > 0
    BY <1>3, WaitFacts, SendFacts DEF FifoInv, SendHwInv
  <2>2. Limit = ret <=> (ret < DescMax \/ DescMax = 1)
    BY <2>1 DEF Limit
  <2>3. ASSUME Tx!Completed  PROVE Limit = ret
    <3>1. SentNow = t_done
      BY <1>3 DEF SentNow
    <3>. QED  BY <1>3, <2>1, <2>3, <3>1, CompletedMeansSent
  <2>4. ASSUME Limit = ret  PROVE Tx!Completed
    <3>1. t_wb = ret
      BY <2>1, <2>4
    <3>2. ret % (2 ^ 24) = ret
      <4>1. 65536 < 2 ^ 24
        OBVIOUS
      <4>2. 2 ^ 24 \in Nat
        OBVIOUS
      <4>3. ret < 2 ^ 24
        BY <2>1, <4>1, <4>2, RxAssumption
      <4>4. ASSUME NEW n \in Nat, ret < n  PROVE ret % n = ret
        BY <2>1, <4>4
      <4>. QED  BY <4>2, <4>3, <4>4, Zenon
    <3>. QED  BY <2>1, <3>1, <3>2 DEF Tx!Completed, Tx!nb_pkts
  <2>. QED  BY <2>1, <2>2, <2>3, <2>4
<1>4. FifoInv => SendGoesOn
  BY <1>1, <1>2, <1>3, WaitFacts DEF SendGoesOn
<1>. QED  BY <1>4, FifoInvariant, PTL

(***************************************************************************)
(* In a debug build the transmit hardware takes at most 2 * ret + 1 steps  *)
(* in a send call and is then at a halt.                                   *)
(***************************************************************************)
THEOREM FwdSendShrinks ==
    ASSUME TxBuild = "debug"  PROVE FwdSpec => SendShrinks
<1>1. ASSUME FifoInv, FifoInv', FwdTxHardware
      PROVE  /\ SendStepsLeft \in Nat /\ SendStepsLeft' \in Nat
             /\ SendStepsLeft' < SendStepsLeft
  <2>1. /\ t_pc = "wait" /\ t_pc' = "wait" /\ t_count' = t_count
        /\ Limit' = Limit
    <3>1. t_hw \in {"fetch", "report"} /\ UNCHANGED <<t_pc, t_count>>
      BY <1>1 DEF FwdTxHardware, Tx!HwSend, Tx!HwReport, Tx!HwBlank, Tx!call
    <3>2. t_pc = "wait"
      BY <1>1, <3>1 DEF FifoInv, SendHwInv
    <3>. QED  BY <3>1, <3>2 DEF Limit
  <2>2. /\ Limit \in Nat /\ t_done \in Nat /\ t_done <= Limit
        /\ t_done' \in Nat /\ t_done' <= Limit
    <3>1. t_done \in Nat /\ t_done' \in Nat
      BY <1>1 DEF FifoInv, SendTyped
    <3>2. Limit \in Nat /\ t_done <= Limit
      BY <1>1, <2>1, WaitFacts
    <3>3. t_done' <= Limit'
      <4>1. /\ t_hw' \in {"fetch", "report", "halt"}
            /\ t_hw' = "fetch" => t_done' <= Limit'
            /\ t_hw' = "report" => t_done' < Limit'
            /\ t_hw' = "halt" => t_done' = Limit'
        BY <1>1, <2>1 DEF FifoInv, SendTyped, SendHwInv
      <4>. QED  BY <2>1, <3>1, <3>2, <4>1
    <3>. QED  BY <2>1, <3>1, <3>2, <3>3
  <2>3. CASE Tx!HwSend
    <3>1. /\ t_hw = "fetch" /\ t_hw' = "report" /\ t_done' = t_done
      BY <2>3 DEF Tx!HwSend
    <3>2. /\ SendStepsLeft = 2 * (Limit - t_done) + 1
          /\ SendStepsLeft' = 2 * (Limit - t_done) + 0
      BY <2>1, <3>1 DEF SendStepsLeft
    <3>. QED  BY <2>2, <3>2
  <2>4. CASE Tx!HwReport
    <3>1. /\ t_hw = "report" /\ t_done' = t_done + 1
      BY <2>4 DEF Tx!HwReport
    <3>2. /\ SendStepsLeft = 2 * (Limit - t_done) + 0
          /\ \/ SendStepsLeft' = 2 * (Limit - (t_done + 1)) + 1
             \/ SendStepsLeft' = 2 * (Limit - (t_done + 1)) + 0
      BY <2>1, <3>1 DEF SendStepsLeft
    <3>3. t_done + 1 <= Limit
      BY <2>2, <3>1
    <3>. QED  BY <2>2, <3>2, <3>3
  <2>5. CASE Tx!HwBlank
    <3>1. /\ t_hw = "fetch" /\ t_done' = t_done
          /\ \/ t_hw' = "halt"
             \/ t_hw' = "fetch" /\ t_cur' = t_cur + 1
      BY <2>5 DEF Tx!HwBlank, Tx!NextDesc
    <3>2. t_hw' # "fetch"
      <4>1. t_cur = t_done
        BY <1>1, <2>1, <3>1 DEF FifoInv, SendHwInv
      <4>2. t_hw' = "fetch" => t_cur' = t_done'
        BY <1>1, <2>1 DEF FifoInv, SendHwInv
      <4>. QED  BY <2>2, <3>1, <4>1, <4>2
    <3>3. /\ SendStepsLeft = 2 * (Limit - t_done) + 1
          /\ SendStepsLeft' = 2 * (Limit - t_done) + 0
      BY <2>1, <3>1, <3>2 DEF SendStepsLeft
    <3>. QED  BY <2>2, <3>3
  <2>. QED  BY <1>1, <2>3, <2>4, <2>5 DEF FwdTxHardware
<1>2. FifoInv /\ FifoInv' /\ [FwdNext]_fwdVars =>
        [FwdTxHardware => /\ SendStepsLeft \in Nat /\ SendStepsLeft' \in Nat
                          /\ SendStepsLeft' < SendStepsLeft]_fwdVars
  BY <1>1
<1>. QED  BY <1>2, FifoInvariant, PTL DEF FwdSpec, SendShrinks
=============================================================================
