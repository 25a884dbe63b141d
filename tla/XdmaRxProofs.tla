---------------------------- MODULE XdmaRxProofs ----------------------------
(***************************************************************************)
(* The receive path for every ring size, polling limit and number of       *)
(* packets.  The inductive invariant IInv ties together the three parties  *)
(* that never talk to each other directly: the driver's desc_used, the     *)
(* count the hardware wrote back, and the descriptor the hardware is at.   *)
(***************************************************************************)
EXTENDS XdmaRx, TLAPS

\* Descriptors of the current run of the engine whose data is in memory.
Landed == IF hw = "off" THEN 0 ELSE IF hw = "report" THEN done + 1 ELSE done

\* A stopped engine is as xdma_rx_engine_setup or xdma_rx_engine_stop left it.
StoppedInv ==
    ~running => /\ hw = "off"
                /\ pc = "idle"
                /\ desc_used = 0
                /\ wb = 0

\* A running engine has a full ring, works on the descriptor after the last
\* one it reported, and the driver is not ahead of what was reported.
RunningInv ==
    running => /\ hw # "off"
               /\ \A i \in Idx : ring[i].buf = i /\ "COMPLETED" \in ring[i].flags
               /\ hw \in {"fetch", "report"} => cur = done /\ done < DescMax
               /\ hw = "halt" => done = DescMax
               /\ wb = done
               /\ desc_used <= wb

\* STOPPED is where xdma_desc_ring_init put it and nowhere else.
FlagsInv == \A i \in Idx : "STOPPED" \in ring[i].flags <=> i = DescMax - 1

\* What a call has established by the time it is where it is.
CallInv ==
    /\ pc # "idle" => nb_pkts = NbPkts
    /\ pc \in {"test", "prep"} => desc_used <= old /\ old <= wb
    /\ pc = "prep" => desc_used <= id /\ id <= old

\* The packets in the mbufs are the last Landed ones received, in order, and
\* all packets before them, and the first Handed of them, are delivered.
OrderInv ==
    /\ swb = rcvd
    /\ Landed <= rcvd
    /\ \A i \in Idx : i < Landed => mb[i].pkt = rcvd - Landed + i + 1
    /\ Len(delivered) = rcvd - Landed + Handed

\* The counts returned so far, the one of the current call included.
CountInv ==
    /\ pc = "idle" => returned = Len(delivered)
    /\ pc \in {"poll", "test"} => returned = Len(delivered) /\ nb_cmpt = 0
    /\ pc = "prep" => returned + (id - desc_used) = Len(delivered)
    /\ pc = "check" => returned + nb_cmpt = Len(delivered)

IInv ==
    /\ TypeOK
    /\ StoppedInv
    /\ RunningInv
    /\ FlagsInv
    /\ CallInv
    /\ OrderInv
    /\ CountInv
    /\ LengthNotStale

-----------------------------------------------------------------------------
(***************************************************************************)
(* What the remainders of the code come to for the values it applies them  *)
(* to: ring indices, desc_used after a full ring, and uint16_t counts.     *)
(***************************************************************************)
LEMMA RingRemainder ==
    /\ \A i \in Idx : i % DescMax = i
    /\ DescMax % DescMax = 0
  BY DescMaxAssumption DEF Idx

LEMMA CountRemainder == \A n \in 0 .. DescMax : n % 65536 = n
  BY RxAssumption, DescMaxAssumption

(***************************************************************************)
(* The numbers among the variables.                                        *)
(***************************************************************************)
LEMMA Numbers ==
    ASSUME TypeOK
    PROVE  /\ desc_used \in Nat /\ wb \in Nat /\ swb \in Nat
           /\ old \in Nat /\ id \in Nat /\ nb_cmpt \in Nat
           /\ done \in Nat /\ rcvd \in Nat /\ rcvd <= MaxPkts
           /\ returned \in Nat /\ Len(delivered) \in Nat
<1>1. desc_used \in Nat
  BY DEF TypeOK, EngineTyped
<1>2. old \in Nat /\ id \in Nat /\ nb_cmpt \in Nat
  BY DEF TypeOK, CallTyped
<1>3. done \in Nat /\ rcvd \in Nat /\ rcvd <= MaxPkts
  BY RxAssumption DEF TypeOK, DmaTyped
<1>4. wb \in Nat /\ swb \in Nat /\ returned \in Nat /\ Len(delivered) \in Nat
  BY DEF TypeOK, HostTyped
<1> QED
  BY <1>1, <1>2, <1>3, <1>4

(***************************************************************************)
(* What RecvStart makes of a stopped engine: every descriptor gets its     *)
(* buffer, keeps STOPPED as it was, and desc_used is back at 0.            *)
(***************************************************************************)
LEMMA StartFillsRing ==
    ASSUME ring \in [Idx -> Desc], desc_used = 0
    PROVE  /\ Clamped = DescMax
           /\ get_desc(desc_used, Clamped) = 0
           /\ xdma_c2h_desc_set(Clamped) \in [Idx -> Desc]
           /\ \A i \in Idx :
                 /\ xdma_c2h_desc_set(Clamped)[i].buf = i
                 /\ xdma_c2h_desc_set(Clamped)[i].flags
                        = ring[i].flags \cup {"COMPLETED"}
<1>1. Clamped = DescMax
  BY RxAssumption, DescMaxAssumption DEF Clamped
<1>2. get_desc(desc_used, Clamped) = 0
  BY <1>1, RingRemainder, DescMaxAssumption DEF get_desc
<1>3. ASSUME NEW i \in Idx
      PROVE  xdma_c2h_desc_set(Clamped)[i]
                = [flags |-> ring[i].flags \cup {"COMPLETED"},
                   buf |-> i, adj |-> ring[i].adj]
  <2>1. (i - desc_used) % DescMax = i /\ i < Clamped
    BY <1>1, RingRemainder, DescMaxAssumption DEF Idx
  <2> QED
    BY <2>1 DEF xdma_c2h_desc_set, xdma_desc_control_set, Desc
<1>4. xdma_c2h_desc_set(Clamped) \in [Idx -> Desc]
  <2>1. ASSUME NEW i \in Idx PROVE xdma_c2h_desc_set(Clamped)[i] \in Desc
    <3>1. ring[i] \in Desc /\ i \in Nat
      BY DescMaxAssumption DEF Idx
    <3>2. ring[i].flags \cup {"COMPLETED"} \in SUBSET Flags
      BY <3>1 DEF Desc, Flags
    <3>3. [flags |-> ring[i].flags \cup {"COMPLETED"},
           buf |-> i, adj |-> ring[i].adj] \in Desc
      BY <3>1, <3>2 DEF Desc
    <3> QED
      BY <1>3, <3>3
  <2> QED
    BY <2>1 DEF xdma_c2h_desc_set
<1> QED
  BY <1>1, <1>2, <1>3, <1>4

(***************************************************************************)
(* What xdma_rx_engine_stop does to the ring: the buffers go, the flags    *)
(* stay.                                                                   *)
(***************************************************************************)
LEMMA StopKeepsFlags ==
    ASSUME ring \in [Idx -> Desc]
    PROVE  /\ xdma_desc_ring_clear(ring, "C2H") \in [Idx -> Desc]
           /\ \A i \in Idx :
                 xdma_desc_ring_clear(ring, "C2H")[i].flags = ring[i].flags
  BY DEF xdma_desc_ring_clear, Desc, NoBuf

(***************************************************************************)
(* The invariant holds when xdma_rx_engine_setup is done.                  *)
(***************************************************************************)
LEMMA InitIInv == Init => IInv
<1> SUFFICES ASSUME Init PROVE IInv
  OBVIOUS
<1>1. ring \in [Idx -> Desc]
  BY DescMaxAssumption
  DEF Init, xdma_desc_ring_init, BlankDesc, Desc, Flags, NoBuf, AdjValues
<1>2. FlagsInv
  BY DescMaxAssumption
  DEF Init, FlagsInv, xdma_desc_ring_init, BlankDesc, Flags, Idx
<1>3. mb \in [Idx -> Mbuf]
  BY DEF Init, Mbuf
<1>4. running \in BOOLEAN /\ ~running
  BY DEF Init
<1>5. TypeOK
  <2>1. EngineTyped
    BY <1>1, <1>4 DEF Init, EngineTyped
  <2>2. CallTyped
    BY RxAssumption DEF Init, CallTyped
  <2>3. DmaTyped
    BY RxAssumption, DescMaxAssumption DEF Init, DmaTyped
  <2>4. HostTyped
    BY <1>3 DEF Init, HostTyped
  <2> QED
    BY <2>1, <2>2, <2>3, <2>4 DEF TypeOK
<1>6. StoppedInv /\ RunningInv
  BY <1>4 DEF Init, StoppedInv, RunningInv
<1>7. CallInv /\ CountInv
  BY DEF Init, CallInv, CountInv
<1>8. OrderInv /\ LengthNotStale
  BY DescMaxAssumption
  DEF Init, OrderInv, LengthNotStale, Landed, Handed, Idx
<1> QED
  BY <1>2, <1>5, <1>6, <1>7, <1>8 DEF IInv
(***************************************************************************)
(* The steps of a call that touch nothing but the call's own locals.       *)
(***************************************************************************)
LEMMA LocalSteps ==
    IInv /\ (RecvResume \/ PollRead \/ PollHit \/ PollMiss) => IInv'
<1>1. ASSUME IInv, RecvResume PROVE IInv'
  <2> USE <1>1 DEF IInv, RecvResume, CallFrame, engine, dma
  <2>1. EngineTyped' /\ DmaTyped' /\ HostTyped'
    BY DEF TypeOK, EngineTyped, DmaTyped, HostTyped
  <2>2. CallTyped'
    BY RxAssumption, DescMaxAssumption DEF TypeOK, CallTyped
  <2>3. StoppedInv' /\ RunningInv' /\ FlagsInv' /\ CallInv'
    BY DEF StoppedInv, RunningInv, FlagsInv, CallInv
  <2>4. Handed' = Handed /\ Landed' = Landed
    BY DEF Handed, Landed
  <2>5. OrderInv' /\ CountInv' /\ LengthNotStale'
    BY <2>4 DEF OrderInv, CountInv, LengthNotStale
  <2> QED
    BY <2>1, <2>2, <2>3, <2>5 DEF TypeOK
<1>2. ASSUME IInv, PollRead PROVE IInv'
  <2> USE <1>2 DEF IInv, PollRead, engine, dma
  <2>1. EngineTyped' /\ DmaTyped' /\ HostTyped'
    BY DEF TypeOK, EngineTyped, DmaTyped, HostTyped
  <2>2. CallTyped'
    BY Numbers DEF TypeOK, CallTyped
  <2>3. StoppedInv' /\ RunningInv' /\ FlagsInv'
    BY DEF StoppedInv, RunningInv, FlagsInv
  <2>4. CallInv'
    BY Numbers DEF StoppedInv, RunningInv, CallInv
  <2>5. Handed' = Handed /\ Landed' = Landed
    BY DEF Handed, Landed
  <2>6. OrderInv' /\ CountInv' /\ LengthNotStale'
    BY <2>5 DEF OrderInv, CountInv, LengthNotStale
  <2> QED
    BY <2>1, <2>2, <2>3, <2>4, <2>6 DEF TypeOK
<1>3. ASSUME IInv, PollHit PROVE IInv'
  <2> USE <1>3 DEF IInv, PollHit, engine, dma
  <2>1. EngineTyped' /\ DmaTyped' /\ HostTyped'
    BY DEF TypeOK, EngineTyped, DmaTyped, HostTyped
  <2>2. CallTyped'
    BY Numbers DEF TypeOK, CallTyped
  <2>3. StoppedInv' /\ RunningInv' /\ FlagsInv'
    BY DEF StoppedInv, RunningInv, FlagsInv
  <2>4. CallInv'
    BY Numbers DEF CallInv
  <2>5. Handed' = Handed /\ Landed' = Landed
    BY DEF Handed, Landed
  <2>6. OrderInv' /\ LengthNotStale'
    BY <2>5 DEF OrderInv, LengthNotStale
  <2>7. CountInv'
    BY Numbers DEF CountInv
  <2> QED
    BY <2>1, <2>2, <2>3, <2>4, <2>6, <2>7 DEF TypeOK
<1>4. ASSUME IInv, PollMiss PROVE IInv'
  <2> USE <1>4 DEF IInv, PollMiss, engine, dma
  <2>1. EngineTyped' /\ DmaTyped' /\ HostTyped'
    BY DEF TypeOK, EngineTyped, DmaTyped, HostTyped
  <2>2. CallTyped'
    BY RxAssumption DEF TypeOK, CallTyped, RoundsLeft
  <2>3. StoppedInv' /\ RunningInv' /\ FlagsInv' /\ CallInv'
    BY DEF StoppedInv, RunningInv, FlagsInv, CallInv
  <2>4. Handed' = Handed /\ Landed' = Landed
    BY DEF Handed, Landed
  <2>5. OrderInv' /\ LengthNotStale'
    BY <2>4 DEF OrderInv, LengthNotStale
  <2>6. CountInv'
    BY Numbers DEF CountInv
  <2> QED
    BY <2>1, <2>2, <2>3, <2>5, <2>6 DEF TypeOK
<1> QED
  BY <1>1, <1>2, <1>3, <1>4

(***************************************************************************)
(* RecvStart turns a stopped engine into a running one with a full ring.   *)
(***************************************************************************)
LEMMA StartStep ==
    ASSUME IInv, RecvStart
    PROVE  IInv'
<1> USE DEF IInv, RecvStart, CallFrame, xdma_rx_engine_start
<1>1. DescMax \in Nat /\ DescMax > 0 /\ NbPkts = DescMax /\ PollLimit \in Nat
  BY RxAssumption, DescMaxAssumption
<1>2. desc_used = 0 /\ hw = "off" /\ wb = 0
  BY DEF StoppedInv
<1>3. ring \in [Idx -> Desc]
  BY DEF TypeOK, EngineTyped
<1>4. /\ Clamped = DescMax
      /\ desc_used' = 0
      /\ ring' \in [Idx -> Desc]
      /\ \A i \in Idx : /\ ring'[i].buf = i
                        /\ ring'[i].flags = ring[i].flags \cup {"COMPLETED"}
  BY <1>2, <1>3, StartFillsRing
<1>5. running' = TRUE /\ running' \in BOOLEAN
  OBVIOUS
<1>6. TypeOK'
  <2>1. EngineTyped'
    BY <1>4, <1>5 DEF EngineTyped
  <2>2. CallTyped'
    BY <1>1, <1>4 DEF TypeOK, CallTyped
  <2>3. DmaTyped'
    BY <1>1 DEF TypeOK, DmaTyped
  <2>4. HostTyped'
    BY DEF TypeOK, HostTyped
  <2> QED
    BY <2>1, <2>2, <2>3, <2>4 DEF TypeOK
<1>7. StoppedInv'
  BY <1>5 DEF StoppedInv
<1>8. RunningInv'
  BY <1>1, <1>2, <1>4 DEF RunningInv
<1>9. FlagsInv'
  BY <1>4 DEF FlagsInv
<1>10. CallInv'
  BY <1>1, <1>4 DEF CallInv
<1>11. Landed' = Landed /\ Landed = 0 /\ Handed' = 0 /\ Handed = 0
  BY <1>2, <1>4 DEF Landed, Handed
<1>12. OrderInv'
  BY <1>1, <1>11 DEF OrderInv, Idx
<1>13. CountInv'
  BY DEF CountInv
<1>14. LengthNotStale'
  BY <1>1, <1>11 DEF LengthNotStale, Idx
<1> QED
  BY <1>6, <1>7, <1>8, <1>9, <1>10, <1>12, <1>13, <1>14

(***************************************************************************)
(* Inside prepare_packets the loop variable lies between what was handed   *)
(* over before and what the hardware has reported.                         *)
(***************************************************************************)
LEMMA PrepareBounds ==
    ASSUME IInv, pc = "prep"
    PROVE  /\ running /\ hw # "off"
           /\ desc_used <= id /\ id <= old /\ old <= done /\ done <= DescMax
           /\ done <= Landed /\ Landed \in Nat
<1> USE DEF IInv
<1>1. DescMax \in Nat
  BY DescMaxAssumption
<1>2. running
  BY DEF StoppedInv
<1>3. hw \in {"fetch", "report", "halt"}
  BY <1>2 DEF RunningInv, TypeOK, DmaTyped
<1>4. wb = done /\ done <= DescMax
  BY <1>1, <1>2, <1>3, Numbers DEF RunningInv
<1>5. done <= Landed /\ Landed \in Nat
  BY <1>3, Numbers DEF Landed
<1> QED
  BY <1>2, <1>3, <1>4, <1>5 DEF CallInv

(***************************************************************************)
(* prepare_packets: one packet more is handed over, or the count is kept.  *)
(***************************************************************************)
LEMMA PrepareSteps ==
    IInv /\ (PreparePacket \/ PrepareDone) => IInv'
<1>1. ASSUME IInv, PreparePacket PROVE IInv'
  <2>1. /\ pc = "prep" /\ id < old /\ id \in Idx /\ id' = id + 1
        /\ mb' = [mb EXCEPT ![id].len = swb]
        /\ delivered' = Append(delivered, mb[id].pkt)
        /\ UNCHANGED <<pc, nb_pkts, tran_time, old, nb_cmpt, wb, swb, returned,
                       running, desc_used, ring, hw, cur, done, rcvd>>
    BY <1>1 DEF PreparePacket, MoreToPrepare, engine, dma
  <2>2. /\ running /\ hw # "off"
        /\ desc_used <= id /\ id <= old /\ old <= done /\ done <= DescMax
        /\ done <= Landed /\ Landed \in Nat
    BY <1>1, <2>1, PrepareBounds
  <2>3. /\ TypeOK /\ StoppedInv /\ RunningInv /\ FlagsInv /\ CallInv
        /\ OrderInv /\ CountInv /\ LengthNotStale
    BY <1>1 DEF IInv
  <2>4. /\ desc_used \in Nat /\ old \in Nat /\ id \in Nat /\ done \in Nat
        /\ rcvd \in Nat /\ returned \in Nat /\ Len(delivered) \in Nat
        /\ swb \in Nat
    BY <2>3, Numbers
  <2>5. Handed = id /\ Handed' = id + 1 /\ Landed' = Landed
    BY <2>1 DEF Handed, Landed
  <2>6. mb \in [Idx -> Mbuf] /\ delivered \in Seq(Nat)
    BY <2>3 DEF TypeOK, HostTyped
  <2>7. ASSUME NEW i \in Idx
        PROVE  /\ mb[i].pkt \in Nat /\ mb'[i] \in Mbuf
               /\ mb'[i].pkt = mb[i].pkt
               /\ mb'[i].len = IF i = id THEN swb ELSE mb[i].len
    <3>1. mb[i] \in Mbuf
      BY <2>6
    <3>2. CASE i = id
      <4>1. mb'[i] = [pkt |-> mb[i].pkt, len |-> swb]
        BY <2>1, <2>6, <3>1, <3>2 DEF Mbuf
      <4>. QED  BY <2>4, <3>1, <3>2, <4>1 DEF Mbuf
    <3>3. CASE i # id
      BY <2>1, <2>6, <3>1, <3>3 DEF Mbuf
    <3>. QED  BY <3>2, <3>3
  <2>8. mb' \in [Idx -> Mbuf]
    BY <2>1, <2>6, <2>7
  <2>9. /\ delivered' \in Seq(Nat)
        /\ Len(delivered') = Len(delivered) + 1
    BY <2>1, <2>6, <2>7
  <2>10. TypeOK'
    <3>1. EngineTyped' /\ DmaTyped'
      BY <2>1, <2>3 DEF TypeOK, EngineTyped, DmaTyped
    <3>2. CallTyped'
      <4>1. id' \in Nat
        BY <2>1, <2>4
      <4>. QED  BY <2>1, <2>3, <4>1 DEF TypeOK, CallTyped
    <3>3. HostTyped'
      BY <2>1, <2>3, <2>8, <2>9 DEF TypeOK, HostTyped
    <3>. QED  BY <3>1, <3>2, <3>3 DEF TypeOK
  <2>11. StoppedInv' /\ RunningInv' /\ FlagsInv'
    BY <2>1, <2>3 DEF StoppedInv, RunningInv, FlagsInv
  <2>12. CallInv'
    <3>1. desc_used <= id + 1 /\ id + 1 <= old
      BY <2>1, <2>2, <2>4
    <3>. QED  BY <2>1, <2>3, <3>1 DEF CallInv
  <2>13. OrderInv'
    <3>1. /\ swb = rcvd /\ Landed <= rcvd
          /\ Len(delivered) = rcvd - Landed + Handed
          /\ \A i \in Idx : i < Landed => mb[i].pkt = rcvd - Landed + i + 1
      BY <2>3 DEF OrderInv
    <3>2. Len(delivered') = rcvd - Landed + Handed'
      BY <2>2, <2>4, <2>5, <2>9, <3>1
    <3>. QED  BY <2>1, <2>5, <2>7, <3>1, <3>2 DEF OrderInv
  <2>14. CountInv'
    <3>1. returned + (id + 1 - desc_used) = Len(delivered')
      <4>1. returned + (id - desc_used) = Len(delivered)
        BY <2>1, <2>3 DEF CountInv
      <4>. QED  BY <2>4, <2>9, <4>1
    <3>. QED  BY <2>1, <2>4, <2>9, <3>1 DEF CountInv
  <2>15. mb[id].pkt <= swb
    <3>1. id < Landed
      BY <2>1, <2>2, <2>4
    <3>2. swb = rcvd /\ mb[id].pkt = rcvd - Landed + id + 1
      BY <2>1, <2>3, <3>1 DEF OrderInv
    <3>. QED  BY <2>2, <2>4, <3>1, <3>2
  <2>16. LengthNotStale'
    <3>1. ASSUME NEW i \in Idx, i < id + 1 PROVE mb'[i].len >= mb'[i].pkt
      <4>1. CASE i = id
        BY <2>7, <2>15, <4>1
      <4>2. CASE i # id
        <5>1. i < id
          BY <2>4, <3>1, <4>2, DescMaxAssumption DEF Idx
        <5>. QED  BY <2>3, <2>5, <2>7, <4>2, <5>1 DEF LengthNotStale
      <4>. QED  BY <4>1, <4>2
    <3>. QED  BY <2>5, <3>1 DEF LengthNotStale
  <2>. QED  BY <2>10, <2>11, <2>12, <2>13, <2>14, <2>16 DEF IInv
<1>2. ASSUME IInv, PrepareDone PROVE IInv'
  <2> USE <1>2 DEF IInv, PrepareDone, engine, dma
  <2>1. /\ pc = "prep" /\ running /\ hw # "off"
        /\ desc_used <= id /\ id <= old /\ old <= done /\ done <= DescMax
    BY PrepareBounds
  <2>2. id = old
    BY <2>1, Numbers DEF MoreToPrepare
  <2>3. nb_cmpt' = old - desc_used /\ nb_cmpt' \in Nat /\ nb_cmpt' < 65536
    <3>1. old - desc_used \in 0 .. DescMax
      BY <2>1, Numbers, DescMaxAssumption
    <3>2. (old - desc_used) % 65536 = old - desc_used
      BY <3>1, CountRemainder
    <3>3. nb_cmpt' = old - desc_used
      BY <3>2 DEF CompletedNow
    <3> QED
      BY <3>1, <3>3, RxAssumption, DescMaxAssumption
  <2>4. Handed = id /\ Handed' = id /\ Landed' = Landed
    BY <2>1, <2>2 DEF Handed, Landed
  <2>5. EngineTyped' /\ DmaTyped' /\ HostTyped'
    BY Numbers DEF TypeOK, EngineTyped, DmaTyped, HostTyped
  <2>6. CallTyped'
    BY <2>3 DEF TypeOK, CallTyped
  <2>7. StoppedInv' /\ FlagsInv' /\ CallInv'
    BY <2>1 DEF StoppedInv, FlagsInv, CallInv
  <2>8. RunningInv'
    BY <2>1 DEF RunningInv
  <2>9. OrderInv' /\ LengthNotStale'
    BY <2>4 DEF OrderInv, LengthNotStale
  <2>10. CountInv'
    BY <2>1, <2>2, <2>3, Numbers DEF CountInv
  <2> QED
    BY <2>5, <2>6, <2>7, <2>8, <2>9, <2>10 DEF TypeOK
<1> QED
  BY <1>1, <1>2

(***************************************************************************)
(* A complete batch finds the hardware halted with every packet handed     *)
(* over: what lets xdma_rx_engine_stop do without a handshake.             *)
(***************************************************************************)
LEMMA CompleteMeansHalted ==
    ASSUME IInv, pc = "check", BatchComplete
    PROVE  hw = "halt" /\ running /\ Len(delivered) = rcvd
<1> USE DEF IInv
<1>1. DescMax \in Nat /\ desc_used = DescMax
  BY RxAssumption, DescMaxAssumption DEF BatchComplete, CallInv
<1>2. running
  BY DEF StoppedInv
<1>3. hw \in {"fetch", "report", "halt"}
  BY <1>2 DEF RunningInv, TypeOK, DmaTyped
<1>4. hw = "halt" /\ done = DescMax
  BY <1>1, <1>2, <1>3, Numbers DEF RunningInv
<1>5. Landed = DescMax /\ Handed = DescMax
  BY <1>1, <1>4 DEF Landed, Handed
<1> QED
  BY <1>1, <1>2, <1>4, <1>5, Numbers DEF OrderInv

(***************************************************************************)
(* The two ways out of xdma_recv_pkts.                                     *)
(***************************************************************************)
LEMMA ReturnSteps ==
    IInv /\ (RecvStop \/ RecvReturn) => IInv'
<1>1. ASSUME IInv, RecvStop PROVE IInv'
  <2> USE <1>1 DEF IInv, RecvStop, xdma_rx_engine_stop
  <2>1. Len(delivered) = rcvd
    BY CompleteMeansHalted
  <2>2. ring \in [Idx -> Desc]
    BY DEF TypeOK, EngineTyped
  <2>3. /\ ring' \in [Idx -> Desc]
        /\ \A i \in Idx : ring'[i].flags = ring[i].flags
    BY <2>2, StopKeepsFlags
  <2>4. running' = FALSE /\ running' \in BOOLEAN
    OBVIOUS
  <2>5. EngineTyped'
    BY <2>3, <2>4 DEF EngineTyped
  <2>6. CallTyped' /\ DmaTyped'
    BY DEF TypeOK, CallTyped, DmaTyped
  <2>7. HostTyped'
    BY Numbers DEF TypeOK, HostTyped
  <2>8. StoppedInv' /\ RunningInv'
    BY <2>4 DEF StoppedInv, RunningInv
  <2>9. FlagsInv' /\ CallInv'
    BY <2>3 DEF FlagsInv, CallInv
  <2>10. Landed' = 0 /\ Handed' = 0
    BY DEF Landed, Handed
  <2>11. OrderInv' /\ LengthNotStale'
    BY <2>1, <2>10, Numbers, DescMaxAssumption
    DEF OrderInv, LengthNotStale, Idx
  <2>12. CountInv'
    BY DEF CountInv
  <2> QED
    BY <2>5, <2>6, <2>7, <2>8, <2>9, <2>11, <2>12 DEF TypeOK
<1>2. ASSUME IInv, RecvReturn PROVE IInv'
  <2> USE <1>2 DEF IInv, RecvReturn, engine, dma
  <2>1. EngineTyped' /\ DmaTyped'
    BY DEF TypeOK, EngineTyped, DmaTyped
  <2>2. CallTyped'
    BY DEF TypeOK, CallTyped
  <2>3. HostTyped'
    BY Numbers DEF TypeOK, HostTyped
  <2>4. StoppedInv' /\ RunningInv' /\ FlagsInv' /\ CallInv'
    BY DEF StoppedInv, RunningInv, FlagsInv, CallInv
  <2>5. Handed' = Handed /\ Landed' = Landed
    BY DEF Handed, Landed
  <2>6. OrderInv' /\ CountInv' /\ LengthNotStale'
    BY <2>5 DEF OrderInv, CountInv, LengthNotStale
  <2> QED
    BY <2>1, <2>2, <2>3, <2>4, <2>6 DEF TypeOK
<1> QED
  BY <1>1, <1>2

(***************************************************************************)
(* A busy engine works on the descriptor after the last reported one, that *)
(* descriptor has its buffer, and what the driver has handed over was      *)
(* reported before.                                                        *)
(***************************************************************************)
LEMMA BusyBounds ==
    ASSUME IInv, hw \in {"fetch", "report"}
    PROVE  /\ running
           /\ cur = done /\ done < DescMax /\ done \in Idx
           /\ ring[done].buf = done /\ "COMPLETED" \in ring[done].flags
           /\ Handed <= done /\ Handed \in Nat
<1> USE DEF IInv
<1>1. running
  BY DEF StoppedInv
<1>2. cur = done /\ done < DescMax
  BY <1>1 DEF RunningInv
<1>3. done \in Idx
  BY <1>2, Numbers, DescMaxAssumption DEF Idx
<1>4. ring[done].buf = done /\ "COMPLETED" \in ring[done].flags
  BY <1>1, <1>3 DEF RunningInv
<1>5. Handed <= done /\ Handed \in Nat
  BY <1>1, Numbers DEF RunningInv, CallInv, Handed
<1> QED
  BY <1>1, <1>2, <1>3, <1>4, <1>5

(***************************************************************************)
(* Steps of the FPGA's engine, at any moment of a call or between calls.   *)
(***************************************************************************)
LEMMA HardwareSteps ==
    IInv /\ (HwStore \/ HwReport) => IInv'
<1>1. ASSUME IInv, HwStore PROVE IInv'
  <2>1. /\ running
        /\ cur = done /\ done < DescMax /\ done \in Idx
        /\ ring[done].buf = done
        /\ Handed <= done /\ Handed \in Nat
    BY <1>1, BusyBounds DEF HwStore
  <2>2. /\ hw = "fetch" /\ hw' = "report"
        /\ rcvd < MaxPkts /\ rcvd' = rcvd + 1 /\ swb' = rcvd + 1
        /\ mb' = [mb EXCEPT ![done].pkt = rcvd + 1]
        /\ UNCHANGED <<cur, done, wb, delivered, returned,
                       running, desc_used, ring,
                       pc, nb_pkts, tran_time, old, id, nb_cmpt>>
    BY <1>1, <2>1 DEF HwStore, engine, call
  <2>3. /\ TypeOK /\ StoppedInv /\ RunningInv /\ FlagsInv /\ CallInv
        /\ OrderInv /\ CountInv /\ LengthNotStale
    BY <1>1 DEF IInv
  <2>4. done \in Nat /\ rcvd \in Nat /\ Len(delivered) \in Nat
    BY <2>3, Numbers
  <2>5. Handed' = Handed /\ Landed = done /\ Landed' = done + 1
    BY <2>2 DEF Handed, Landed
  <2>6. ASSUME NEW i \in Idx
        PROVE  /\ mb'[i] \in Mbuf /\ mb'[i].len = mb[i].len
               /\ mb'[i].pkt = IF i = done THEN rcvd + 1 ELSE mb[i].pkt
    <3>1. mb \in [Idx -> Mbuf] /\ mb[i] \in Mbuf
      BY <2>3 DEF TypeOK, HostTyped
    <3>2. CASE i = done
      <4>1. mb'[i] = [pkt |-> rcvd + 1, len |-> mb[i].len]
        BY <2>2, <3>1, <3>2 DEF Mbuf
      <4>. QED  BY <2>4, <3>1, <3>2, <4>1 DEF Mbuf
    <3>3. CASE i # done
      BY <2>2, <3>1, <3>3 DEF Mbuf
    <3>. QED  BY <3>2, <3>3
  <2>7. TypeOK'
    <3>1. EngineTyped' /\ CallTyped'
      BY <2>2, <2>3 DEF TypeOK, EngineTyped, CallTyped
    <3>2. DmaTyped'
      <4>1. rcvd' \in 0 .. MaxPkts
        BY <2>2, <2>4, RxAssumption
      <4>. QED  BY <2>2, <2>3, <4>1 DEF TypeOK, DmaTyped
    <3>3. HostTyped'
      <4>1. swb' \in Nat
        BY <2>2, <2>4
      <4>2. mb' \in [Idx -> Mbuf]
        <5>1. mb' = [i \in Idx |-> mb'[i]]
          BY <2>2, <2>3 DEF TypeOK, HostTyped
        <5>. QED  BY <2>6, <5>1
      <4>. QED  BY <2>2, <2>3, <4>1, <4>2 DEF TypeOK, HostTyped
    <3>. QED  BY <3>1, <3>2, <3>3 DEF TypeOK
  <2>8. StoppedInv' /\ FlagsInv' /\ CallInv'
    BY <2>1, <2>2, <2>3 DEF StoppedInv, FlagsInv, CallInv
  <2>9. RunningInv'
    BY <2>1, <2>2, <2>3 DEF RunningInv
  <2>10. OrderInv'
    <3>1. /\ swb = rcvd /\ done <= rcvd
          /\ Len(delivered) = rcvd - done + Handed
          /\ \A i \in Idx : i < done => mb[i].pkt = rcvd - done + i + 1
      BY <2>3, <2>5 DEF OrderInv
    <3>2. ASSUME NEW i \in Idx, i < done + 1
          PROVE  mb'[i].pkt = rcvd + 1 - (done + 1) + i + 1
      <4>1. i \in Nat
        BY DescMaxAssumption DEF Idx
      <4>2. CASE i = done
        BY <2>4, <2>6, <4>2
      <4>3. CASE i # done
        <5>1. i < done
          BY <2>4, <3>2, <4>1, <4>3
        <5>2. mb'[i].pkt = rcvd - done + i + 1
          BY <2>6, <3>1, <4>3, <5>1
        <5>. QED  BY <2>4, <4>1, <5>2
      <4>. QED  BY <4>2, <4>3
    <3>3. Landed' <= rcvd'
      BY <2>2, <2>4, <2>5, <3>1
    <3>4. Len(delivered) = rcvd + 1 - (done + 1) + Handed
      BY <2>1, <2>4, <3>1
    <3>5. rcvd' = rcvd + 1 /\ swb' = rcvd + 1 /\ delivered' = delivered
      BY <2>2
    <3>6. swb' = rcvd' /\ Len(delivered') = rcvd' - Landed' + Handed'
      BY <2>1, <2>4, <2>5, <3>4, <3>5
    <3>7. ASSUME NEW i \in Idx, i < Landed'
          PROVE  mb'[i].pkt = rcvd' - Landed' + i + 1
      BY <2>4, <2>5, <3>2, <3>5, <3>7
    <3>. QED  BY <3>3, <3>6, <3>7 DEF OrderInv
  <2>11. CountInv'
    BY <2>2, <2>3 DEF CountInv
  <2>12. LengthNotStale'
    <3>1. ASSUME NEW i \in Idx, i < Handed PROVE mb'[i].len >= mb'[i].pkt
      <4>1. i # done
        BY <2>1, <2>4, <3>1, DescMaxAssumption DEF Idx
      <4>. QED  BY <2>3, <2>6, <3>1, <4>1 DEF LengthNotStale
    <3>. QED  BY <2>5, <3>1 DEF LengthNotStale
  <2>. QED  BY <2>7, <2>8, <2>9, <2>10, <2>11, <2>12 DEF IInv
<1>2. ASSUME IInv, HwReport PROVE IInv'
  <2>1. /\ running
        /\ cur = done /\ done < DescMax /\ done \in Idx
        /\ "COMPLETED" \in ring[done].flags
        /\ Handed <= done
    BY <1>2, BusyBounds DEF HwReport
  <2>2. /\ TypeOK /\ StoppedInv /\ RunningInv /\ FlagsInv /\ CallInv
        /\ OrderInv /\ CountInv /\ LengthNotStale
    BY <1>2 DEF IInv
  <2>3. /\ hw = "report" /\ done' = done + 1 /\ wb' = done + 1
        /\ \/ hw' = "halt" /\ done = DescMax - 1 /\ cur' = cur
           \/ hw' = "fetch" /\ done # DescMax - 1 /\ cur' = NextDesc(done)
        /\ UNCHANGED <<rcvd, swb, mb, delivered, returned,
                       running, desc_used, ring,
                       pc, nb_pkts, tran_time, old, id, nb_cmpt>>
    BY <1>2, <2>1, <2>2 DEF HwReport, FlagsInv, engine, call
  <2>4. /\ done \in Nat /\ DescMax \in Nat /\ desc_used \in Nat
        /\ old \in Nat /\ id \in Nat
    BY <2>2, Numbers, DescMaxAssumption
  <2>5. \/ hw' = "halt" /\ done + 1 = DescMax /\ cur' = done
        \/ hw' = "fetch" /\ done + 1 < DescMax /\ cur' = done + 1
    BY <2>1, <2>3, <2>4 DEF NextDesc
  <2>6. Handed' = Handed /\ Landed' = Landed
    BY <2>3 DEF Handed, Landed
  <2>7. TypeOK'
    <3>1. EngineTyped' /\ CallTyped'
      BY <2>2, <2>3 DEF TypeOK, EngineTyped, CallTyped
    <3>2. DmaTyped'
      <4>1. done' \in Nat /\ cur' \in 0 .. DescMax
        BY <2>3, <2>4, <2>5
      <4>. QED  BY <2>2, <2>3, <4>1 DEF TypeOK, DmaTyped
    <3>3. HostTyped'
      <4>1. wb' \in Nat
        BY <2>3, <2>4
      <4>. QED  BY <2>2, <2>3, <4>1 DEF TypeOK, HostTyped
    <3>. QED  BY <3>1, <3>2, <3>3 DEF TypeOK
  <2>8. StoppedInv' /\ FlagsInv'
    BY <2>1, <2>2, <2>3 DEF StoppedInv, FlagsInv
  <2>9. RunningInv'
    <3>1. wb = done /\ desc_used <= wb
      BY <2>1, <2>2 DEF RunningInv
    <3>2. desc_used <= done + 1
      BY <2>4, <3>1
    <3>. QED  BY <2>2, <2>3, <2>5, <3>2 DEF RunningInv
  <2>10. CallInv'
    <3>1. wb = done
      BY <2>1, <2>2 DEF RunningInv
    <3>2. old <= wb => old <= done + 1
      BY <2>4, <3>1
    <3>. QED  BY <2>2, <2>3, <3>2 DEF CallInv
  <2>11. OrderInv' /\ CountInv' /\ LengthNotStale'
    BY <2>2, <2>3, <2>6 DEF OrderInv, CountInv, LengthNotStale
  <2>. QED  BY <2>7, <2>8, <2>9, <2>10, <2>11 DEF IInv
<1> QED
  BY <1>1, <1>2

(***************************************************************************)
(* Every step preserves the invariant.                                     *)
(***************************************************************************)
LEMMA NextIInv == IInv /\ [Next]_vars => IInv'
<1> SUFFICES ASSUME IInv, [Next]_vars PROVE IInv'
  OBVIOUS
<1>1. CASE UNCHANGED vars
  <2> USE <1>1 DEF vars, engine, call, dma, IInv
  <2>1. Landed' = Landed /\ Handed' = Handed
    BY DEF Landed, Handed
  <2>2. EngineTyped' /\ CallTyped'
    BY DEF TypeOK, EngineTyped, CallTyped
  <2>3. DmaTyped' /\ HostTyped'
    BY DEF TypeOK, DmaTyped, HostTyped
  <2>4. StoppedInv' /\ RunningInv' /\ FlagsInv' /\ CallInv'
    BY DEF StoppedInv, RunningInv, FlagsInv, CallInv
  <2>5. OrderInv' /\ CountInv' /\ LengthNotStale'
    BY <2>1 DEF OrderInv, CountInv, LengthNotStale
  <2> QED
    BY <2>2, <2>3, <2>4, <2>5 DEF TypeOK
<1>2. CASE RecvStart
  BY <1>2, StartStep
<1>3. CASE RecvResume \/ PollRead \/ PollHit \/ PollMiss
  BY <1>3, LocalSteps
<1>4. CASE PreparePacket \/ PrepareDone
  BY <1>4, PrepareSteps
<1>5. CASE RecvStop \/ RecvReturn
  BY <1>5, ReturnSteps
<1>6. CASE HwStore \/ HwReport
  BY <1>6, HardwareSteps
<1> QED
  BY <1>1, <1>2, <1>3, <1>4, <1>5, <1>6 DEF Next, Driver, Hardware

(***************************************************************************)
(* The inductive invariant holds in every reachable state.                 *)
(***************************************************************************)
LEMMA InvariantHolds == Spec => []IInv
  BY InitIInv, NextIInv, PTL DEF Spec
(***************************************************************************)
(* Type correctness of the receive path.                                   *)
(***************************************************************************)
THEOREM RxTyped == Spec => []TypeOK
<1>1. IInv => TypeOK
  BY DEF IInv
<1> QED
  BY <1>1, InvariantHolds, PTL

(***************************************************************************)
(* For every ring size the hardware only ever works on a descriptor inside *)
(* the ring that has its buffer.                                           *)
(***************************************************************************)
THEOREM RxNoBlankFetch == Spec => []NoBlankFetch
<1>1. IInv => NoBlankFetch
  BY BusyBounds DEF NoBlankFetch
<1> QED
  BY <1>1, InvariantHolds, PTL

(***************************************************************************)
(* The counts xdma_recv_pkts returns add up to the packets it prepared,    *)
(* for every ring of fewer than 65536 descriptors.                         *)
(***************************************************************************)
THEOREM RxCountsAddUp == Spec => []CountsAddUp
<1>1. IInv => CountsAddUp
  BY DEF IInv, CountInv, CountsAddUp
<1> QED
  BY <1>1, InvariantHolds, PTL

(***************************************************************************)
(* The length prepare_segmented_packet stores in an mbuf is never that of  *)
(* a packet received before the one in the mbuf.                           *)
(***************************************************************************)
THEOREM RxLengthNotStale == Spec => []LengthNotStale
<1>1. IInv => LengthNotStale
  BY DEF IInv
<1> QED
  BY <1>1, InvariantHolds, PTL

(***************************************************************************)
(* Neither xdma_rx_engine_stop nor a new start touches the ring while the  *)
(* hardware works on it.                                                   *)
(***************************************************************************)
THEOREM RxRingQuiet == Spec => RingQuiet
<1>1. ASSUME IInv, [Next]_vars, hw \in {"fetch", "report"}
      PROVE  UNCHANGED <<ring, running>>
  <2>1. ~RecvStart
    BY <1>1 DEF RecvStart, IInv, StoppedInv
  <2>2. ~RecvStop
    BY <1>1, CompleteMeansHalted DEF RecvStop
  <2>3. CASE UNCHANGED vars
    BY <2>3 DEF vars, engine
  <2>4. CASE RecvResume \/ PollRead \/ PollHit \/ PollMiss
    BY <2>4 DEF RecvResume, PollRead, PollHit, PollMiss, engine
  <2>5. CASE PreparePacket \/ PrepareDone \/ RecvReturn
    BY <2>5 DEF PreparePacket, PrepareDone, RecvReturn, engine
  <2>6. CASE HwStore \/ HwReport
    BY <2>6 DEF HwStore, HwReport, engine
  <2> QED
    BY <1>1, <2>1, <2>2, <2>3, <2>4, <2>5, <2>6 DEF Next, Driver, Hardware
<1>2. IInv /\ [Next]_vars
        => [(hw \in {"fetch", "report"}) => UNCHANGED <<ring, running>>]_vars
  BY <1>1
<1> QED
  BY <1>2, InvariantHolds, PTL DEF Spec, RingQuiet

(***************************************************************************)
(* Only HwStore changes a packet in an mbuf, and only in the descriptor    *)
(* after the last reported one.                                            *)
(***************************************************************************)
LEMMA StoreOnlyNext ==
    ASSUME IInv, [Next]_vars, NEW i \in Idx, i < Handed
    PROVE  mb'[i].pkt = mb[i].pkt
<1>1. mb \in [Idx -> Mbuf]
  BY DEF IInv, TypeOK, HostTyped
<1>2. CASE HwStore
  <2>1. cur = done /\ ring[done].buf = done /\ Handed <= done /\ Handed \in Nat
    BY <1>2, BusyBounds DEF HwStore
  <2>2. i # done
    BY <2>1, Numbers, DescMaxAssumption DEF IInv, Idx
  <2> QED
    BY <1>1, <1>2, <2>1, <2>2 DEF HwStore
<1>3. CASE PreparePacket
  BY <1>1, <1>3 DEF PreparePacket, Mbuf
<1>4. CASE UNCHANGED mb
  BY <1>4
<1>5. CASE RecvStart \/ RecvResume \/ PollRead \/ PollHit \/ PollMiss
  BY <1>4, <1>5 DEF RecvStart, RecvResume, PollRead, PollHit, PollMiss
<1>6. CASE PrepareDone \/ RecvStop \/ RecvReturn \/ HwReport
  BY <1>4, <1>6 DEF PrepareDone, RecvStop, RecvReturn, HwReport
<1>7. CASE UNCHANGED vars
  BY <1>4, <1>7 DEF vars
<1> QED
  BY <1>2, <1>3, <1>5, <1>6, <1>7 DEF Next, Driver, Hardware

(***************************************************************************)
(* A buffer handed to the caller is not overwritten in the same run of the *)
(* engine.                                                                 *)
(***************************************************************************)
THEOREM RxHandedStable == Spec => HandedStable
<1>1. IInv /\ [Next]_vars
        => [\A i \in Idx : i < Handed => mb'[i].pkt = mb[i].pkt]_vars
  BY StoreOnlyNext
<1> QED
  BY <1>1, InvariantHolds, PTL DEF Spec, HandedStable

(***************************************************************************)
(* Storing a packet puts it into the FIFO, which has room for it.          *)
(***************************************************************************)
LEMMA StoreTakes ==
    ASSUME IInv, HwStore
    PROVE  Fifo!FifoNext
<1>1. /\ done < DescMax /\ Handed <= done /\ Handed \in Nat
      /\ Landed = done
  BY BusyBounds DEF HwStore, Landed
<1>2. /\ done \in Nat /\ rcvd \in Nat /\ Len(delivered) \in Nat
      /\ DescMax \in Nat
  BY Numbers, DescMaxAssumption DEF IInv
<1>3. Len(delivered) = rcvd - done + Handed
  BY <1>1 DEF IInv, OrderInv
<1>4. rcvd + 1 - Len(delivered) <= DescMax
  BY <1>1, <1>2, <1>3
<1>5. Fifo!Take(1)
  BY <1>4 DEF HwStore, Fifo!Take
<1>6. 1 \in 1 .. DescMax
  BY DescMaxAssumption
<1> QED
  BY <1>5, <1>6 DEF Fifo!FifoNext

(***************************************************************************)
(* Preparing a packet takes the oldest one out of the FIFO.                *)
(***************************************************************************)
LEMMA PrepareGives ==
    ASSUME IInv, PreparePacket
    PROVE  Fifo!FifoNext
<1>1. pc = "prep" /\ id < old /\ id \in Idx
  BY DEF PreparePacket, MoreToPrepare
<1>2. old <= done /\ done <= Landed /\ Landed \in Nat
  BY <1>1, PrepareBounds
<1>n. /\ id \in Nat /\ old \in Nat /\ done \in Nat /\ rcvd \in Nat
      /\ Len(delivered) \in Nat
  BY Numbers DEF IInv
<1>3. id < Landed
  BY <1>1, <1>2, <1>n
<1>4. Len(delivered) = rcvd - Landed + id
  BY <1>1 DEF IInv, OrderInv, Handed
<1>5. mb[id].pkt = Len(delivered) + 1 /\ Len(delivered) < rcvd
  <2>1. mb[id].pkt = rcvd - Landed + id + 1
    BY <1>1, <1>3 DEF IInv, OrderInv
  <2>. QED  BY <1>2, <1>3, <1>4, <1>n, <2>1
<1>6. Fifo!Give
  BY <1>5 DEF PreparePacket, dma, Fifo!Give
<1> QED
  BY <1>6 DEF Fifo!FifoNext

(***************************************************************************)
(* The receive path implements a FIFO of DescMax packets: no packet is     *)
(* lost, doubled or reordered on its way to the caller, for every ring     *)
(* size, polling limit and interleaving with the hardware.                 *)
(***************************************************************************)
THEOREM RxIsFifo == Spec => FifoRefinement
<1>1. Init => Fifo!FifoInit
  BY DEF Init, Fifo!FifoInit
<1>2. ASSUME IInv, [Next]_vars
      PROVE  [Fifo!FifoNext]_(Fifo!fifoVars)
  <2>1. CASE HwStore
    BY <1>2, <2>1, StoreTakes
  <2>2. CASE PreparePacket
    BY <1>2, <2>2, PrepareGives
  <2>3. CASE RecvStart \/ RecvResume \/ PollRead \/ PollHit \/ PollMiss
    BY <2>3 DEF RecvStart, RecvResume, PollRead, PollHit, PollMiss,
                dma, Fifo!fifoVars
  <2>4. CASE PrepareDone \/ RecvStop \/ RecvReturn \/ HwReport
    BY <2>4 DEF PrepareDone, RecvStop, RecvReturn, HwReport, dma, Fifo!fifoVars
  <2>5. CASE UNCHANGED vars
    BY <2>5 DEF vars, dma, Fifo!fifoVars
  <2> QED
    BY <1>2, <2>1, <2>2, <2>3, <2>4, <2>5 DEF Next, Driver, Hardware
<1> QED
  BY <1>1, <1>2, InvariantHolds, PTL DEF Spec, FifoRefinement, Fifo!FifoSpec

-----------------------------------------------------------------------------
\* Until a call has prepared packets the run has a buffer left to hand over:
\* the call that hands over the last one stops the engine before it returns.
BatchOpen ==
    pc \in {"idle", "poll", "test", "prep"} => desc_used < DescMax

(***************************************************************************)
(* Between calls no packet in host memory is out of sight: while one is    *)
(* stored and not handed over, either the hardware still has it to report  *)
(* or the count it wrote differs from desc_used, which is all the next     *)
(* call looks at.                                                          *)
(***************************************************************************)
NothingHidden ==
    pc = "idle" /\ Len(delivered) < rcvd => hw = "report" \/ wb # desc_used

(***************************************************************************)
(* An engine that has halted has reported the whole ring, and the next     *)
(* reading of the count finds completions: there is no state in which the  *)
(* hardware is done and the driver, still behind, sees nothing new.        *)
(***************************************************************************)
HaltIsSeen ==
    hw = "halt" => /\ wb = NbPkts
                   /\ pc \in {"idle", "poll"} => wb # desc_used

\* Steps xdma_recv_pkts can still take in this call.
RecvStepsLeft ==
    CASE pc = "idle"  -> 0
      [] pc = "check" -> 1
      [] pc = "prep"  -> old - id + 2
      [] pc = "test"  -> DescMax + 2 * (PollLimit - tran_time) + 3
      [] pc = "poll"  -> DescMax + 2 * (PollLimit - tran_time) + 4

(***************************************************************************)
(* A call of xdma_recv_pkts cannot go round in circles: each of its own    *)
(* steps brings its return nearer and no step of the hardware defers it,   *)
(* so that a call takes at most DescMax + 2 * PollLimit + 4 steps after    *)
(* its start, whatever the hardware writes under its polling loop.         *)
(***************************************************************************)
RecvShrinks ==
    [][pc # "idle" => /\ RecvStepsLeft \in Nat /\ RecvStepsLeft' \in Nat
                      /\ \/ Driver /\ RecvStepsLeft' < RecvStepsLeft
                         \/ Hardware /\ RecvStepsLeft' = RecvStepsLeft]_vars

(***************************************************************************)
(* prepare_packets writes rx_pkts within the array: the conjunct id \in    *)
(* Idx of PreparePacket excludes nothing, and the loop never hangs on it.  *)
(* It reads outside the array in one round only: that of the last mbuf,    *)
(* which comes when the batch is complete; then the prefetch reads the     *)
(* element just past the end.                                              *)
(***************************************************************************)
PrepareInRing ==
    pc = "prep" /\ MoreToPrepare =>
        /\ id \in Idx
        /\ ReadsAt \subseteq Idx \cup {NbPkts}
        /\ NbPkts \in ReadsAt <=> id = NbPkts - 1
        /\ NbPkts \in ReadsAt => old = NbPkts /\ WholeBatch

(***************************************************************************)
(* While the engine runs the driver is behind or level with the hardware,  *)
(* and the hardware is inside the ring or at its end.                      *)
(***************************************************************************)
LEMMA RunningBounds ==
    ASSUME IInv, running
    PROVE  /\ hw \in {"fetch", "report", "halt"}
           /\ wb = done /\ desc_used <= done /\ done <= DescMax
           /\ hw = "halt" => done = DescMax
<1>1. hw \in {"fetch", "report", "halt"}
  BY DEF IInv, RunningInv, TypeOK, DmaTyped
<1>2. wb = done /\ desc_used <= wb /\ (hw = "halt" => done = DescMax)
  BY DEF IInv, RunningInv
<1>3. CASE hw = "halt"
  BY <1>1, <1>2, <1>3, DescMaxAssumption
<1>4. CASE hw # "halt"
  <2>1. done < DescMax
    BY <1>1, <1>4 DEF IInv, RunningInv
  <2>. QED  BY <1>1, <1>2, <1>4, <2>1, Numbers, DescMaxAssumption DEF IInv
<1>. QED  BY <1>3, <1>4

(***************************************************************************)
(* A call leaves the engine running only with a buffer left in its ring.   *)
(***************************************************************************)
LEMMA BatchOpenHolds == Spec => []BatchOpen
<1>1. Init => BatchOpen
  BY DescMaxAssumption DEF Init, BatchOpen
<1>2. ASSUME IInv, BatchOpen, [Next]_vars  PROVE BatchOpen'
  <2>1. CASE RecvStart
    <3>1. desc_used = 0 /\ ring \in [Idx -> Desc]
      BY <1>2, <2>1 DEF RecvStart, IInv, StoppedInv, TypeOK, EngineTyped
    <3>2. desc_used' = 0
      BY <2>1, <3>1, StartFillsRing DEF RecvStart
    <3>. QED  BY <3>2, DescMaxAssumption DEF BatchOpen
  <2>2. CASE RecvResume \/ PollRead \/ PollHit \/ PollMiss \/ PreparePacket
    BY <1>2, <2>2
    DEF RecvResume, CallFrame, PollRead, PollHit, PollMiss, PreparePacket,
        engine, BatchOpen
  <2>3. CASE PrepareDone
    BY <2>3 DEF PrepareDone, BatchOpen
  <2>4. CASE RecvStop
    BY <2>4, DescMaxAssumption
    DEF RecvStop, xdma_rx_engine_stop, BatchOpen
  <2>5. CASE RecvReturn
    <3>1. pc = "check" /\ desc_used # nb_pkts /\ desc_used' = desc_used
      BY <2>5 DEF RecvReturn, BatchComplete, engine
    <3>2. running /\ nb_pkts = DescMax
      BY <1>2, <3>1, RxAssumption DEF IInv, StoppedInv, CallInv
    <3>3. desc_used \in Nat /\ done \in Nat /\ DescMax \in Nat
      BY <1>2, Numbers, DescMaxAssumption DEF IInv
    <3>4. desc_used <= done /\ done <= DescMax
      BY <1>2, <3>2, RunningBounds
    <3>. QED  BY <3>1, <3>2, <3>3, <3>4 DEF BatchOpen
  <2>6. CASE HwStore \/ HwReport
    BY <1>2, <2>6 DEF HwStore, HwReport, engine, call, BatchOpen
  <2>7. CASE UNCHANGED vars
    BY <1>2, <2>7 DEF vars, engine, call, BatchOpen
  <2>. QED
    BY <1>2, <2>1, <2>2, <2>3, <2>4, <2>5, <2>6, <2>7
    DEF Next, Driver, Hardware
<1>. QED  BY <1>1, <1>2, InvariantHolds, PTL DEF Spec

(***************************************************************************)
(* What Delivery needs in every state: a packet that was stored is either  *)
(* still to be reported or seen by the next call.                          *)
(***************************************************************************)
THEOREM RxNothingHidden == Spec => []NothingHidden
<1>1. ASSUME IInv, pc = "idle", Len(delivered) < rcvd, hw # "report"
      PROVE  wb # desc_used
  <2>1. /\ desc_used \in Nat /\ done \in Nat /\ rcvd \in Nat
        /\ Len(delivered) \in Nat
    BY <1>1, Numbers DEF IInv
  <2>2. Len(delivered) = rcvd - Landed + desc_used
    BY <1>1 DEF IInv, OrderInv, Handed
  <2>3. hw # "off"
    <3>1. Landed = 0 => Len(delivered) >= rcvd
      BY <2>1, <2>2
    <3>. QED  BY <1>1, <3>1, <2>1 DEF Landed
  <2>4. running /\ Landed = done
    BY <1>1, <2>3 DEF IInv, StoppedInv, Landed
  <2>5. wb = done
    BY <1>1, <2>4, RunningBounds
  <2>6. Len(delivered) = rcvd - done + desc_used
    BY <2>2, <2>4
  <2>. QED  BY <1>1, <2>1, <2>5, <2>6
<1>2. IInv => NothingHidden
  BY <1>1 DEF NothingHidden
<1>. QED  BY <1>2, InvariantHolds, PTL

(***************************************************************************)
(* What Rearm needs in every state: a halted engine is one the driver has  *)
(* not caught up with, and it will see so when it next reads the count.    *)
(***************************************************************************)
THEOREM RxHaltIsSeen == Spec => []HaltIsSeen
<1>1. ASSUME IInv, BatchOpen, hw = "halt"
      PROVE  wb = NbPkts /\ (pc \in {"idle", "poll"} => wb # desc_used)
  <2>1. running
    BY <1>1 DEF IInv, StoppedInv
  <2>2. wb = DescMax /\ NbPkts = DescMax
    BY <1>1, <2>1, RunningBounds, RxAssumption
  <2>3. pc \in {"idle", "poll"} => desc_used < DescMax
    BY <1>1 DEF BatchOpen
  <2>4. desc_used \in Nat /\ DescMax \in Nat
    BY <1>1, Numbers, DescMaxAssumption DEF IInv
  <2>. QED  BY <2>2, <2>3, <2>4
<1>2. IInv /\ BatchOpen => HaltIsSeen
  BY <1>1 DEF HaltIsSeen
<1>. QED  BY <1>2, InvariantHolds, BatchOpenHolds, PTL

(***************************************************************************)
(* prepare_packets writes inside the array, and reads outside it only the  *)
(* element just past the end, with the last mbuf of a complete batch.      *)
(***************************************************************************)
THEOREM RxPrepareInRing == Spec => []PrepareInRing
<1>1. ASSUME IInv, pc = "prep", id < old
      PROVE  /\ id \in Nat /\ old \in Nat /\ DescMax \in Nat
             /\ id < DescMax /\ old <= DescMax /\ NbPkts = DescMax
             /\ nb_pkts = NbPkts
  <2>1. id \in Nat /\ old \in Nat /\ done \in Nat /\ DescMax \in Nat
    BY <1>1, Numbers, DescMaxAssumption DEF IInv
  <2>2. old <= done /\ done <= DescMax
    BY <1>1, PrepareBounds
  <2>3. nb_pkts = NbPkts /\ NbPkts = DescMax
    BY <1>1, RxAssumption DEF IInv, CallInv
  <2>. QED  BY <1>1, <2>1, <2>2, <2>3
<1>2. ASSUME IInv, pc = "prep", id < old
      PROVE  /\ id \in Idx
             /\ ReadsAt \subseteq Idx \cup {NbPkts}
             /\ NbPkts \in ReadsAt <=> id = NbPkts - 1
             /\ NbPkts \in ReadsAt => old = NbPkts /\ WholeBatch
  BY <1>1, <1>2 DEF Idx, ReadsAt, WholeBatch
<1>3. IInv => PrepareInRing
  BY <1>2 DEF PrepareInRing, MoreToPrepare
<1>. QED  BY <1>3, InvariantHolds, PTL

(***************************************************************************)
(* In every state of a call the steps left are a natural number.           *)
(***************************************************************************)
LEMMA RecvBounds ==
    ASSUME IInv
    PROVE  /\ RecvStepsLeft \in Nat
           /\ tran_time \in Nat /\ tran_time <= PollLimit
           /\ PollLimit \in Nat /\ DescMax \in Nat
           /\ desc_used \in Nat /\ old \in Nat /\ id \in Nat
           /\ pc = "prep" => id <= old
           /\ pc = "test" => desc_used <= old /\ old <= DescMax
<1>1. /\ tran_time \in Nat /\ tran_time <= PollLimit
      /\ PollLimit \in Nat /\ DescMax \in Nat
  BY RxAssumption, DescMaxAssumption DEF IInv, TypeOK, CallTyped
<1>2. desc_used \in Nat /\ old \in Nat /\ id \in Nat /\ done \in Nat
  BY Numbers DEF IInv
<1>3. pc = "prep" => id <= old
  BY DEF IInv, CallInv
<1>4. ASSUME pc = "test"  PROVE desc_used <= old /\ old <= DescMax
  <2>1. running /\ desc_used <= old /\ old <= wb
    BY <1>4 DEF IInv, StoppedInv, CallInv
  <2>2. wb = done /\ done <= DescMax
    BY <2>1, RunningBounds
  <2>. QED  BY <1>1, <1>2, <2>1, <2>2
<1>5. RecvStepsLeft \in Nat
  <2>1. pc \in {"idle", "poll", "test", "prep", "check"}
    BY DEF IInv, TypeOK, CallTyped
  <2>2. CASE pc = "prep"
    <3>1. RecvStepsLeft = old - id + 2
      BY <2>2 DEF RecvStepsLeft
    <3>. QED  BY <1>2, <1>3, <2>2, <3>1
  <2>3. CASE pc \in {"poll", "test"}
    <3>1. \/ RecvStepsLeft = DescMax + 2 * (PollLimit - tran_time) + 3
          \/ RecvStepsLeft = DescMax + 2 * (PollLimit - tran_time) + 4
      BY <2>3 DEF RecvStepsLeft
    <3>. QED  BY <1>1, <3>1
  <2>4. CASE pc \in {"idle", "check"}
    BY <2>4 DEF RecvStepsLeft
  <2>. QED  BY <2>1, <2>2, <2>3, <2>4
<1>. QED  BY <1>1, <1>2, <1>3, <1>4, <1>5

(***************************************************************************)
(* A call of xdma_recv_pkts returns after a bounded number of its steps.   *)
(***************************************************************************)
THEOREM RxCallShrinks == Spec => RecvShrinks
<1>a. IInv => RecvStepsLeft \in Nat
  BY RecvBounds
<1>b. IInv' => (RecvStepsLeft \in Nat)'
  BY <1>a, PTL
<1>1. ASSUME IInv, Driver, pc # "idle"
      PROVE  RecvStepsLeft' < RecvStepsLeft
  <2>1. /\ tran_time \in Nat /\ tran_time <= PollLimit
        /\ PollLimit \in Nat /\ DescMax \in Nat
        /\ desc_used \in Nat /\ old \in Nat /\ id \in Nat
        /\ pc = "prep" => id <= old
        /\ pc = "test" => desc_used <= old /\ old <= DescMax
    BY <1>1, RecvBounds
  <2>2. CASE PollRead
    <3>1. pc = "poll" /\ pc' = "test" /\ tran_time' = tran_time
      BY <2>2 DEF PollRead
    <3>2. /\ RecvStepsLeft = DescMax + 2 * (PollLimit - tran_time) + 4
          /\ RecvStepsLeft' = DescMax + 2 * (PollLimit - tran_time) + 3
      BY <3>1 DEF RecvStepsLeft
    <3>. QED  BY <2>1, <3>2
  <2>3. CASE PollHit
    <3>1. pc = "test" /\ pc' = "prep" /\ id' = desc_used /\ old' = old
      BY <2>3 DEF PollHit
    <3>2. /\ RecvStepsLeft = DescMax + 2 * (PollLimit - tran_time) + 3
          /\ RecvStepsLeft' = old - desc_used + 2
      BY <3>1 DEF RecvStepsLeft
    <3>. QED  BY <2>1, <3>1, <3>2
  <2>4. CASE PollMiss
    <3>1. /\ pc = "test"
          /\ \/ pc' = "poll" /\ tran_time' = tran_time + 1
             \/ pc' = "check"
      BY <2>4 DEF PollMiss
    <3>2. RecvStepsLeft = DescMax + 2 * (PollLimit - tran_time) + 3
      BY <3>1 DEF RecvStepsLeft
    <3>3. \/ RecvStepsLeft' = DescMax + 2 * (PollLimit - (tran_time + 1)) + 4
          \/ RecvStepsLeft' = 1
      BY <3>1 DEF RecvStepsLeft
    <3>. QED  BY <2>1, <3>2, <3>3
  <2>5. CASE PreparePacket
    <3>1. pc = "prep" /\ pc' = "prep" /\ id' = id + 1 /\ old' = old
      BY <2>5 DEF PreparePacket
    <3>2. /\ RecvStepsLeft = old - id + 2
          /\ RecvStepsLeft' = old - (id + 1) + 2
      BY <3>1 DEF RecvStepsLeft
    <3>. QED  BY <2>1, <3>2
  <2>6. CASE PrepareDone
    <3>1. pc = "prep" /\ pc' = "check"
      BY <2>6 DEF PrepareDone
    <3>2. RecvStepsLeft = old - id + 2 /\ RecvStepsLeft' = 1
      BY <3>1 DEF RecvStepsLeft
    <3>. QED  BY <2>1, <3>1, <3>2
  <2>7. CASE RecvStop \/ RecvReturn
    <3>1. pc = "check" /\ pc' = "idle"
      BY <2>7 DEF RecvStop, RecvReturn
    <3>. QED  BY <3>1 DEF RecvStepsLeft
  <2>8. CASE RecvStart \/ RecvResume
    BY <1>1, <2>8 DEF RecvStart, RecvResume
  <2>. QED
    BY <1>1, <2>2, <2>3, <2>4, <2>5, <2>6, <2>7, <2>8 DEF Driver
<1>2. ASSUME Hardware  PROVE RecvStepsLeft' = RecvStepsLeft
  <2>1. UNCHANGED <<pc, tran_time, old, id>>
    BY <1>2 DEF Hardware, HwStore, HwReport, call
  <2>. QED  BY <2>1 DEF RecvStepsLeft
<1>3. ASSUME IInv, IInv'  PROVE RecvStepsLeft \in Nat /\ RecvStepsLeft' \in Nat
  BY <1>3, <1>a, <1>b
<1>4. IInv /\ IInv' /\ [Next]_vars
        => [pc # "idle" => /\ RecvStepsLeft \in Nat /\ RecvStepsLeft' \in Nat
                           /\ \/ Driver /\ RecvStepsLeft' < RecvStepsLeft
                              \/ /\ Hardware
                                 /\ RecvStepsLeft' = RecvStepsLeft]_vars
  BY <1>1, <1>2, <1>3 DEF Next
<1>. QED  BY <1>4, InvariantHolds, PTL DEF Spec, RecvShrinks
=============================================================================
