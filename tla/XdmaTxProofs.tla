---------------------------- MODULE XdmaTxProofs ----------------------------
(***************************************************************************)
(* The transmit path for every ring size, number of buffers and calls, for *)
(* bursts of single-segment packets that are shorter than the ring, in a   *)
(* build that executes the wait.  The runs tx_multi_segment and            *)
(* tx_release_build and the run forwarder_full_batch show that none of     *)
(* these conditions can be dropped.                                        *)
(***************************************************************************)
EXTENDS XdmaTx, TLAPS

\* The bursts the properties hold for: packets of one segment, fewer than the
\* ring has descriptors and no more than there are buffers, in a build that
\* executes the wait.
ShortBursts ==
    /\ Build = "debug"
    /\ DescMax < 2 ^ 24
    /\ \A b \in Bursts : /\ Len(b) < DescMax
                         /\ Len(b) <= BufNum
                         /\ \A i \in 1 .. Len(b) : b[i] = 1

\* Packets of the current burst that have been sent, and those still to be.
SentNow ==
    IF pc = "wait" THEN (IF hw = "report" THEN done + 1 ELSE done) ELSE 0
Pending == IF pc = "idle" THEN 0 ELSE count - SentNow

\* How far a call is, and that its data is still in the buffers.
CallInv ==
    /\ running <=> pc # "idle"
    /\ pc = "idle" => desc_used = 0
    /\ pc # "idle" => /\ desc_used = count /\ seg = count
                      /\ avail = DescMax - count
                      /\ count <= posted
                      /\ \A b \in Bufs : mem[b] = posted - count + b + 1
    /\ pc = "wait" => count = nb_pkts

\* The descriptors of the burst, the terminator behind them, and the blank
\* ones, of which only the last may have flags, those of the initialisation.
Posted(i) == ring[i].buf = i /\ ring[i].flags = {"EOP", "COMPLETED"}
Blank(i) == /\ ring[i].buf = NoBuf /\ ring[i].adj = 0
            /\ i # DescMax - 1 => ring[i].flags = {}

RingInv ==
    /\ pc = "idle" => \A i \in Idx : Blank(i)
    /\ pc = "post" => \A i \in Idx :
                        /\ i < count => Posted(i) /\ ring[i].adj = 0
                        /\ i >= count => Blank(i)
    /\ pc = "wait" => /\ \A i \in Idx : i < count => Posted(i)
                      /\ ring[count].buf = NoBuf
                      /\ "STOPPED" \in ring[count].flags

\* The hardware runs during the wait only, and what it has written back is
\* how far it has come.
HwInv ==
    /\ hw = "off" <=> pc # "wait"
    /\ pc # "wait" => wb = 0
    /\ pc = "wait" => /\ wb = done /\ cur = done /\ done <= count
                      /\ hw = "report" => done < count
                      /\ hw = "halt" => done = count

SentInv ==
    /\ wire = [i \in 1 .. posted - Pending |-> i]
    /\ frames = posted - Pending
    /\ returned = posted - (IF pc = "idle" THEN 0 ELSE count)

IInv == TypeOK /\ CallInv /\ RingInv /\ HwInv /\ SentInv /\ PrefetchInBurst

-----------------------------------------------------------------------------
(***************************************************************************)
(* Distances between positions of the ring, which get_desc and             *)
(* xdma_h2c_desc_set take modulo its size, tell the positions apart.       *)
(***************************************************************************)
LEMMA Remainders ==
    ASSUME NEW i \in Idx, NEW j \in Idx
    PROVE  /\ i % DescMax = i
           /\ (i - j) % DescMax < 1 <=> i = j
           /\ (i - j) % DescMax \in Nat
<1>1. /\ i \in Int /\ j \in Int /\ DescMax \in Int /\ DescMax > 0 /\ 0 <= i
      /\ i < DescMax /\ 0 <= j /\ j < DescMax
  BY DescMaxAssumption DEF Idx
<1>. QED  BY <1>1

(***************************************************************************)
(* What the condition on the bursts says of the burst of the current call. *)
(***************************************************************************)
LEMMA BurstShape ==
    ASSUME ShortBursts, TypeOK
    PROVE  /\ nb_pkts \in Nat /\ nb_pkts < DescMax /\ nb_pkts <= BufNum
           /\ \A i \in 1 .. nb_pkts : burst[i] = 1
BY TxAssumption, DescMaxAssumption DEF ShortBursts, TypeOK, nb_pkts

(***************************************************************************)
(* The invariant holds of the initialised ring and the idle engine.        *)
(***************************************************************************)
LEMMA InitIInv ==
    ASSUME ShortBursts, Init  PROVE IInv
<1>1. ring \in [Idx -> Desc] /\ \A i \in Idx : Blank(i)
  BY DescMaxAssumption
  DEF Init, xdma_desc_ring_init, BlankDesc, Desc, AdjValues, Flags, Blank,
      NoBuf
<1>2. TypeOK
  <2>1. count \in 0 .. nb_pkts
    BY DEF Init, nb_pkts
  <2>2. mem \in [Bufs -> Nat] /\ wire \in Seq(Nat)
    BY DEF Init
  <2>2a. running \in BOOLEAN
    BY DEF Init
  <2>3. /\ desc_used \in Idx /\ avail \in 0 .. DescMax /\ cur \in 0 .. DescMax
        /\ done \in 0 .. DescMax
    BY DescMaxAssumption DEF Init, Idx
  <2>4. calls \in 0 .. MaxCalls
    BY TxAssumption DEF Init
  <2>5. first_adj \in 0 .. AdjValues - 1
    BY DEF Init, AdjValues
  <2>. QED  BY <1>1, <2>1, <2>2, <2>2a, <2>3, <2>4, <2>5 DEF Init, TypeOK
<1>3. CallInv /\ RingInv /\ HwInv /\ PrefetchInBurst
  BY <1>1 DEF Init, CallInv, RingInv, HwInv, PrefetchInBurst
<1>4. SentInv
  BY DEF Init, SentInv, Pending
<1>. QED  BY <1>1, <1>2, <1>3, <1>4 DEF IInv

(***************************************************************************)
(* xdma_xmit_pkts is entered with an idle engine and a blank ring, and the *)
(* data of the burst is in the buffers.                                    *)
(***************************************************************************)
LEMMA XmitCallStep ==
    ASSUME ShortBursts, IInv, NEW b \in Bursts, XmitCall(b)  PROVE IInv'
<1>. USE DEF IInv, XmitCall, XmitEnter, dma, sent
<1>1. TypeOK'
  <2>1. count' \in 0 .. nb_pkts'
    BY TxAssumption DEF nb_pkts
  <2>2. mem' \in [Bufs -> Nat]
    BY TxAssumption DEF TypeOK, Bufs
  <2>3. calls' \in 0 .. MaxCalls
    BY TxAssumption DEF TypeOK
  <2>. QED  BY <2>1, <2>2, <2>3, DescMaxAssumption DEF TypeOK
<1>2. CallInv'
  BY TxAssumption, DescMaxAssumption DEF TypeOK, CallInv
<1>3. RingInv' /\ HwInv' /\ PrefetchInBurst'
  BY DescMaxAssumption
  DEF TypeOK, CallInv, RingInv, HwInv, PrefetchInBurst, Blank, Posted, Idx
<1>4. SentInv'
  BY DEF TypeOK, SentInv, Pending, SentNow
<1>. QED  BY <1>1, <1>2, <1>3, <1>4

(***************************************************************************)
(* Posting a packet fills the next descriptor of the ring and no other.    *)
(***************************************************************************)
LEMMA PostPacketStep ==
    ASSUME ShortBursts, IInv, PostPacket  PROVE IInv'
<1>. USE DEF IInv
<1>1. /\ count \in Nat /\ count < nb_pkts /\ nb_pkts < DescMax
      /\ nb_pkts \in Nat
      /\ burst[count + 1] = 1 /\ desc_used = count /\ seg = count
      /\ count \in Idx /\ pc = "post" /\ posted \in Nat /\ count # DescMax - 1
  BY BurstShape, DescMaxAssumption DEF PostPacket, Fits, CallInv, TypeOK, Idx
<1>2. /\ desc_used' = count + 1 /\ count' = count + 1
      /\ avail' = avail - 1 /\ seg' = count + 1 /\ posted' = posted + 1
      /\ ring' = xdma_h2c_desc_set(1)
      /\ UNCHANGED <<running, pc, burst, dma, sent, wb, mem, returned, calls>>
  <2>1. get_desc(desc_used, 1) = count + 1
    <3>1. count + 1 \in Idx
      BY <1>1, DescMaxAssumption DEF Idx
    <3>. QED  BY <1>1, <3>1, Remainders DEF get_desc
  <2>. QED  BY <1>1, <2>1 DEF PostPacket
<1>3. ASSUME NEW i \in Idx
      PROVE  ring'[i] =
                IF i = count
                THEN [flags |-> {"EOP", "COMPLETED"}, buf |-> i, adj |-> 0]
                ELSE ring[i]
  <2>1. CASE i = count
    <3>1. ring[i] = [flags |-> {}, buf |-> NoBuf, adj |-> 0]
      BY <1>1, <2>1 DEF RingInv, Blank, TypeOK, Desc
    <3>2. (i - desc_used) % DescMax = 0
      BY <1>1, <2>1, Remainders
    <3>3. xdma_h2c_desc_set(1)[i] =
            xdma_desc_control_set([ring[i] EXCEPT !.buf = seg + 0],
                                  {"EOP", "COMPLETED"})
      BY <3>2 DEF xdma_h2c_desc_set
    <3>4. [ring[i] EXCEPT !.buf = seg + 0] =
            [flags |-> {}, buf |-> i, adj |-> 0]
      BY <1>1, <2>1, <3>1
    <3>. QED  BY <1>2, <2>1, <3>3, <3>4 DEF xdma_desc_control_set
  <2>2. CASE i # count
    <3>1. ~((i - desc_used) % DescMax < 1)
      BY <1>1, <2>2, Remainders
    <3>. QED  BY <1>2, <2>2, <3>1 DEF xdma_h2c_desc_set
  <2>. QED  BY <2>1, <2>2
<1>4. ring' \in [Idx -> Desc]
  <2>1. ASSUME NEW i \in Idx  PROVE ring'[i] \in Desc
    <3>1. i \in Nat
      BY DescMaxAssumption DEF Idx
    <3>2. [flags |-> {"EOP", "COMPLETED"}, buf |-> i, adj |-> 0] \in Desc
      BY <3>1 DEF Desc, AdjValues, Flags
    <3>. QED  BY <1>3, <3>2 DEF TypeOK
  <2>. QED  BY <1>2, <2>1 DEF xdma_h2c_desc_set
<1>5. TypeOK'
  BY <1>1, <1>2, <1>4, DescMaxAssumption
  DEF TypeOK, CallInv, nb_pkts, Idx, dma, sent
<1>6. CallInv'
  BY <1>1, <1>2, DescMaxAssumption, TxAssumption DEF CallInv, TypeOK, Bufs
<1>7. RingInv'
  <2>1. ASSUME NEW i \in Idx, i < count + 1
        PROVE  Posted(i)' /\ ring'[i].adj = 0
    <3>1. i = count \/ (i < count /\ i # count)
      BY <1>1, <2>1 DEF Idx
    <3>2. i # count => Posted(i) /\ ring[i].adj = 0
      BY <1>1, <3>1 DEF RingInv
    <3>3. CASE i = count
      <4>1. ring'[i] = [flags |-> {"EOP", "COMPLETED"}, buf |-> i, adj |-> 0]
        BY <1>3, <3>3
      <4>2. /\ ring'[i].buf = i /\ ring'[i].flags = {"EOP", "COMPLETED"}
            /\ ring'[i].adj = 0
        BY <4>1
      <4>. QED  BY <4>2 DEF Posted
    <3>4. CASE i # count
      BY <1>3, <3>2, <3>4 DEF Posted
    <3>. QED  BY <3>3, <3>4
  <2>2. ASSUME NEW i \in Idx, i >= count + 1  PROVE Blank(i)'
    <3>1. i # count /\ i >= count
      BY <1>1, <2>2 DEF Idx
    <3>. QED  BY <1>1, <1>3, <3>1 DEF RingInv, Blank
  <2>. QED  BY <1>1, <1>2, <2>1, <2>2 DEF RingInv
<1>8. HwInv' /\ PrefetchInBurst'
  BY <1>1, <1>2 DEF HwInv, PrefetchInBurst, dma
<1>9. SentInv'
  BY <1>1, <1>2 DEF SentInv, Pending, SentNow, dma, sent
<1>. QED  BY <1>5, <1>6, <1>7, <1>8, <1>9

(***************************************************************************)
(* The terminator goes behind the last packet, the adjacency fields count  *)
(* down to it and the engine starts at the first descriptor.               *)
(***************************************************************************)
LEMMA XmitStartStep ==
    ASSUME ShortBursts, IInv, XmitStart  PROVE IInv'
<1>. USE DEF IInv
<1>1. /\ count \in Nat /\ count = nb_pkts /\ nb_pkts < DescMax
      /\ nb_pkts \in Nat
      /\ desc_used = count /\ count \in Idx /\ pc = "post" /\ posted \in Nat
  <2>1. /\ count \in Nat /\ count <= nb_pkts /\ nb_pkts < DescMax
        /\ nb_pkts \in Nat
    BY BurstShape DEF TypeOK
  <2>2. count < nb_pkts => burst[count + 1] = 1
    BY <2>1, BurstShape
  <2>3. /\ pc = "post" /\ avail = DescMax - count /\ desc_used = count
        /\ posted \in Nat
    BY DEF XmitStart, CallInv, TypeOK
  <2>4. count = nb_pkts
    BY <2>1, <2>2, <2>3, DescMaxAssumption DEF XmitStart, Fits
  <2>. QED  BY <2>1, <2>3, <2>4, DescMaxAssumption DEF Idx
<1>2. /\ hw' = "fetch" /\ cur' = 0 /\ done' = 0 /\ pc' = "wait"
      /\ running' = TRUE
      /\ first_adj' = (IF count - 2 > 0 THEN count - 2 ELSE 0)
      /\ UNCHANGED <<burst, count, avail, seg, desc_used, sent, wb, mem,
                     posted, returned, calls>>
  BY DEF XmitStart, xdma_tx_engine_start
<1>3. ASSUME NEW i \in Idx
      PROVE  /\ i < count => Posted(i)'
             /\ i = count => /\ ring'[i].buf = NoBuf
                             /\ "STOPPED" \in ring'[i].flags
             /\ ring'[i].adj = IF i < count - 1 THEN count - 2 - i ELSE 0
             /\ ring'[i].flags \in SUBSET Flags
             /\ ring'[i] \in Desc
  <2>1. ring[i] \in Desc /\ ring[i].adj = 0 /\ i \in Nat
    <3>1. i \in Nat /\ ring[i] \in Desc
      BY DescMaxAssumption DEF TypeOK, Idx
    <3>2. i < count \/ i >= count
      BY <1>1, <3>1
    <3>3. ring[i].adj = 0
      BY <1>1, <3>2 DEF RingInv, Blank
    <3>. QED  BY <3>1, <3>3
  <2>2. Terminated[i] =
          IF i = count
          THEN [flags |-> ring[i].flags \cup {"COMPLETED", "STOPPED"},
                buf |-> ring[i].buf, adj |-> 0]
          ELSE ring[i]
    <3>1. ring[i] = [flags |-> ring[i].flags, buf |-> ring[i].buf, adj |-> 0]
      BY <2>1 DEF Desc
    <3>2. i = count =>
            Terminated[i] =
              xdma_desc_control_set(ring[i], {"COMPLETED", "STOPPED"})
      BY <1>1 DEF Terminated, TypeOK
    <3>3. i # count => Terminated[i] = ring[i]
      BY <1>1 DEF Terminated, TypeOK
    <3>. QED  BY <3>1, <3>2, <3>3 DEF xdma_desc_control_set
  <2>3. Terminated[i] \in Desc /\ Terminated[i].adj = 0
    BY <2>1, <2>2 DEF Desc, Flags
  <2>4. ring'[i] = IF i < count - 1
                   THEN [flags |-> Terminated[i].flags,
                         buf |-> Terminated[i].buf, adj |-> count - 2 - i]
                   ELSE Terminated[i]
    BY <2>3 DEF XmitStart, Adjacent, xdma_desc_adjacent_set, Desc
  <2>5. i < count => ring[i].buf = i /\ ring[i].flags = {"EOP", "COMPLETED"}
    BY <1>1 DEF RingInv, Posted
  <2>6. i = count => ring[i].buf = NoBuf
    BY <1>1 DEF RingInv, Blank, Idx
  <2>7. ring'[i] \in Desc
    <3>1. i < count - 1 => count - 2 - i \in 0 .. AdjValues - 1
      BY <1>1, <2>1, AdjAssumption, DescMaxAssumption DEF AdjValues
    <3>. QED  BY <2>3, <2>4, <3>1 DEF Desc
  <2>. QED  BY <1>1, <2>1, <2>2, <2>3, <2>4, <2>5, <2>6, <2>7 DEF Posted, Desc
<1>4. ring' \in [Idx -> Desc]
  BY <1>3 DEF XmitStart, Adjacent
<1>5. TypeOK'
  <2>1. first_adj' \in 0 .. AdjValues - 1
    BY <1>1, <1>2, AdjAssumption, DescMaxAssumption DEF AdjValues
  <2>. QED  BY <1>1, <1>2, <1>4, <2>1, DescMaxAssumption
            DEF TypeOK, nb_pkts, sent
<1>6. CallInv'
  BY <1>1, <1>2 DEF CallInv, TypeOK, nb_pkts
<1>7. RingInv'
  BY <1>1, <1>2, <1>3 DEF RingInv
<1>8. HwInv'
  BY <1>1, <1>2 DEF HwInv
<1>9. PrefetchInBurst'
  BY <1>1, <1>2, <1>3 DEF PrefetchInBurst, Idx
<1>10. SentInv'
  BY <1>1, <1>2 DEF SentInv, Pending, SentNow, sent
<1>. QED  BY <1>5, <1>6, <1>7, <1>8, <1>9, <1>10

(***************************************************************************)
(* The count for which the call waits is reached only when the hardware    *)
(* has sent every packet of the burst: the 24 bits of the writeback hold   *)
(* any count a ring can reach.                                             *)
(***************************************************************************)
LEMMA AllSentWhenCompleted ==
    ASSUME ShortBursts, IInv, pc = "wait", Completed
    PROVE  done = count /\ count = nb_pkts /\ cur = count /\ hw # "report"
<1>1. /\ wb = done /\ done <= count /\ count = nb_pkts /\ cur = done
      /\ (hw = "report" => done < count)
  BY DEF IInv, HwInv, CallInv
<1>2. done \in Nat /\ count \in Nat /\ nb_pkts < DescMax /\ DescMax < 2 ^ 24
  BY BurstShape DEF IInv, TypeOK, ShortBursts
<1>3. done % (2 ^ 24) = done
  BY <1>1, <1>2, DescMaxAssumption
<1>4. done = nb_pkts
  BY <1>1, <1>3 DEF Completed, ShortBursts
<1>. QED  BY <1>1, <1>2, <1>4

(***************************************************************************)
(* The call stops the engine, clears the ring and reports the burst as     *)
(* sent.                                                                   *)
(***************************************************************************)
LEMMA XmitReturnStep ==
    ASSUME ShortBursts, IInv, XmitReturn  PROVE IInv'
<1>. USE DEF IInv, XmitReturn, xdma_tx_engine_stop
<1>1. done = count /\ count = nb_pkts /\ hw # "report"
  BY AllSentWhenCompleted
<1>2. ring' = [i \in Idx |-> BlankDesc]
  BY DEF xdma_desc_ring_clear
<1>3. TypeOK'
  <2>1. ring' \in [Idx -> Desc]
    BY <1>2 DEF BlankDesc, Desc, AdjValues, NoBuf
  <2>2. returned' \in Nat
    BY BurstShape DEF TypeOK
  <2>3. desc_used' \in Idx
    BY DescMaxAssumption DEF Idx
  <2>. QED  BY <2>1, <2>2, <2>3 DEF TypeOK, nb_pkts, sent
<1>4. CallInv' /\ HwInv' /\ PrefetchInBurst'
  BY DEF CallInv, HwInv, PrefetchInBurst
<1>5. RingInv'
  BY <1>2 DEF RingInv, Blank, BlankDesc
<1>6. SentInv'
  BY <1>1 DEF SentInv, Pending, SentNow, TypeOK, sent
<1>. QED  BY <1>3, <1>4, <1>5, <1>6

(***************************************************************************)
(* The hardware sends the next packet of the burst, with the data it had   *)
(* when the call was made.                                                 *)
(***************************************************************************)
LEMMA HwSendStep ==
    ASSUME ShortBursts, IInv, HwSend
    PROVE  /\ IInv' /\ wire' = Append(wire, Len(wire) + 1)
           /\ Len(wire) < posted /\ posted \in Nat
<1>. USE DEF IInv
<1>1. /\ pc = "wait" /\ hw = "fetch" /\ cur = done /\ done <= count
      /\ done \in Nat /\ count \in Nat /\ posted \in Nat /\ count <= posted
  BY DEF HwSend, HwInv, CallInv, TypeOK
<1>2. done < count
  <2>1. ring[cur].buf # NoBuf
    BY TxAssumption DEF HwSend, Bufs, NoBuf
  <2>. QED  BY <1>1, <2>1 DEF RingInv
<1>3. /\ cur \in Idx /\ ring[cur].buf = cur /\ "EOP" \in ring[cur].flags
      /\ cur \in Bufs
  BY <1>1, <1>2 DEF HwSend, RingInv, Posted
<1>4. posted - Pending = posted - count + done
  BY <1>1 DEF Pending, SentNow
<1>5. mem[ring[cur].buf] = posted - count + done + 1
  BY <1>1, <1>3 DEF CallInv
<1>6. Len(wire) = posted - count + done
  BY <1>1, <1>4 DEF SentInv
<1>7. /\ wire' = Append(wire, Len(wire) + 1) /\ hw' = "report"
      /\ frames' = frames + 1
  BY <1>3, <1>5, <1>6 DEF HwSend
<1>8. UNCHANGED <<cur, done, first_adj, wb, mem, posted, returned, calls,
                  engine, call>>
  BY DEF HwSend
<1>9. posted' - Pending' = posted - count + done + 1
  BY <1>1, <1>7, <1>8 DEF Pending, SentNow, call
<1>10. wire' = [i \in 1 .. posted - count + done + 1 |-> i]
  BY <1>1, <1>4, <1>6, <1>7 DEF SentInv
<1>11. TypeOK'
  BY <1>1, <1>6, <1>7, <1>8 DEF TypeOK, engine, call, nb_pkts
<1>12. CallInv'
  BY <1>8 DEF CallInv, engine, call, nb_pkts
<1>13. RingInv'
  BY <1>8 DEF RingInv, Posted, Blank, engine, call
<1>14. HwInv'
  BY <1>1, <1>2, <1>7, <1>8 DEF HwInv, call
<1>15. PrefetchInBurst'
  BY <1>1, <1>8 DEF PrefetchInBurst, engine
<1>16. SentInv'
  BY <1>1, <1>4, <1>7, <1>8, <1>9, <1>10 DEF SentInv, call
<1>. QED  BY <1>1, <1>2, <1>6, <1>7, <1>11, <1>12, <1>13, <1>14, <1>15, <1>16

(***************************************************************************)
(* A descriptor of a packet has the completion flag and no stop flag: the  *)
(* count is written back and the hardware goes on.                         *)
(***************************************************************************)
LEMMA HwReportStep ==
    ASSUME ShortBursts, IInv, HwReport  PROVE IInv'
<1>. USE DEF IInv
<1>1. /\ pc = "wait" /\ hw = "report" /\ cur = done /\ done < count
      /\ done \in Nat /\ count \in Nat /\ count < DescMax
  BY BurstShape DEF HwReport, HwInv, CallInv, TypeOK
<1>2. "COMPLETED" \in ring[cur].flags /\ "STOPPED" \notin ring[cur].flags
  BY <1>1 DEF HwReport, RingInv, Posted
<1>3. /\ hw' = "fetch" /\ cur' = cur + 1 /\ done' = done + 1 /\ wb' = done + 1
      /\ UNCHANGED <<first_adj, sent, mem, posted, returned, calls, engine,
                     call>>
  BY <1>2 DEF HwReport, NextDesc
<1>4. TypeOK'
  BY <1>1, <1>3, DescMaxAssumption DEF TypeOK, engine, call, sent, nb_pkts
<1>5. CallInv' /\ RingInv' /\ PrefetchInBurst'
  BY <1>1, <1>3
  DEF CallInv, RingInv, Posted, Blank, PrefetchInBurst, engine, call, nb_pkts
<1>6. HwInv'
  BY <1>1, <1>3 DEF HwInv, call
<1>7. SentInv'
  BY <1>1, <1>3 DEF SentInv, Pending, SentNow, sent, call
<1>. QED  BY <1>4, <1>5, <1>6, <1>7

(***************************************************************************)
(* The only descriptor without a buffer that the hardware meets is the     *)
(* terminator, at which it halts.                                          *)
(***************************************************************************)
LEMMA HwBlankStep ==
    ASSUME ShortBursts, IInv, HwBlank  PROVE IInv'
<1>. USE DEF IInv
<1>1. /\ pc = "wait" /\ hw = "fetch" /\ cur = done /\ done <= count
      /\ done \in Nat /\ count \in Nat
  BY DEF HwBlank, HwInv, TypeOK
<1>2. done = count
  BY <1>1 DEF HwBlank, RingInv, Posted, NoBuf
<1>3. /\ hw' = "halt" /\ cur' = cur
      /\ UNCHANGED <<done, first_adj, sent, wb, mem, posted, returned, calls,
                     engine, call>>
  BY <1>1, <1>2 DEF HwBlank, RingInv
<1>4. TypeOK'
  BY <1>3 DEF TypeOK, engine, call, sent, nb_pkts
<1>5. CallInv' /\ RingInv' /\ PrefetchInBurst'
  BY <1>1, <1>3
  DEF CallInv, RingInv, Posted, Blank, PrefetchInBurst, engine, call, nb_pkts
<1>6. HwInv'
  BY <1>1, <1>2, <1>3 DEF HwInv, call
<1>7. SentInv'
  BY <1>1, <1>3 DEF SentInv, Pending, SentNow, sent, call
<1>. QED  BY <1>4, <1>5, <1>6, <1>7

(***************************************************************************)
(* Every step of the driver and of the hardware preserves the invariant.   *)
(***************************************************************************)
LEMMA Inductive ==
    ASSUME ShortBursts, IInv, [Next]_vars  PROVE IInv'
<1>1. CASE UNCHANGED vars
  BY <1>1
  DEF IInv, TypeOK, CallInv, RingInv, Posted, Blank, HwInv, SentInv, Pending,
      SentNow, PrefetchInBurst, vars, engine, call, dma, sent, nb_pkts
<1>. QED
  BY <1>1, XmitCallStep, PostPacketStep, XmitStartStep, XmitReturnStep,
     HwSendStep, HwReportStep, HwBlankStep
  DEF Next, Xmit, Hardware

-----------------------------------------------------------------------------
(***************************************************************************)
(* The invariant holds throughout.                                         *)
(***************************************************************************)
LEMMA InvariantHolds ==
    ASSUME ShortBursts  PROVE Spec => []IInv
<1>1. Init => IInv
  BY InitIInv
<1>2. IInv /\ [Next]_vars => IInv'
  BY Inductive
<1>. QED  BY <1>1, <1>2, PTL DEF Spec

(***************************************************************************)
(* The transmit path is well typed.                                        *)
(***************************************************************************)
THEOREM TxTyped ==
    ASSUME ShortBursts  PROVE Spec => []TypeOK
<1>1. IInv => TypeOK
  BY DEF IInv
<1>. QED  BY <1>1, InvariantHolds, PTL

(***************************************************************************)
(* When a call of xdma_xmit_pkts has returned, everything it reports as    *)
(* sent has been sent, with the data it had when the call was made.        *)
(***************************************************************************)
THEOREM TxReturnMeansSent ==
    ASSUME ShortBursts  PROVE Spec => []ReturnMeansSent
<1>1. IInv => ReturnMeansSent
  BY DEF IInv, ReturnMeansSent, SentInv, Pending, TypeOK
<1>. QED  BY <1>1, InvariantHolds, PTL

(***************************************************************************)
(* The hardware never works on a descriptor behind the terminator of the   *)
(* burst, whatever earlier bursts have left in the ring.                   *)
(***************************************************************************)
THEOREM TxStopsAtTerminator ==
    ASSUME ShortBursts  PROVE Spec => []StopsAtTerminator
<1>1. IInv => StopsAtTerminator
  BY DEF IInv, StopsAtTerminator, CallInv, HwInv, TypeOK, Idx
<1>. QED  BY <1>1, InvariantHolds, PTL

(***************************************************************************)
(* The adjacency register and the adjacency fields of the descriptors lead *)
(* the hardware to prefetch descriptors of this burst only, also for       *)
(* bursts of none, one or two packets.                                     *)
(***************************************************************************)
THEOREM TxPrefetchInBurst ==
    ASSUME ShortBursts  PROVE Spec => []PrefetchInBurst
<1>1. IInv => PrefetchInBurst
  BY DEF IInv
<1>. QED  BY <1>1, InvariantHolds, PTL

(***************************************************************************)
(* When the driver clears the ring, which it does without a handshake, the *)
(* hardware has processed every descriptor of the burst and has at most    *)
(* the terminator left to fetch, which is empty before and after.          *)
(***************************************************************************)
THEOREM TxRingQuiet ==
    ASSUME ShortBursts  PROVE Spec => RingQuiet
<1>1. ASSUME IInv, [Next]_vars, hw \in {"fetch", "report"}, ring' # ring
      PROVE  OnlyTerminatorLeft
  <2>1. pc = "wait"
    BY <1>1 DEF IInv, HwInv
  <2>2. ~PostPacket /\ ~XmitStart /\ \A b \in Bursts : ~XmitCall(b)
    BY <2>1 DEF PostPacket, XmitStart, XmitCall, XmitEnter
  <2>3. ~Hardware /\ ~UNCHANGED vars
    BY <1>1 DEF Hardware, HwSend, HwReport, HwBlank, vars, engine
  <2>4. XmitReturn
    BY <1>1, <2>2, <2>3 DEF Next, Xmit
  <2>5. done = count /\ cur = count /\ hw = "fetch" /\ desc_used = count
    BY <1>1, <2>1, <2>4, AllSentWhenCompleted
    DEF XmitReturn, IInv, CallInv
  <2>6. ring[cur].buf = NoBuf /\ cur \in Idx
    BY <1>1, <2>1, <2>5 DEF IInv, RingInv, TypeOK
  <2>7. ring'[cur] = BlankDesc
    BY <2>4, <2>6
    DEF XmitReturn, xdma_tx_engine_stop, xdma_desc_ring_clear
  <2>. QED  BY <2>5, <2>6, <2>7 DEF OnlyTerminatorLeft, BlankDesc
<1>2. IInv /\ [Next]_vars =>
        [(hw \in {"fetch", "report"} /\ ring' # ring)
            => OnlyTerminatorLeft]_vars
  BY <1>1
<1>. QED  BY <1>2, InvariantHolds, PTL DEF Spec, RingQuiet

(***************************************************************************)
(* The transmit path implements a FIFO of DescMax packets: across any      *)
(* number of calls, which reuse ring and buffers, every packet leaves once *)
(* and in order.                                                           *)
(***************************************************************************)
THEOREM TxIsFifo ==
    ASSUME ShortBursts  PROVE Spec => FifoRefinement
<1>1. Init => Fifo!FifoInit
  BY DEF Init, Fifo!FifoInit
<1>2. ASSUME IInv, [Next]_vars
      PROVE  [Fifo!FifoNext]_(Fifo!fifoVars)
  <2>1. CASE PostPacket
    <3>1. count < nb_pkts /\ nb_pkts < DescMax /\ burst[count + 1] = 1
      BY <1>2, <2>1, BurstShape DEF PostPacket, Fits, IInv, TypeOK
    <3>2. /\ pc = "post" /\ Pending = count /\ posted \in Nat /\ count \in Nat
          /\ count <= posted
      BY <1>2, <2>1 DEF PostPacket, IInv, TypeOK, CallInv, Pending, SentNow
    <3>3. Len(wire) = posted - count
      BY <1>2, <3>2 DEF IInv, SentInv
    <3>4. Fifo!Take(1)
      BY <1>2, <2>1, <3>1, <3>2, <3>3, BurstShape, DescMaxAssumption
      DEF PostPacket, Fifo!Take, sent, IInv
    <3>5. 1 \in 1 .. DescMax
      BY DescMaxAssumption
    <3>. QED  BY <3>4, <3>5 DEF Fifo!FifoNext
  <2>2. CASE HwSend
    <3>1. Fifo!Give
      BY <1>2, <2>2, HwSendStep DEF HwSend, Fifo!Give
    <3>. QED  BY <3>1 DEF Fifo!FifoNext
  <2>3. CASE XmitStart \/ XmitReturn \/ \E b \in Bursts : XmitCall(b)
    BY <2>3 DEF XmitStart, XmitReturn, XmitCall, XmitEnter, sent, Fifo!fifoVars
  <2>4. CASE HwReport \/ HwBlank \/ UNCHANGED vars
    BY <2>4 DEF HwReport, HwBlank, vars, sent, Fifo!fifoVars
  <2>. QED  BY <1>2, <2>1, <2>2, <2>3, <2>4 DEF Next, Xmit, Hardware
<1>. QED  BY <1>1, <1>2, InvariantHolds, PTL
          DEF Spec, FifoRefinement, Fifo!FifoSpec
-----------------------------------------------------------------------------
(***************************************************************************)
(* While a call waits, either the hardware has a descriptor to process, or *)
(* it has halted at the terminator and the count it has written is the one *)
(* for which the loop waits: no state of the wait is stuck.                *)
(***************************************************************************)
WaitGoesOn ==
    pc = "wait" =>
        \/ hw = "report" /\ cur \in Idx
        \/ hw = "fetch" /\ cur \in Idx /\ ring[cur].buf \in Bufs \cup {NoBuf}
        \/ hw = "halt" /\ Completed

(***************************************************************************)
(* Steps of driver and hardware before the call returns: one per packet to *)
(* post and one to start the engine, two of the hardware per packet, one   *)
(* for the terminator, and the return.                                     *)
(***************************************************************************)
StepsLeft ==
    CASE pc = "post" -> 3 * nb_pkts - count + 3
      [] pc = "wait" -> 2 * (count - done) + (IF hw = "fetch" THEN 2 ELSE 1)
      [] OTHER -> 0

(***************************************************************************)
(* Every step during a call of xdma_xmit_pkts brings its return nearer: a  *)
(* call takes at most 3 * nb_pkts + 3 steps, whatever the order in which   *)
(* driver and hardware take theirs.                                        *)
(***************************************************************************)
CallShrinks ==
    [][pc # "idle" => /\ StepsLeft \in Nat /\ StepsLeft' \in Nat
                      /\ StepsLeft' < StepsLeft]_vars

(***************************************************************************)
(* The wait of xdma_xmit_pkts has no stuck state: the safety half of       *)
(* XmitReturns, with the measure of TxCallShrinks.                         *)
(***************************************************************************)
THEOREM TxWaitGoesOn ==
    ASSUME ShortBursts  PROVE Spec => []WaitGoesOn
<1>1. ASSUME IInv, pc = "wait"
      PROVE  \/ hw = "report" /\ cur \in Idx
             \/ /\ hw = "fetch" /\ cur \in Idx
                /\ ring[cur].buf \in Bufs \cup {NoBuf}
             \/ hw = "halt" /\ Completed
  <2>1. /\ wb = done /\ cur = done /\ done <= count /\ count = nb_pkts
        /\ hw = "halt" => done = count
        /\ hw \in {"fetch", "report", "halt"}
    BY <1>1 DEF IInv, HwInv, CallInv, TypeOK
  <2>2. /\ done \in Nat /\ count \in Nat /\ count < DescMax
        /\ count <= BufNum /\ DescMax < 2 ^ 24
        /\ DescMax \in Nat /\ BufNum \in Nat
    BY <1>1, <2>1, BurstShape, DescMaxAssumption, TxAssumption
    DEF IInv, TypeOK, ShortBursts
  <2>3. cur \in Idx
    BY <2>1, <2>2 DEF Idx
  <2>4. CASE hw = "fetch" /\ done < count
    <3>1. ring[cur].buf = cur
      BY <1>1, <2>1, <2>3, <2>4 DEF IInv, RingInv, Posted
    <3>2. cur \in Bufs
      BY <2>1, <2>2, <2>4 DEF Bufs
    <3>. QED  BY <2>3, <2>4, <3>1, <3>2
  <2>5. CASE hw = "fetch" /\ done = count
    <3>1. ring[cur].buf = NoBuf
      BY <1>1, <2>1, <2>5 DEF IInv, RingInv
    <3>. QED  BY <2>3, <2>5, <3>1
  <2>6. CASE hw = "halt"
    <3>1. wb % (2 ^ 24) = nb_pkts
      BY <2>1, <2>2, <2>6
    <3>. QED  BY <2>6, <3>1 DEF Completed
  <2>. QED  BY <2>1, <2>2, <2>3, <2>4, <2>5, <2>6
<1>2. IInv => WaitGoesOn
  BY <1>1 DEF WaitGoesOn
<1>. QED  BY <1>2, InvariantHolds, PTL

(***************************************************************************)
(* A call of xdma_xmit_pkts cannot go round in circles.                    *)
(***************************************************************************)
THEOREM TxCallShrinks ==
    ASSUME ShortBursts  PROVE Spec => CallShrinks
<1>1. ASSUME IInv, IInv', Next, pc # "idle"
      PROVE  StepsLeft \in Nat /\ StepsLeft' \in Nat /\ StepsLeft' < StepsLeft
  <2>1. nb_pkts \in Nat /\ count \in Nat /\ count <= nb_pkts /\ done \in Nat
    <3>1. /\ nb_pkts \in Nat /\ DescMax \in Nat
          /\ count \in 0 .. nb_pkts /\ done \in 0 .. DescMax
      BY <1>1, BurstShape, DescMaxAssumption DEF IInv, TypeOK
    <3>. QED  BY <3>1
  <2>2. pc = "wait" => done <= count
    BY <1>1 DEF IInv, HwInv
  <2>3. CASE PostPacket
    <3>1. /\ pc = "post" /\ pc' = "post" /\ count' = count + 1
          /\ nb_pkts' = nb_pkts
      BY <2>3 DEF PostPacket, nb_pkts
    <3>2. /\ StepsLeft = 3 * nb_pkts - count + 3
          /\ StepsLeft' = 3 * nb_pkts - (count + 1) + 3
      BY <3>1 DEF StepsLeft
    <3>. QED  BY <2>1, <3>1, <3>2
  <2>4. CASE XmitStart
    <3>1. /\ pc = "post" /\ pc' = "wait" /\ hw' = "fetch" /\ done' = 0
          /\ count' = count
      BY <2>4 DEF XmitStart, xdma_tx_engine_start
    <3>2. /\ StepsLeft = 3 * nb_pkts - count + 3
          /\ StepsLeft' = 2 * (count - 0) + 2
      BY <3>1 DEF StepsLeft
    <3>. QED  BY <2>1, <3>2
  <2>5. CASE XmitReturn
    <3>1. pc = "wait" /\ pc' = "idle"
      BY <2>5 DEF XmitReturn
    <3>2. /\ StepsLeft = 2 * (count - done) + (IF hw = "fetch" THEN 2 ELSE 1)
          /\ StepsLeft' = 0
      BY <3>1 DEF StepsLeft
    <3>. QED  BY <2>1, <2>2, <3>1, <3>2
  <2>6. CASE Hardware
    <3>1. /\ pc = "wait" /\ pc' = "wait" /\ count' = count
      BY <1>1, <2>6
      DEF Hardware, HwSend, HwReport, HwBlank, call, IInv, HwInv, TypeOK
    <3>2. \/ hw = "fetch" /\ hw' = "report" /\ done' = done
          \/ hw = "report" /\ hw' \in {"fetch", "halt"} /\ done' = done + 1
          \/ hw = "fetch" /\ hw' = "halt" /\ done' = done
      <4>1. HwSend => hw = "fetch" /\ hw' = "report" /\ done' = done
        BY DEF HwSend
      <4>2. HwReport => /\ hw = "report" /\ hw' \in {"fetch", "halt"}
                        /\ done' = done + 1
        BY DEF HwReport
      <4>3. HwBlank => hw = "fetch" /\ hw' = "halt" /\ done' = done
        <5>1. ASSUME HwBlank  PROVE "STOPPED" \in ring[cur].flags
          <6>1. hw = "fetch" /\ cur = done /\ ring[cur].buf = NoBuf
            BY <1>1, <3>1, <5>1 DEF HwBlank, IInv, HwInv
          <6>2. done = count
            BY <1>1, <2>1, <2>2, <3>1, <5>1, <6>1
            DEF HwBlank, IInv, RingInv, Posted, NoBuf
          <6>. QED  BY <1>1, <3>1, <6>1, <6>2 DEF IInv, RingInv
        <5>. QED  BY <5>1 DEF HwBlank
      <4>. QED  BY <2>6, <4>1, <4>2, <4>3 DEF Hardware
    <3>3. /\ StepsLeft = 2 * (count - done) + (IF hw = "fetch" THEN 2 ELSE 1)
          /\ StepsLeft' =
                2 * (count - done') + (IF hw' = "fetch" THEN 2 ELSE 1)
      BY <3>1 DEF StepsLeft
    <3>4. done' <= count
      BY <1>1, <3>1 DEF IInv, HwInv
    <3>5. CASE hw = "fetch" /\ hw' = "report" /\ done' = done
      <4>1. /\ StepsLeft = 2 * (count - done) + 2
            /\ StepsLeft' = 2 * (count - done) + 1
        BY <3>3, <3>5
      <4>. QED  BY <2>1, <2>2, <3>1, <4>1
    <3>6. CASE /\ hw = "report" /\ hw' \in {"fetch", "halt"}
               /\ done' = done + 1
      <4>1. /\ StepsLeft = 2 * (count - done) + 1
            /\ \/ StepsLeft' = 2 * (count - (done + 1)) + 2
               \/ StepsLeft' = 2 * (count - (done + 1)) + 1
        BY <3>3, <3>6
      <4>2. done + 1 <= count
        BY <3>4, <3>6
      <4>. QED  BY <2>1, <4>1, <4>2
    <3>7. CASE hw = "fetch" /\ hw' = "halt" /\ done' = done
      <4>1. /\ StepsLeft = 2 * (count - done) + 2
            /\ StepsLeft' = 2 * (count - done) + 1
        BY <3>3, <3>7
      <4>. QED  BY <2>1, <2>2, <3>1, <4>1
    <3>. QED  BY <3>2, <3>5, <3>6, <3>7
  <2>7. CASE \E b \in Bursts : XmitCall(b)
    BY <1>1, <2>7 DEF XmitCall, XmitEnter
  <2>. QED  BY <1>1, <2>3, <2>4, <2>5, <2>6, <2>7 DEF Next, Xmit
<1>2. IInv /\ IInv' /\ [Next]_vars =>
        [pc # "idle" => /\ StepsLeft \in Nat /\ StepsLeft' \in Nat
                        /\ StepsLeft' < StepsLeft]_vars
  BY <1>1
<1>. QED  BY <1>2, InvariantHolds, PTL DEF Spec, CallShrinks
=============================================================================
