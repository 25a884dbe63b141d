------------------------------- MODULE XdmaRx -------------------------------
(***************************************************************************)
(* One C2H engine: xdma_recv_pkts and what it calls (xdma_rxtx.c,          *)
(* xdma_access_common.c), against the FPGA's DMA engine, which fills       *)
(* descriptors and writes the completed-descriptor count back to host      *)
(* memory at its own pace.                                                 *)
(*                                                                         *)
(* The caller passes the same array rx_pkts of NbPkts mbufs on every call, *)
(* so a buffer is named by its place in the array.  The hardware numbers   *)
(* the packets it stores 1, 2, 3, ...; a packet's length is written to one *)
(* stream writeback word that all descriptors share, and is modelled by    *)
(* the number of the packet it was measured on.                            *)
(*                                                                         *)
(* The writeback word is plain (not volatile) memory that the hardware     *)
(* changes under the polling loop: a debug build loads it twice per round  *)
(* and polls PollLimit rounds, a release build may load it once and leave  *)
(* after one round.  Every such choice is a disjunct below.                *)
(***************************************************************************)
EXTENDS XdmaRing, Sequences

CONSTANTS NbPkts,      \* the burst size the application asks for
          PollLimit,   \* polling rounds before a call gives up (100)
          MaxPkts      \* bound: packets the FPGA ever sends

\* The driver finds the end of a batch by desc_used = nb_pkts and its ring by
\* desc_used returning to 0, so the burst must cover the ring: testapp.h has
\* SIZE_OF_PKTS_BUFFER = XDMA_DESC_MAX = 32.
ASSUME RxAssumption ==
    /\ NbPkts = DescMax
    /\ NbPkts < 65536
    /\ PollLimit \in Nat
    /\ MaxPkts \in Nat

VARIABLES
    running,     \* engine->running
    desc_used,   \* engine->desc_used
    ring,        \* engine->desc_ring
    wb,          \* wb_status->completed_desc_count
    swb,         \* length word of the shared stream writeback
    pc,          \* where xdma_recv_pkts is
    nb_pkts,     \* its parameter, clamped when it starts the engine
    tran_time,   \* polling rounds so far
    old,         \* old_wb_status_count
    id,          \* count_desc of prepare_packets
    nb_cmpt,     \* nb_cmpt_desc, the value returned
    mb,          \* mb[i]: packet stored in rx_pkts[i], and its data_len
    hw,          \* state of the DMA engine in the FPGA
    cur,         \* descriptor it works on
    done,        \* descriptors it has completed since it was started
    rcvd,        \* packets it has stored in host memory so far
    delivered,   \* packets prepared for the caller, in order
    returned     \* sum of the counts returned to the caller

engine == <<running, desc_used, ring>>
call   == <<pc, nb_pkts, tran_time, old, id, nb_cmpt>>
dma    == <<hw, cur, done, rcvd>>
vars   == <<engine, call, dma, wb, swb, mb, delivered, returned>>

Mbuf == [pkt : Nat, len : Nat]

EngineTyped ==
    /\ running \in BOOLEAN
    /\ desc_used \in Nat
    /\ ring \in [Idx -> Desc]

CallTyped ==
    /\ pc \in {"idle", "poll", "test", "prep", "check"}
    /\ nb_pkts \in Nat
    /\ tran_time \in 0 .. PollLimit
    /\ old \in Nat
    /\ id \in Nat
    /\ nb_cmpt \in Nat /\ nb_cmpt < 65536

DmaTyped ==
    /\ hw \in {"off", "fetch", "report", "halt"}
    /\ cur \in 0 .. DescMax
    /\ done \in Nat
    /\ rcvd \in 0 .. MaxPkts

HostTyped ==
    /\ wb \in Nat
    /\ swb \in Nat
    /\ mb \in [Idx -> Mbuf]
    /\ delivered \in Seq(Nat)
    /\ returned \in Nat

TypeOK == EngineTyped /\ CallTyped /\ DmaTyped /\ HostTyped

-----------------------------------------------------------------------------
\* xdma_rx_engine_setup: a zeroed engine, an initialised ring.
Init ==
    /\ running = FALSE
    /\ desc_used = 0
    /\ ring = xdma_desc_ring_init
    /\ wb = 0
    /\ swb = 0
    /\ pc = "idle"
    /\ nb_pkts = 0
    /\ tran_time = 0
    /\ old = 0
    /\ id = 0
    /\ nb_cmpt = 0
    /\ mb = [i \in Idx |-> [pkt |-> 0, len |-> 0]]
    /\ hw = "off"
    /\ cur = 0
    /\ done = 0
    /\ rcvd = 0
    /\ delivered = <<>>
    /\ returned = 0

-----------------------------------------------------------------------------
\* The locals a call starts with.
CallFrame(n) ==
    /\ pc' = "poll"
    /\ nb_pkts' = n
    /\ tran_time' = 0
    /\ nb_cmpt' = 0
    /\ UNCHANGED <<old, id>>

\* RTE_MIN(nb_pkts, engine->desc_max)
Clamped == IF NbPkts <= DescMax THEN NbPkts ELSE DescMax

\* Wrong variant: every descriptor is given the first mbuf.
SameMbufDescSet(n) ==
    [i \in Idx |->
        IF (i - desc_used) % DescMax < n
        THEN [xdma_desc_control_set(ring[i], {"COMPLETED"}) EXCEPT !.buf = 0]
        ELSE ring[i]]

\* xdma_c2h_desc_set for rx_pkts[0 .. n-1]: the k-th packet's mbuf goes into
\* the k-th descriptor after desc_used.
xdma_c2h_desc_set(n) ==
    [i \in Idx |->
        LET k == (i - desc_used) % DescMax
        IN  IF k < n
            THEN [xdma_desc_control_set(ring[i], {"COMPLETED"}) EXCEPT !.buf = k]
            ELSE ring[i]]

\* RUN goes from 0 to 1: the hardware starts over at the first descriptor
\* with its count of completed descriptors at 0.
xdma_rx_engine_start ==
    /\ running' = TRUE
    /\ hw' = "fetch"
    /\ cur' = 0
    /\ done' = 0

\* A call that finds the engine stopped posts every mbuf and starts it.
RecvStart ==
    /\ pc = "idle"
    /\ ~running
    /\ CallFrame(Clamped)
    /\ ring' = xdma_c2h_desc_set(Clamped)
    /\ desc_used' = get_desc(desc_used, Clamped)
    /\ xdma_rx_engine_start
    /\ UNCHANGED <<wb, swb, mb, rcvd, delivered, returned>>

\* A call that finds the engine running only polls.
RecvResume ==
    /\ pc = "idle"
    /\ running
    /\ CallFrame(NbPkts)
    /\ UNCHANGED <<engine, dma, wb, swb, mb, delivered, returned>>

\* The conditions of the polling loop, of prepare_packets and of the return
\* path, each after the wrong variant a slip in it would give.
WholeBatch == old = nb_pkts
NewCompletions == old # desc_used

OneRoundMore == tran_time <= PollLimit
RoundsLeft == tran_time < PollLimit

PastTheEnd == id <= old
MoreToPrepare == id < old

AbsoluteCount == old % 65536
CompletedNow == (old - desc_used) % 65536

AnyCompletion == desc_used > 0
BatchComplete == desc_used = nb_pkts

\* First load of the writeback word.
PollRead ==
    /\ pc = "poll"
    /\ pc' = "test"
    /\ old' = wb
    /\ UNCHANGED <<nb_pkts, tran_time, id, nb_cmpt>>
    /\ UNCHANGED <<engine, dma, wb, swb, mb, delivered, returned>>

\* New completions.  The second load is the word's current value or, where
\* the compiler reuses the first load, old itself: the test old = wb fails
\* only in PollMiss.
PollHit ==
    /\ pc = "test"
    /\ NewCompletions
    /\ pc' = "prep"
    /\ id' = desc_used
    /\ UNCHANGED <<nb_pkts, tran_time, old, nb_cmpt>>
    /\ UNCHANGED <<engine, dma, wb, swb, mb, delivered, returned>>

\* Nothing new, or the word changed between the two loads.  The loop goes on
\* until PollLimit rounds have missed; an optimised build may leave it after
\* any round, as nothing in the loop can change for the compiler.
PollMiss ==
    /\ pc = "test"
    /\ ~NewCompletions \/ old # wb
    /\ \/ /\ RoundsLeft
          /\ tran_time' = tran_time + 1
          /\ pc' = "poll"
       \/ /\ tran_time' = 0
          /\ pc' = "check"
    /\ UNCHANGED <<nb_pkts, old, id, nb_cmpt>>
    /\ UNCHANGED <<engine, dma, wb, swb, mb, delivered, returned>>

\* The elements of rx_pkts one round of prepare_packets reads: the mbuf it
\* prepares, and the next one for rte_xdma_prefetch(rx_pkts[count_desc+1]).
\* With the last mbuf of the array that is one element past its end; what is
\* read there goes into the prefetch only and leaves no trace in the state.
ReadsAt == {id, id + 1}

\* prepare_segmented_packet for rx_pkts[id]: its length is read from the
\* shared writeback word as it is now, and the loop over segments is left
\* after the first one.  The reads of the round are ReadsAt.
PreparePacket ==
    /\ pc = "prep"
    /\ MoreToPrepare
    /\ id \in Idx        \* implied, as old <= DescMax
    /\ mb' = [mb EXCEPT ![id].len = swb]
    /\ delivered' = Append(delivered, mb[id].pkt)
    /\ id' = id + 1
    /\ UNCHANGED <<pc, nb_pkts, tran_time, old, nb_cmpt>>
    /\ UNCHANGED <<engine, dma, wb, swb, returned>>

\* End of prepare_packets: the count to return, as uint16_t, and desc_used.
PrepareDone ==
    /\ pc = "prep"
    /\ ~MoreToPrepare
    /\ pc' = "check"
    /\ nb_cmpt' = CompletedNow
    /\ desc_used' = old
    /\ UNCHANGED <<nb_pkts, tran_time, old, id, running, ring>>
    /\ UNCHANGED <<dma, wb, swb, mb, delivered, returned>>

\* Wrong variant: the engine is still marked running.
StopLeavesRunning ==
    /\ hw' = "off"
    /\ ring' = xdma_desc_ring_clear(ring, "C2H")
    /\ wb' = 0
    /\ desc_used' = 0
    /\ UNCHANGED <<running, cur, done>>

\* Wrong variant: the count of the finished run stays in memory.
StopKeepsCount ==
    /\ hw' = "off"
    /\ ring' = xdma_desc_ring_clear(ring, "C2H")
    /\ running' = FALSE
    /\ desc_used' = 0
    /\ UNCHANGED <<wb, cur, done>>

\* RUN goes to 0, which ends all fetching, then the ring and the count are
\* reset.
xdma_rx_engine_stop ==
    /\ hw' = "off"
    /\ ring' = xdma_desc_ring_clear(ring, "C2H")
    /\ wb' = 0
    /\ running' = FALSE
    /\ desc_used' = 0
    /\ UNCHANGED <<cur, done>>

\* The batch is complete: stop the engine and return.
RecvStop ==
    /\ pc = "check"
    /\ BatchComplete
    /\ xdma_rx_engine_stop
    /\ pc' = "idle"
    /\ returned' = returned + nb_cmpt
    /\ UNCHANGED <<nb_pkts, tran_time, old, id, nb_cmpt>>
    /\ UNCHANGED <<rcvd, swb, mb, delivered>>

\* The batch is not complete: return and leave the engine running.
RecvReturn ==
    /\ pc = "check"
    /\ ~BatchComplete
    /\ pc' = "idle"
    /\ returned' = returned + nb_cmpt
    /\ UNCHANGED <<nb_pkts, tran_time, old, id, nb_cmpt>>
    /\ UNCHANGED <<engine, dma, wb, swb, mb, delivered>>

-----------------------------------------------------------------------------
\* The FPGA's DMA engine (external).  It stores the next packet of the stream
\* in the buffer of the current descriptor and then the stream writeback ...
HwStore ==
    /\ hw = "fetch"
    /\ cur \in Idx
    /\ ring[cur].buf \in Idx
    /\ rcvd < MaxPkts
    /\ rcvd' = rcvd + 1
    /\ mb' = [mb EXCEPT ![ring[cur].buf].pkt = rcvd + 1]
    /\ swb' = rcvd + 1
    /\ hw' = "report"
    /\ UNCHANGED <<cur, done, wb, delivered, returned>>
    /\ UNCHANGED <<engine, call>>

\* ... and only then counts the descriptor, writes the count back where the
\* descriptor asks for it, and stops or follows the next pointer.
HwReport ==
    /\ hw = "report"
    /\ cur \in Idx
    /\ done' = done + 1
    /\ wb' = IF "COMPLETED" \in ring[cur].flags THEN done + 1 ELSE wb
    /\ IF "STOPPED" \in ring[cur].flags
       THEN hw' = "halt" /\ UNCHANGED cur
       ELSE hw' = "fetch" /\ cur' = NextDesc(cur)
    /\ UNCHANGED <<rcvd, swb, mb, delivered, returned>>
    /\ UNCHANGED <<engine, call>>

-----------------------------------------------------------------------------
Driver == \/ RecvStart \/ RecvResume \/ PollRead \/ PollHit \/ PollMiss
          \/ PreparePacket \/ PrepareDone \/ RecvStop \/ RecvReturn

Hardware == HwStore \/ HwReport

Next == Driver \/ Hardware

Spec == Init /\ [][Next]_vars

\* The application polls for ever (while (1) around rte_eth_rx_burst) and the
\* hardware reports what it has stored; packets need never come.
FairSpec == Spec /\ WF_vars(Driver) /\ WF_vars(HwReport)

-----------------------------------------------------------------------------
\* rx_pkts[0 .. Handed-1] have been handed to the caller in this run.
Handed == IF pc = "prep" THEN id ELSE desc_used

(***************************************************************************)
(* The packets the FPGA stores reach the caller in order, each exactly     *)
(* once, whatever the timing of the hardware's writebacks against the      *)
(* double load of the polling loop: xdma_recv_pkts implements a FIFO of    *)
(* DescMax packets.                                                        *)
(***************************************************************************)
Fifo == INSTANCE PacketFifo
            WITH Capacity <- DescMax, taken <- rcvd, out <- delivered
FifoRefinement == Fifo!FifoSpec

(***************************************************************************)
(* xdma_rx_engine_stop clears the ring and resets the count without any    *)
(* handshake with the hardware, and RecvStart rewrites the ring: neither   *)
(* happens while the hardware still works on a descriptor, so no packet is *)
(* cut off, lost in a cleared descriptor or reported after the reset.      *)
(***************************************************************************)
RingQuiet ==
    [][(hw \in {"fetch", "report"}) => UNCHANGED <<ring, running>>]_vars

(***************************************************************************)
(* The hardware never follows the chain to a descriptor without a buffer   *)
(* or off its end: STOPPED in the last descriptor, set once by             *)
(* xdma_desc_ring_init, survives every xdma_desc_ring_clear of a C2H ring. *)
(***************************************************************************)
NoBlankFetch == hw \in {"fetch", "report"} => cur \in Idx /\ ring[cur].buf = cur

(***************************************************************************)
(* The counts xdma_recv_pkts returns (16-bit, computed from a 32-bit word  *)
(* and an int) add up to the number of packets it has prepared, so a       *)
(* caller that advances its index by them stays in step.                   *)
(***************************************************************************)
CountsAddUp == pc = "idle" => returned = Len(delivered)

(***************************************************************************)
(* A buffer handed to the caller is not written again by the hardware in   *)
(* the same run of the engine: the caller may read or send it while later  *)
(* packets of the batch are still coming in.                               *)
(***************************************************************************)
HandedStable ==
    [][\A i \in Idx : i < Handed => mb'[i].pkt = mb[i].pkt]_vars

(***************************************************************************)
(* Although all descriptors share one stream writeback, the data_len that  *)
(* prepare_segmented_packet puts into an mbuf is never left over from a    *)
(* packet before the one in that mbuf.                                     *)
(***************************************************************************)
LengthNotStale == \A i \in Idx : i < Handed => mb[i].len >= mb[i].pkt

(***************************************************************************)
(* Every packet stored in host memory is eventually handed to the caller,  *)
(* though polling gives up and though a count that changes between the two *)
(* loads is thrown away.                                                   *)
(***************************************************************************)
Delivery == \A n \in 1 .. MaxPkts : (rcvd >= n) ~> (Len(delivered) >= n)

(***************************************************************************)
(* When the hardware has filled the ring and halted, the engine is         *)
(* eventually started again with a ring full of buffers.                   *)
(***************************************************************************)
Rearm == (hw = "halt") ~> (hw = "fetch" /\ done = 0)
=============================================================================
