------------------------------- MODULE XdmaTx -------------------------------
(***************************************************************************)
(* One H2C engine: xdma_xmit_pkts and what it calls (xdma_rxtx.c,          *)
(* xdma_access_common.c), against the FPGA's DMA engine, which reads the   *)
(* buffers named by the descriptors and sends their contents on.           *)
(*                                                                         *)
(* A burst is a sequence of mbufs, each given by its number of segments;   *)
(* the segments of a burst lie in consecutive buffers.  The application    *)
(* fills the buffers with numbered data before it calls and owns them      *)
(* again when the call returns.                                            *)
(***************************************************************************)
EXTENDS XdmaRing, Sequences

CONSTANTS
    Bursts,     \* bursts the application may ask for: sequences of nb_segs
    BufNum,     \* buffers the application has
    Build,      \* "debug" or "release"
    MaxCalls    \* bound: calls of xdma_xmit_pkts

ASSUME TxAssumption ==
    /\ Bursts \subseteq Seq(Nat \ {0})
    /\ BufNum \in Nat \ {0}
    /\ Build \in {"debug", "release"}
    /\ MaxCalls \in Nat

Bufs == 0 .. BufNum - 1

VARIABLES
    running,     \* engine->running
    desc_used,   \* engine->desc_used
    ring,        \* engine->desc_ring
    wb,          \* wb_status->completed_desc_count
    pc,          \* where xdma_xmit_pkts is
    burst,       \* tx_pkts; nb_pkts is its length
    count,       \* packets posted
    avail,       \* descriptors left
    seg,         \* buffer of the next segment
    mem,         \* contents of the buffers
    hw,          \* state of the DMA engine in the FPGA
    cur,         \* descriptor it works on
    done,        \* descriptors it has completed since it was started
    first_adj,   \* H2C_SGDMA_DESC_ADJ register
    wire,        \* data sent, in order
    frames,      \* packets sent: descriptors with EOP
    posted,      \* segments posted by all calls
    returned,    \* sum of the counts returned
    calls        \* calls made

engine == <<running, desc_used, ring>>
call   == <<pc, burst, count, avail, seg>>
dma    == <<hw, cur, done, first_adj>>
sent   == <<wire, frames>>
vars   == <<engine, call, dma, sent, wb, mem, posted, returned, calls>>

nb_pkts == Len(burst)

TypeOK ==
    /\ running \in BOOLEAN
    /\ desc_used \in Idx
    /\ ring \in [Idx -> Desc]
    /\ wb \in Nat
    /\ pc \in {"idle", "post", "wait"}
    /\ burst \in Bursts \cup {<<>>}
    /\ count \in 0 .. nb_pkts
    /\ avail \in 0 .. DescMax
    /\ seg \in Nat
    /\ mem \in [Bufs -> Nat]
    /\ hw \in {"off", "fetch", "report", "halt"}
    /\ cur \in 0 .. DescMax
    /\ done \in 0 .. DescMax
    /\ first_adj \in 0 .. AdjValues - 1
    /\ wire \in Seq(Nat)
    /\ frames \in Nat
    /\ posted \in Nat
    /\ returned \in Nat
    /\ calls \in 0 .. MaxCalls

-----------------------------------------------------------------------------
\* xdma_tx_engine_setup: a zeroed engine, an initialised ring.
Init ==
    /\ running = FALSE
    /\ desc_used = 0
    /\ ring = xdma_desc_ring_init
    /\ wb = 0
    /\ pc = "idle"
    /\ burst = <<>>
    /\ count = 0
    /\ avail = 0
    /\ seg = 0
    /\ mem = [b \in Bufs |-> 0]
    /\ hw = "off"
    /\ cur = 0
    /\ done = 0
    /\ first_adj = 0
    /\ wire = <<>>
    /\ frames = 0
    /\ posted = 0
    /\ returned = 0
    /\ calls = 0

-----------------------------------------------------------------------------
\* Entry of xdma_xmit_pkts with the burst b, whose first segment is in buffer
\* first.  An engine that is running makes it return -1 at once; with one
\* thread per queue that never happens, as every call ends with a stop.
XmitEnter(b, first) ==
    /\ pc = "idle"
    /\ ~running
    /\ running' = TRUE
    /\ pc' = "post"
    /\ burst' = b
    /\ count' = 0
    /\ avail' = DescMax
    /\ seg' = first
    /\ UNCHANGED <<desc_used, ring, dma, sent, wb, posted, returned>>

\* The application fills its buffers, which it may since its last call has
\* returned, and calls.
XmitCall(b) ==
    /\ calls < MaxCalls
    /\ calls' = calls + 1
    /\ mem' = [x \in Bufs |-> posted + x + 1]
    /\ XmitEnter(b, 0)

\* Wrong variant: the last segment is not marked.
NoCompletionFlag(nsegs) ==
    [i \in Idx |->
        LET k == (i - desc_used) % DescMax
        IN  IF k < nsegs THEN [ring[i] EXCEPT !.buf = seg + k] ELSE ring[i]]

\* xdma_h2c_desc_set: one descriptor per segment; the last one is EOP and
\* asks for a writeback.
xdma_h2c_desc_set(nsegs) ==
    [i \in Idx |->
        LET k == (i - desc_used) % DescMax
            desc == [ring[i] EXCEPT !.buf = seg + k]
        IN  IF k < nsegs
            THEN IF k = nsegs - 1
                 THEN xdma_desc_control_set(desc, {"EOP", "COMPLETED"})
                 ELSE desc
            ELSE ring[i]]

\* The loop over tx_pkts stops at the first packet that does not fit.
Fits == count < nb_pkts /\ burst[count + 1] <= avail

PostPacket ==
    /\ pc = "post"
    /\ Fits
    /\ LET nsegs == burst[count + 1]
       IN  /\ ring' = xdma_h2c_desc_set(nsegs)
           /\ desc_used' = get_desc(desc_used, nsegs)
           /\ avail' = avail - nsegs
           /\ seg' = seg + nsegs
           /\ posted' = posted + nsegs
    /\ count' = count + 1
    /\ UNCHANGED <<running, pc, burst, dma, sent, wb, mem, returned, calls>>

\* Wrong variant: the terminator is left out.
NoTerminator == ring

\* The descriptor after the last one posted becomes the terminator ...
Terminated ==
    [ring EXCEPT ![desc_used] =
        xdma_desc_control_set(@, {"COMPLETED", "STOPPED"})]

\* Wrong variant: the terminator is counted as one of the burst.
AdjacentTooFar(r) ==
    [i \in Idx |-> IF i < count - 1
                   THEN xdma_desc_adjacent_set(r[i], count - 1 - i)
                   ELSE r[i]]

\* ... and descriptor i tells how many follow its successor.
Adjacent(r) ==
    [i \in Idx |-> IF i < count - 1
                   THEN xdma_desc_adjacent_set(r[i], count - 2 - i)
                   ELSE r[i]]

\* Wrong variant: a negative adjacency reaches the register.
StartUnclamped(desc_adj) ==
    /\ running' = TRUE
    /\ hw' = "fetch"
    /\ cur' = 0
    /\ done' = 0
    /\ first_adj' = desc_adj

\* RUN goes from 0 to 1: the hardware starts over at the first descriptor
\* with its count of completed descriptors at 0.
xdma_tx_engine_start(desc_adj) ==
    /\ running' = TRUE
    /\ hw' = "fetch"
    /\ cur' = 0
    /\ done' = 0
    /\ first_adj' = IF desc_adj > 0 THEN desc_adj ELSE 0

XmitStart ==
    /\ pc = "post"
    /\ ~Fits
    /\ ring' = Adjacent(Terminated)
    /\ xdma_tx_engine_start(count - 2)
    /\ pc' = "wait"
    /\ UNCHANGED <<burst, count, avail, seg, desc_used>>
    /\ UNCHANGED <<sent, wb, mem, posted, returned, calls>>

\* Wrong variant: any writeback ends the wait.
AnyWriteback == wb > 0

\* The wait ends when the (24-bit) count equals nb_pkts.  The counter is plain
\* memory and nothing in the loop changes it, so a compiler is free to drop
\* the loop: gcc -O2 and -O3 (meson's release build type) do.
Completed == Build = "release" \/ wb % (2 ^ 24) = nb_pkts

\* Wrong variant: the engine is still marked running.
StopLeavesRunning ==
    /\ hw' = "off"
    /\ ring' = xdma_desc_ring_clear(ring, "H2C")
    /\ desc_used' = 0
    /\ wb' = 0
    /\ UNCHANGED <<running, cur, done, first_adj>>

\* RUN goes to 0, which ends all fetching, then ring and count are reset.
xdma_tx_engine_stop ==
    /\ hw' = "off"
    /\ ring' = xdma_desc_ring_clear(ring, "H2C")
    /\ running' = FALSE
    /\ desc_used' = 0
    /\ wb' = 0
    /\ UNCHANGED <<cur, done, first_adj>>

XmitReturn ==
    /\ pc = "wait"
    /\ Completed
    /\ xdma_tx_engine_stop
    /\ pc' = "idle"
    /\ returned' = returned + nb_pkts
    /\ UNCHANGED <<burst, count, avail, seg, sent, mem, posted, calls>>

-----------------------------------------------------------------------------
\* The FPGA's DMA engine (external).  It sends the current descriptor's
\* buffer as it is in memory now ...
HwSend ==
    /\ hw = "fetch"
    /\ cur \in Idx
    /\ ring[cur].buf \in Bufs
    /\ wire' = Append(wire, mem[ring[cur].buf])
    /\ frames' = IF "EOP" \in ring[cur].flags THEN frames + 1 ELSE frames
    /\ hw' = "report"
    /\ UNCHANGED <<cur, done, first_adj, wb, mem, posted, returned, calls>>
    /\ UNCHANGED <<engine, call>>

\* ... counts it, writes the count back where the descriptor asks for it, and
\* stops or follows the next pointer.
HwReport ==
    /\ hw = "report"
    /\ cur \in Idx
    /\ done' = done + 1
    /\ wb' = IF "COMPLETED" \in ring[cur].flags THEN done + 1 ELSE wb
    /\ IF "STOPPED" \in ring[cur].flags
       THEN hw' = "halt" /\ UNCHANGED cur
       ELSE hw' = "fetch" /\ cur' = NextDesc(cur)
    /\ UNCHANGED <<first_adj, sent, mem, posted, returned, calls>>
    /\ UNCHANGED <<engine, call>>

\* A descriptor of length 0 moves nothing and is not counted: the driver waits
\* for a count equal to nb_pkts with such a descriptor behind the burst.
HwBlank ==
    /\ hw = "fetch"
    /\ cur \in Idx
    /\ ring[cur].buf = NoBuf
    /\ IF "STOPPED" \in ring[cur].flags
       THEN hw' = "halt" /\ UNCHANGED cur
       ELSE cur' = NextDesc(cur) /\ UNCHANGED hw
    /\ UNCHANGED <<done, first_adj, sent, wb, mem, posted, returned, calls>>
    /\ UNCHANGED <<engine, call>>

-----------------------------------------------------------------------------
Hardware == HwSend \/ HwReport \/ HwBlank

Xmit == PostPacket \/ XmitStart \/ XmitReturn

Next == (\E b \in Bursts : XmitCall(b)) \/ Xmit \/ Hardware

Spec == Init /\ [][Next]_vars

\* The caller's thread and the hardware both go on; a call need never come.
FairSpec == Spec /\ WF_vars(Xmit) /\ WF_vars(Hardware)

-----------------------------------------------------------------------------
(***************************************************************************)
(* What xdma_xmit_pkts reports as sent has been sent when it returns: all  *)
(* segments, in order, with the data they had when it was called.  The     *)
(* application refills its buffers right after, so a transfer still under  *)
(* way would send wrong data.                                              *)
(***************************************************************************)
ReturnMeansSent ==
    pc = "idle" => /\ wire = [i \in 1 .. posted |-> i]
                   /\ frames = returned

(***************************************************************************)
(* Segments leave in the order in which they were posted, each once, and   *)
(* at most DescMax are under way, also across the reuse of the ring and of *)
(* the buffers by the next call.                                           *)
(***************************************************************************)
Fifo == INSTANCE PacketFifo
            WITH Capacity <- DescMax, taken <- posted, out <- wire
FifoRefinement == Fifo!FifoSpec

(***************************************************************************)
(* The hardware never runs past the terminator behind the burst.           *)
(***************************************************************************)
StopsAtTerminator == hw \in {"fetch", "report"} => cur <= desc_used

(***************************************************************************)
(* The descriptors the hardware may prefetch by first_adj and by the       *)
(* Nxt_adj fields are descriptors of this burst, never the terminator or   *)
(* one that is left from an earlier burst.                                 *)
(***************************************************************************)
PrefetchInBurst ==
    hw # "off" =>
        /\ first_adj > 0 => first_adj < desc_used
        /\ \A i \in Idx : ring[i].adj > 0 => i + 1 + ring[i].adj < desc_used

\* Only the terminator is left to fetch, and it is and stays empty.
OnlyTerminatorLeft ==
    /\ hw = "fetch" /\ cur = desc_used
    /\ ring[cur].buf = NoBuf /\ ring'[cur].buf = NoBuf

(***************************************************************************)
(* xdma_tx_engine_stop clears the ring without waiting for the hardware.   *)
(* It may still have to fetch one descriptor then, the terminator, and     *)
(* that one is empty before the clear as it is after it: whichever of the  *)
(* two the fetch finds, no data moves and nothing is counted.              *)
(***************************************************************************)
RingQuiet ==
    [][(hw \in {"fetch", "report"} /\ ring' # ring) => OnlyTerminatorLeft]_vars

(***************************************************************************)
(* A call returns: the count reaches nb_pkts and stays there until it is   *)
(* seen by the loop that waits for it without a limit.                     *)
(***************************************************************************)
XmitReturns == (pc = "post") ~> (pc = "idle")
=============================================================================
