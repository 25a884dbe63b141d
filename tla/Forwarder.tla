----------------------------- MODULE Forwarder ------------------------------
(***************************************************************************)
(* fpga_to_fpga of testapp_count.c: one thread that receives from a C2H    *)
(* engine into the array pkts and transmits the same mbufs through the H2C *)
(* engine of another port, both engines running beside it.                 *)
(*                                                                         *)
(* The receive side is XdmaRx, extended; the transmit side an instance of  *)
(* XdmaTx whose buffers are the mbufs the receive side writes.  The driver *)
(* returns a count only: the thread keeps its own index of where in pkts   *)
(* the next packets are and must stay in step with engine->desc_used,      *)
(* which it cannot see.                                                    *)
(***************************************************************************)
EXTENDS XdmaRx

CONSTANT TxBuild   \* build of the transmit side, "debug" or "release"

VARIABLES
    fpc,               \* where fpga_to_fpga is
    ret,               \* result of the last burst call
    pkts_buffer_idx,   \* first mbuf of the next burst to send
    t_running, t_desc_used, t_ring, t_wb, t_pc, t_burst, t_count, t_avail,
    t_seg, t_hw, t_cur, t_done, t_first_adj, wire, frames, t_posted,
    t_returned         \* state of the transmit side, see XdmaTx

txVars == <<t_running, t_desc_used, t_ring, t_wb, t_pc, t_burst, t_count,
            t_avail, t_seg, t_hw, t_cur, t_done, t_first_adj, wire, frames,
            t_posted, t_returned>>
fwdVars == <<vars, txVars, fpc, ret, pkts_buffer_idx>>

\* The data the transmit side reads is what the receive side stored.
MbufData == [i \in Idx |-> mb[i].pkt]

Tx == INSTANCE XdmaTx WITH
    Bursts <- {}, BufNum <- DescMax, Build <- TxBuild, MaxCalls <- 0,
    mem <- MbufData, calls <- 0,
    running <- t_running, desc_used <- t_desc_used, ring <- t_ring,
    wb <- t_wb, pc <- t_pc, burst <- t_burst, count <- t_count,
    avail <- t_avail, seg <- t_seg, hw <- t_hw, cur <- t_cur,
    done <- t_done, first_adj <- t_first_adj, posted <- t_posted,
    returned <- t_returned

FwdTypeOK ==
    /\ TypeOK
    /\ fpc \in {"call", "recv", "got", "send", "next", "end", "exit"}
    /\ ret \in Nat /\ ret < 65536
    /\ pkts_buffer_idx \in Idx

FwdInit ==
    /\ Init
    /\ fpc = "call"
    /\ ret = 0
    /\ pkts_buffer_idx = 0
    /\ t_running = FALSE
    /\ t_desc_used = 0
    /\ t_ring = xdma_desc_ring_init
    /\ t_wb = 0
    /\ t_pc = "idle"
    /\ t_burst = <<>>
    /\ t_count = 0
    /\ t_avail = 0
    /\ t_seg = 0
    /\ t_hw = "off"
    /\ t_cur = 0
    /\ t_done = 0
    /\ t_first_adj = 0
    /\ wire = <<>>
    /\ frames = 0
    /\ t_posted = 0
    /\ t_returned = 0

-----------------------------------------------------------------------------
\* rte_eth_rx_burst(..., pkts, SIZE_OF_PKTS_BUFFER)
FwdRecv ==
    /\ fpc = "call"
    /\ RecvStart \/ RecvResume
    /\ fpc' = "recv"
    /\ UNCHANGED <<ret, pkts_buffer_idx, txVars>>

\* The driver at work inside rte_eth_rx_burst.
FwdRecvStep ==
    /\ fpc = "recv"
    /\ PollRead \/ PollHit \/ PollMiss \/ PreparePacket \/ PrepareDone
    /\ UNCHANGED <<fpc, ret, pkts_buffer_idx, txVars>>

FwdRecvReturn ==
    /\ fpc = "recv"
    /\ RecvStop \/ RecvReturn
    /\ ret' = nb_cmpt
    /\ fpc' = "got"
    /\ UNCHANGED <<pkts_buffer_idx, txVars>>

\* "Test Bit Error!": the top bit of a byte data_off behind a received mbuf's
\* address is set (bit && ~bit holds if bit is 1).  That byte is in front of the
\* packet and nobody writes it: it can have any value.
FwdTestBit ==
    /\ fpc = "got"
    /\ ret > 0
    /\ fpc' = "exit"
    /\ UNCHANGED <<ret, pkts_buffer_idx, txVars, vars>>

\* Nothing received.
FwdNothing ==
    /\ fpc = "got"
    /\ ret = 0
    /\ fpc' = "next"
    /\ UNCHANGED <<ret, pkts_buffer_idx, txVars, vars>>

\* Wrong variant: every burst is sent from the start of pkts.
SendFromStart == 0

SendFrom == pkts_buffer_idx

\* rte_eth_tx_burst(..., &pkts[pkts_buffer_idx], ret)
FwdSend ==
    /\ fpc = "got"
    /\ ret > 0
    /\ UNCHANGED vars
    /\ Tx!XmitEnter([i \in 1 .. ret |-> 1], SendFrom)
    /\ fpc' = "send"
    /\ UNCHANGED <<ret, pkts_buffer_idx>>

\* The driver at work inside rte_eth_tx_burst.
FwdSendStep ==
    /\ fpc = "send"
    /\ UNCHANGED vars
    /\ Tx!PostPacket \/ Tx!XmitStart
    /\ UNCHANGED <<fpc, ret, pkts_buffer_idx>>

\* Wrong variants: the index does not wrap; it is not advanced, as in
\* testapp_inter.c, where this line is commented out.
NoWrap(n) == pkts_buffer_idx + n
IndexStuck(n) == pkts_buffer_idx

NextIndex(n) == (pkts_buffer_idx + n) % NbPkts

FwdSendReturn ==
    /\ fpc = "send"
    /\ UNCHANGED vars
    /\ Tx!XmitReturn
    /\ ret' = Len(t_burst)
    /\ pkts_buffer_idx' = NextIndex(Len(t_burst))
    /\ fpc' = "next"

\* The thread goes round again or ends, after one second.
FwdLoop ==
    /\ fpc = "next"
    /\ fpc' \in {"call", "end"}
    /\ UNCHANGED <<ret, pkts_buffer_idx, txVars, vars>>

FwdRxHardware ==
    /\ HwStore \/ HwReport
    /\ UNCHANGED <<fpc, ret, pkts_buffer_idx, txVars>>

FwdTxHardware ==
    /\ UNCHANGED vars
    /\ Tx!HwSend \/ Tx!HwReport \/ Tx!HwBlank
    /\ UNCHANGED <<fpc, ret, pkts_buffer_idx>>

-----------------------------------------------------------------------------
Thread == \/ FwdRecv \/ FwdRecvStep \/ FwdRecvReturn \/ FwdTestBit
          \/ FwdNothing \/ FwdSend \/ FwdSendStep \/ FwdSendReturn \/ FwdLoop

FwdNext == Thread \/ FwdRxHardware \/ FwdTxHardware

FwdSpec == FwdInit /\ [][FwdNext]_fwdVars

\* The thread runs on, and each engine finishes what it has begun.
FwdFairSpec ==
    /\ FwdSpec
    /\ WF_fwdVars(Thread)
    /\ WF_fwdVars(FwdTxHardware)
    /\ WF_fwdVars(HwReport /\ UNCHANGED <<fpc, ret, pkts_buffer_idx, txVars>>)

-----------------------------------------------------------------------------
(***************************************************************************)
(* The thread's index agrees with the driver's private desc_used whenever  *)
(* it calls, and the burst it is about to send lies inside pkts.           *)
(***************************************************************************)
IndexInStep ==
    /\ fpc = "call" => pkts_buffer_idx = desc_used
    /\ fpc \in {"got", "send"} => pkts_buffer_idx + ret <= NbPkts

(***************************************************************************)
(* End to end: what leaves through the second port is what came in through *)
(* the first, in order, without loss, duplication or a packet overwritten  *)
(* by a later one while it waits to be sent.                               *)
(***************************************************************************)
EndToEnd == INSTANCE PacketFifo
                WITH Capacity <- DescMax, taken <- rcvd, out <- wire
ForwardingIsFifo == EndToEnd!FifoSpec

(***************************************************************************)
(* The receive engine is started again only when every packet of the run   *)
(* before has been sent: the mbufs it overwrites are free.                 *)
(***************************************************************************)
RearmAfterSent == [][(~running /\ running') => Len(wire) = rcvd]_fwdVars

\* A burst as long as the ring: the one XdmaTx never completes.
FullBurst == fpc = "send" /\ Len(t_burst) = DescMax

(***************************************************************************)
(* Every packet received is sent in the end, unless the thread has ended,  *)
(* the test bit has ended the program or the thread is stuck in a burst as *)
(* long as the ring.                                                       *)
(***************************************************************************)
Forwarded ==
    \A n \in 1 .. MaxPkts :
        (rcvd >= n) ~>
            (Len(wire) >= n \/ fpc \in {"end", "exit"} \/ FullBurst)

(***************************************************************************)
(* testapp_count.c:99-102: up to NUM_TX_PKTS descriptors are pending with  *)
(* the application before they are sent, so a full batch is forwarded too. *)
(***************************************************************************)
SendsReturn == (fpc = "send") ~> (fpc # "send")
=============================================================================
