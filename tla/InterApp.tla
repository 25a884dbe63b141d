------------------------------ MODULE InterApp ------------------------------
(***************************************************************************)
(* testapp_inter.c at work: two fpga_to_fpga threads between an XDMA port  *)
(* and a NIC, and switch_start, which measures the latency of packets that *)
(* go out through thread 1, are answered by the board at the other end of  *)
(* the Ethernet link and come back through thread 0.                       *)
(*                                                                         *)
(* A thread is named by its source port: 0 is the NIC, 1 the XDMA device.  *)
(* The driver's two directions appear here as what XdmaRx and XdmaTx       *)
(* promise: received packets lie in the caller's array at the driver's     *)
(* private desc_used, and a transmit call returns when all is sent, or, in *)
(* a release build, at once (run tx_release_build), with what is left      *)
(* never sent.                                                             *)
(***************************************************************************)
EXTENDS LatencyChannel, Sequences

CONSTANTS AppBuild,     \* build of the program, "debug" or "release"
          ArraySize,    \* SIZE_OF_PKTS_BUFFER (32), also the ring size
          MaxLost       \* bound: answers the network loses

\* All packets and frames together are fewer than the array's slots: no batch
\* of the receive ring is ever completed and no burst is as long as the
\* transmit ring.
ASSUME InterAssumption ==
    /\ AppBuild \in {"debug", "release"}
    /\ Workers = {0, 1}
    /\ ArraySize \in Nat
    /\ MaxLost \in Nat
    /\ PktNum + MaxStray < ArraySize

FromNic == 0
FromFpga == 1
Slots == 0 .. ArraySize - 1

VARIABLES
    fpc,         \* fpc[w]: where thread w is, once past the barrier
    ret,         \* ret[w]: packets of its current burst
    xmit_pkts,   \* xmit_pkts[w]: packets sent
    landed,      \* packets the C2H engine has stored, in slots 0, 1, ...
    desc_used,   \* of these, handed to thread 1
    pkts,        \* pkts[i]: frame in slot i of thread 0's array
    sending,     \* frames of thread 0's burst the H2C engine has sent
    fpga_in,     \* frames sent to the FPGA, in order
    nic_out,     \* packets sent on the link, in order
    answered,    \* of these, answered or lost
    nic_in,      \* frames the NIC has received, numbered 1, 2, ...
    nic_taken,   \* of these, handed to thread 0
    own,         \* of these, the answers to packets of this run
    foreign,     \* frames of others among them
    lost         \* answers lost

threads == <<fpc, ret, xmit_pkts>>
xdma == <<landed, desc_used, fpga_in, sending>>
nic == <<nic_out, nic_in, nic_taken, pkts>>
network == <<answered, own, foreign, lost>>
interVars == <<threads, xdma, nic, network>>
appVars == <<vars, channelVars, interVars>>

AppTypeOK ==
    /\ ChannelTypeOK
    /\ fpc \in [Workers -> {"sleep", "recv", "send", "test", "end"}]
    /\ ret \in [Workers -> Slots]
    /\ xmit_pkts \in [Workers -> Nat]
    /\ landed \in 0 .. early + PktNum
    /\ desc_used \in 0 .. landed
    /\ pkts \in [Slots -> 0 .. nic_in]
    /\ sending \in Slots
    /\ fpga_in \in Seq(1 .. nic_in)
    /\ nic_out \in Seq(1 .. landed)
    /\ answered \in 0 .. Len(nic_out)
    /\ nic_in \in 0 .. PktNum + MaxStray
    /\ nic_taken \in 0 .. nic_in
    /\ own \subseteq 1 .. nic_in
    /\ foreign \in 0 .. MaxStray
    /\ lost \in 0 .. MaxLost

AppInit ==
    /\ Init /\ ChannelInit
    /\ fpc = [w \in Workers |-> "sleep"]
    /\ ret = [w \in Workers |-> 0]
    /\ xmit_pkts = [w \in Workers |-> 0]
    /\ landed = 0 /\ desc_used = 0
    /\ pkts = [i \in Slots |-> 0]
    /\ sending = 0 /\ fpga_in = <<>>
    /\ nic_out = <<>> /\ nic_in = 0 /\ nic_taken = 0
    /\ answered = 0 /\ own = {} /\ foreign = 0 /\ lost = 0

-----------------------------------------------------------------------------
(* fpga_to_fpga                                                             *)

Goto(w, to) == fpc' = [fpc EXCEPT ![w] = to]

\* sleep(1) after the barrier is over.
Awake(w) ==
    /\ pc[w] = "forward" /\ fpc[w] = "sleep"
    /\ Goto(w, "recv")
    /\ UNCHANGED <<ret, xmit_pkts, xdma, nic>>

\* What rte_eth_rx_burst has returned; nothing is sent if it is 0.
Received(w, n) ==
    /\ fpc[w] = "recv"
    /\ ret' = [ret EXCEPT ![w] = n]
    /\ Goto(w, IF n > 0 THEN "send" ELSE "test")
    /\ UNCHANGED xmit_pkts

\* n packets from the XDMA driver, in the slots from desc_used on.
RecvFromFpga(n) ==
    /\ Received(FromFpga, n)
    /\ desc_used + n <= landed
    /\ desc_used' = desc_used + n
    /\ UNCHANGED <<landed, fpga_in, sending, nic>>

\* n frames from the NIC's driver, in the slots from 0 on.
RecvFromNic(n) ==
    /\ Received(FromNic, n)
    /\ nic_taken + n <= nic_in
    /\ n <= ArraySize
    /\ nic_taken' = nic_taken + n
    /\ pkts' = [i \in Slots |-> IF i < n THEN nic_taken + i + 1 ELSE pkts[i]]
    /\ UNCHANGED <<xdma, nic_out, nic_in>>

Recv(n) == RecvFromFpga(n) \/ RecvFromNic(n)

\* Wrong variant: the index that the line commented out would keep.
SendFromIndex(w) == xmit_pkts[w] % ArraySize

\* pkts_buffer_idx, which stays 0.
SendFrom(w) == 0

\* The packet in slot i of thread 1's array.
C2hSlot(i) == IF i < landed THEN i + 1 ELSE 0

\* Wrong variant: bursts are counted instead of packets.
CountBursts(w) == xmit_pkts[w] + 1

\* xmit_pkts += ret
Counted(w) == xmit_pkts[w] + ret[w]

Sent(w) ==
    /\ xmit_pkts' = [xmit_pkts EXCEPT ![w] = Counted(w)]
    /\ Goto(w, "test")
    /\ UNCHANGED ret

\* rte_eth_tx_burst on the NIC, whose ring takes all of the burst.
SendToNic ==
    /\ fpc[FromFpga] = "send"
    /\ nic_out' = nic_out \o
          [i \in 1 .. ret[FromFpga] |-> C2hSlot(SendFrom(FromFpga) + i - 1)]
    /\ Sent(FromFpga)
    /\ UNCHANGED <<xdma, nic_in, nic_taken, pkts>>

\* rte_eth_tx_burst on the XDMA port: the H2C engine sends one frame, which
\* the channel counts, ...
SendToFpga ==
    /\ fpc[FromNic] = "send"
    /\ sending < ret[FromNic]
    /\ sending' = sending + 1
    /\ fpga_in' = Append(fpga_in, pkts[SendFrom(FromNic) + sending])
    /\ UNCHANGED <<threads, landed, desc_used, nic>>

\* Wrong variant: the wait is missing in every build.
NoWait == FALSE

\* xdma_xmit_pkts waits for the engine in a debug build only.
Waits == AppBuild = "debug"

\* ... and the call returns when all are sent, if it waits.
SendToFpgaReturn ==
    /\ fpc[FromNic] = "send"
    /\ Waits => sending = ret[FromNic]
    /\ sending' = 0
    /\ Sent(FromNic)
    /\ UNCHANGED <<landed, desc_used, fpga_in, nic>>

\* Wrong variant: the thread ends only after too many packets.
TooMany(w) == xmit_pkts[w] > PktNum

AllSent(w) == xmit_pkts[w] = PktNum

\* The thread ends when it has sent exactly pkt_num packets; if it has sent
\* more it says so and goes on.
TestEnd(w) ==
    /\ fpc[w] = "test"
    /\ Goto(w, IF AllSent(w) THEN "end" ELSE "recv")
    /\ UNCHANGED <<ret, xmit_pkts, xdma, nic>>

fpga_to_fpga ==
    /\ \/ \E w \in Workers : Awake(w) \/ TestEnd(w)
       \/ \E n \in 0 .. ArraySize : Recv(n)
       \/ SendToNic \/ SendToFpgaReturn
    /\ UNCHANGED <<vars, channelVars, network>>

-----------------------------------------------------------------------------
(* The hardware and the network (external).                                 *)

\* The C2H engine, started by the first receive call and never stopped,
\* stores the next packet, those of an earlier run first.
C2hStore ==
    /\ fpc[FromFpga] # "sleep"
    /\ landed < early + generated
    /\ landed' = landed + 1
    /\ UNCHANGED <<vars, channelVars, threads, desc_used, fpga_in, sending,
                   nic, network>>

\* The H2C engine sends the next frame of thread 0's burst and the channel
\* counts it.
H2cSend ==
    /\ SendToFpga
    /\ CountPacket(pkts[SendFrom(FromNic) + sending])
    /\ UNCHANGED <<vars, network>>

\* The other board answers a packet, and the answer arrives or is lost.
Answer ==
    /\ answered < Len(nic_out)
    /\ answered' = answered + 1
    /\ \/ /\ nic_in' = nic_in + 1
          /\ own' = IF nic_out[answered + 1] > early
                    THEN own \cup {nic_in + 1} ELSE own
          /\ UNCHANGED lost
       \/ lost < MaxLost /\ lost' = lost + 1 /\ UNCHANGED <<nic_in, own>>
    /\ UNCHANGED <<vars, channelVars, threads, xdma, nic_out, nic_taken, pkts,
                   foreign>>

\* The NIC is in promiscuous mode and takes any frame, late answers to packets
\* that an earlier run has sent among them.
ForeignFrame ==
    /\ early + foreign < MaxStray
    /\ foreign' = foreign + 1
    /\ nic_in' = nic_in + 1
    /\ UNCHANGED <<vars, channelVars, threads, xdma, nic_out, nic_taken, pkts,
                   answered, own, lost>>

-----------------------------------------------------------------------------
Barrier(A) == A /\ UNCHANGED <<channelVars, interVars>>

AppNext ==
    \/ Barrier(Next)
    \/ switch_start /\ UNCHANGED interVars
    \/ fpga_to_fpga
    \/ Generate /\ UNCHANGED interVars
    \/ GenerateEarly /\ early + foreign < MaxStray /\ UNCHANGED interVars
    \/ C2hStore \/ H2cSend \/ Answer \/ ForeignFrame

AppSpec == AppInit /\ [][AppNext]_appVars

Thread(w) ==
    /\ \/ Awake(w) \/ TestEnd(w)
       \/ w = FromFpga /\ ((\E n \in 0 .. ArraySize : RecvFromFpga(n)) \/ SendToNic)
       \/ w = FromNic /\ ((\E n \in 0 .. ArraySize : RecvFromNic(n))
                          \/ SendToFpgaReturn)
    /\ UNCHANGED <<vars, channelVars, network>>

\* The threads run on cores of their own, with the fairness of the barrier;
\* a call that finds packets returns some of them in the end (Delivery of
\* XdmaRx); the hardware goes on; a frame that is sent is answered or lost.
AppFairSpec ==
    /\ AppSpec
    /\ \A w \in Workers : /\ WF_appVars(Barrier(Worker(w)))
                          /\ SF_appVars(Barrier(Lock(w)))
                          /\ WF_appVars(Thread(w))
    /\ WF_appVars(Barrier(Switch)) /\ SF_appVars(Barrier(SwitchRelock))
    /\ WF_appVars(switch_start /\ UNCHANGED interVars)
    /\ SF_appVars(/\ \E n \in 1 .. ArraySize : RecvFromFpga(n)
                  /\ UNCHANGED <<vars, channelVars, network>>)
    /\ SF_appVars(/\ \E n \in 1 .. ArraySize : RecvFromNic(n)
                  /\ UNCHANGED <<vars, channelVars, network>>)
    /\ WF_appVars(Generate /\ UNCHANGED interVars)
    /\ WF_appVars(C2hStore) /\ WF_appVars(H2cSend) /\ WF_appVars(Answer)

-----------------------------------------------------------------------------
(***************************************************************************)
(* From the NIC to the FPGA frames are forwarded in order, each once, by a *)
(* debug build.  Here the index that never moves is right, since the NIC's *)
(* driver fills the array from its start on every call, unlike the XDMA    *)
(* driver.                                                                 *)
(***************************************************************************)
FromNicFifo == INSTANCE PacketFifo
                   WITH Capacity <- ArraySize, taken <- nic_in, out <- fpga_in
NicToFpgaIsFifo == FromNicFifo!FifoSpec

(***************************************************************************)
(* The results that switch_start prints are complete and of this run: if   *)
(* the channel has counted nothing but answers to packets of this run      *)
(* since its counters were cleared, the count and the 64-bit accumulator,  *)
(* read as two registers after it, cover pkt_num frames and nothing that   *)
(* an earlier run, ended or killed anywhere, has left in the registers.    *)
(* (Packets of an earlier run that are under way when the counters are     *)
(* cleared are counted, as are frames of others.)                          *)
(***************************************************************************)
ResultsOfThisRun ==
    swpc = "report" /\ counted \subseteq own =>
        /\ recv_count = PktNum /\ result = PktNum
        /\ Cardinality(counted) = PktNum

\* More has been sent than pkt_num, in a burst with frames of others or
\* packets of an earlier run.
Overshot(w) == xmit_pkts[w] > PktNum /\ (foreign > 0 \/ early > 0)

(***************************************************************************)
(* Once the channel is started both threads end, unless the exact          *)
(* comparison with pkt_num is stepped over, after which a thread goes      *)
(* round for ever: only frames that are not of this run make that happen.  *)
(* Thread 0 does not end either when too few frames come in.               *)
(***************************************************************************)
ThreadsEnd ==
    (spc = "run") ~>
        /\ fpc[FromFpga] = "end" \/ Overshot(FromFpga)
        /\ fpc[FromNic] = "end" \/ Overshot(FromNic) \/ lost > foreign

(***************************************************************************)
(* testapp_inter.c:625: when a thread prints "All packets is completed",   *)
(* the packets that have come from the FPGA have been sent, each once.     *)
(***************************************************************************)
AllForwarded ==
    fpc[FromFpga] = "end" => nic_out = [i \in 1 .. PktNum |-> i]
=============================================================================
