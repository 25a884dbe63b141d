--------------------------- MODULE InterAppProofs ---------------------------
(***************************************************************************)
(* Proofs about InterApp: for any number of packets, length of the arrays  *)
(* and width of a register, and whatever an earlier run has left, what     *)
(* switch_start prints is of this run and complete, and in a debug build   *)
(* frames from the NIC reach the FPGA in order.                            *)
(***************************************************************************)
EXTENDS InterApp, StartBarrierProofs, FiniteSetTheorems

\* This run has started the generator.
Measuring == {"poll", "count", "hi", "lo", "report", "failed"}

\* The counters have been cleared.
Cleared == Measuring \cup {"configure", "start"}

\* Packets that a thread has received and not sent yet.
Unsent(w) == IF fpc[w] = "send"
             THEN ret[w] - (IF w = FromNic THEN sending ELSE 0) ELSE 0

\* No packet of this run is generated before the channel is started and
\* configured; a generator at work before is that of an earlier run.
GeneratorInv ==
    /\ started => swpc \in Measuring \cup {"reset"}
    /\ generated > 0 => swpc \in Measuring
    /\ swpc \in Measuring \cup {"start"} => packetnum = PktNum

\* Packets on their way from the generator to the link.
OutboundInv ==
    /\ landed <= early + generated
    /\ fpc[FromFpga] = "send" => ret[FromFpga] <= desc_used
    /\ Len(nic_out) + Unsent(FromFpga) = desc_used

\* Some are sent twice, but none before its place.
OrderInv == \A k \in 1 .. Len(nic_out) : nic_out[k] <= k

\* Every frame the NIC has received is an answer or a frame of others.
NetworkInv ==
    /\ early + foreign <= MaxStray
    /\ lost <= answered
    /\ nic_in = answered - lost + foreign

\* Answers to packets of this run come after as many answers as there are
\* packets of an earlier one.
OwnInv ==
    /\ IsFiniteSet(own)
    /\ own # {} => Cardinality(own) + early <= answered

\* Frames on their way from the NIC to the FPGA, ...
InboundInv ==
    /\ fpc[FromNic] # "send" => sending = 0
    /\ fpc[FromNic] = "send" =>
          /\ sending <= ret[FromNic] /\ ret[FromNic] <= nic_taken
          /\ \A i \in Slots : i < ret[FromNic] =>
                pkts[i] = nic_taken - ret[FromNic] + i + 1

\* ... which a debug build sends to the last one ...
AllSentInv == AppBuild = "debug" => Len(fpga_in) + Unsent(FromNic) = nic_taken

\* ... and of which the channel counts each once.
FramesInv ==
    /\ IsFiniteSet(counted)
    /\ counted \subseteq 1 .. (nic_taken - Unsent(FromNic))

\* The channel's counters, once they are cleared.
CounterInv ==
    swpc \in Cleared =>
        /\ recvcount = Cardinality(counted)
        /\ accum = recvcount
        /\ counted \subseteq own /\ rx_done => recvcount = PktNum

\* What switch_start has read.
ReadInv ==
    counted \subseteq own =>
        /\ swpc \in {"count", "hi", "lo", "report"} => rx_done
        /\ swpc \in {"hi", "lo", "report"} => recv_count = PktNum
        /\ swpc = "lo" => ret_hi = PktNum \div Word
        /\ swpc = "report" => result = PktNum

AppInv == /\ AppTypeOK /\ GeneratorInv /\ OutboundInv /\ OrderInv
          /\ NetworkInv /\ OwnInv /\ InboundInv /\ AllSentInv /\ FramesInv
          /\ CounterInv /\ ReadInv

-----------------------------------------------------------------------------
(***************************************************************************)
(* The numbers behind the type invariant.                                  *)
(***************************************************************************)
LEMMA TypeFacts ==
    ASSUME AppTypeOK
    PROVE  /\ PktNum \in Nat /\ MaxStray \in Nat /\ MaxLost \in Nat
           /\ ArraySize \in Nat /\ PktNum + MaxStray < ArraySize
           /\ early \in Nat /\ early <= MaxStray
           /\ generated \in Nat /\ generated <= PktNum
           /\ landed \in Nat /\ landed <= early + PktNum
           /\ desc_used \in Nat /\ desc_used <= landed
           /\ Len(nic_out) \in Nat /\ Len(fpga_in) \in Nat
           /\ answered \in Nat /\ answered <= Len(nic_out)
           /\ nic_in \in Nat /\ nic_in <= PktNum + MaxStray
           /\ nic_taken \in Nat /\ nic_taken <= nic_in
           /\ foreign \in Nat /\ foreign <= MaxStray
           /\ lost \in Nat /\ lost <= MaxLost /\ sending \in Nat
           /\ FromNic \in Workers /\ FromFpga \in Workers
           /\ FromNic # FromFpga
           /\ ret[FromNic] \in Nat /\ ret[FromFpga] \in Nat
<1>1. /\ PktNum \in Nat /\ MaxStray \in Nat /\ MaxLost \in Nat
      /\ ArraySize \in Nat /\ PktNum + MaxStray < ArraySize
  BY ChannelAssumption, InterAssumption
<1>1a. early \in 0 .. MaxStray /\ generated \in 0 .. PktNum
  BY DEF AppTypeOK, ChannelTypeOK
<1>1b. /\ early \in Nat /\ early <= MaxStray
       /\ generated \in Nat /\ generated <= PktNum
  BY <1>1, <1>1a
<1>2. landed \in 0 .. early + PktNum /\ desc_used \in 0 .. landed
  BY DEF AppTypeOK
<1>3. nic_out \in Seq(1 .. landed) /\ fpga_in \in Seq(1 .. nic_in)
  BY DEF AppTypeOK
<1>4. Len(nic_out) \in Nat /\ Len(fpga_in) \in Nat
  BY <1>3
<1>5. answered \in 0 .. Len(nic_out)
  BY DEF AppTypeOK
<1>6. nic_in \in 0 .. PktNum + MaxStray /\ nic_taken \in 0 .. nic_in
  BY DEF AppTypeOK
<1>7. foreign \in 0 .. MaxStray /\ lost \in 0 .. MaxLost
  BY DEF AppTypeOK
<1>8. FromNic \in Workers /\ FromFpga \in Workers /\ FromNic # FromFpga
  BY InterAssumption DEF FromNic, FromFpga
<1>9. /\ sending \in 0 .. ArraySize - 1
      /\ ret \in [Workers -> 0 .. ArraySize - 1]
  BY DEF AppTypeOK, Slots
<1>10. ret[FromNic] \in Nat /\ ret[FromFpga] \in Nat /\ sending \in Nat
  BY <1>1, <1>8, <1>9
<1>. QED  BY <1>1, <1>1b, <1>2, <1>4, <1>5, <1>6, <1>7, <1>8, <1>10

(***************************************************************************)
(* What thread 0 has not sent yet is part of what it has taken.            *)
(***************************************************************************)
LEMMA UnsentFacts ==
    ASSUME AppTypeOK, InboundInv
    PROVE  /\ Unsent(FromNic) \in Nat /\ Unsent(FromFpga) \in Nat
           /\ Unsent(FromNic) <= nic_taken
           /\ nic_taken - Unsent(FromNic) \in Nat
<1>1. /\ ret[FromNic] \in Nat /\ ret[FromFpga] \in Nat /\ sending \in Nat
      /\ nic_taken \in Nat /\ FromNic # FromFpga
  BY TypeFacts
<1>2. Unsent(FromFpga) \in Nat
  BY <1>1 DEF Unsent
<1>3. Unsent(FromNic) \in Nat /\ Unsent(FromNic) <= nic_taken
  BY <1>1 DEF Unsent, InboundInv
<1>. QED  BY <1>1, <1>2, <1>3

(***************************************************************************)
(* A thread goes on, and the other stays where it is.                      *)
(***************************************************************************)
LEMMA GotoFacts ==
    ASSUME AppTypeOK, NEW w \in Workers,
           NEW to \in {"sleep", "recv", "send", "test", "end"}, Goto(w, to)
    PROVE  /\ fpc'[w] = to
           /\ \A v \in Workers : v # w => fpc'[v] = fpc[v]
           /\ fpc' \in [Workers -> {"sleep", "recv", "send", "test", "end"}]
BY DEF AppTypeOK, Goto

(***************************************************************************)
(* Nothing overtakes: every stage of the round trip has seen at most what  *)
(* the stage before it has passed on, frames of others apart.              *)
(***************************************************************************)
LEMMA Bounds ==
    ASSUME AppInv
    PROVE  /\ Len(nic_out) <= desc_used /\ desc_used <= landed
           /\ landed <= early + generated
           /\ nic_in + lost <= Len(nic_out) + foreign
           /\ AppBuild = "debug" => Len(fpga_in) <= nic_taken
           /\ AppBuild = "debug" /\ fpc[FromNic] = "send" =>
                 Len(fpga_in) + ret[FromNic] - sending = nic_taken
<1>. USE DEF AppInv
<1>1. /\ Len(fpga_in) \in Nat /\ Len(nic_out) \in Nat
      /\ desc_used \in Nat /\ desc_used <= landed
      /\ nic_in \in Nat /\ nic_taken \in Nat
      /\ answered \in Nat /\ answered <= Len(nic_out)
      /\ foreign \in Nat /\ lost \in Nat /\ sending \in Nat
      /\ ret[FromNic] \in Nat
  BY TypeFacts
<1>2. Unsent(FromNic) \in Nat /\ Unsent(FromFpga) \in Nat
  BY UnsentFacts
<1>3. AppBuild = "debug" => Len(fpga_in) <= nic_taken
  BY <1>1, <1>2 DEF AllSentInv
<1>4. AppBuild = "debug" /\ fpc[FromNic] = "send" =>
         Len(fpga_in) + ret[FromNic] - sending = nic_taken
  BY <1>1 DEF AllSentInv, Unsent
<1>5. Len(nic_out) <= desc_used
  BY <1>1, <1>2 DEF OutboundInv
<1>6. nic_in + lost <= Len(nic_out) + foreign
  BY <1>1 DEF NetworkInv
<1>. QED  BY <1>1, <1>3, <1>4, <1>5, <1>6 DEF OutboundInv

(***************************************************************************)
(* No more answers to packets of this run have come in than packets of it  *)
(* have been generated, though some are sent and answered twice.           *)
(***************************************************************************)
LEMMA OwnBound ==
    ASSUME AppInv
    PROVE  IsFiniteSet(own) /\ Cardinality(own) \in Nat
           /\ Cardinality(own) <= generated
<1>1. IsFiniteSet(own) /\ Cardinality(own) \in Nat
  BY FS_CardinalityType DEF AppInv, OwnInv
<1>2. CASE own = {}
  BY <1>1, <1>2, FS_EmptySet, TypeFacts DEF AppInv
<1>3. CASE own # {}
  <2>1. Cardinality(own) + early <= answered
    BY <1>3 DEF AppInv, OwnInv
  <2>2. answered <= early + generated
    BY Bounds, TypeFacts DEF AppInv
  <2>. QED  BY <1>1, <2>1, <2>2, TypeFacts DEF AppInv
<1>. QED  BY <1>2, <1>3

(***************************************************************************)
(* A value is put together again from the two halves read of it.           *)
(***************************************************************************)
LEMMA Halves ==
    ASSUME NEW n \in Nat, NEW w \in Nat, w >= 2
    PROVE  (n \div w) * w + (n % w) = n /\ n \div w \in Nat /\ n % w \in Nat
OBVIOUS

(***************************************************************************)
(* The invariant holds when the program starts, whatever an earlier run    *)
(* has left in the FPGA.                                                   *)
(***************************************************************************)
LEMMA InitAppInv ==
    ASSUME AppInit  PROVE AppInv
<1>. USE DEF AppInit, ChannelInit
<1>1. ChannelTypeOK
  <2>1. in_reset \in BOOLEAN /\ started \in BOOLEAN /\ rx_done \in BOOLEAN
    OBVIOUS
  <2>2. packetnum \in 0 .. PktNum
    BY ChannelAssumption
  <2>3. recvcount \in Nat
    BY <2>2, ChannelAssumption
  <2>4. /\ swpc = "reset" /\ polls = 0 /\ recv_count = 0 /\ ret_hi = 0
        /\ result = 0 /\ generated = 0 /\ early \in 0 .. MaxStray
        /\ accum = recvcount /\ counted = {}
    OBVIOUS
  <2>. HIDE DEF AppInit, ChannelInit
  <2>. QED  BY <2>1, <2>2, <2>3, <2>4, ChannelAssumption DEF ChannelTypeOK
<1>2. AppTypeOK
  <2>1. pkts \in [Slots -> 0 .. nic_in] /\ 0 \in Slots
    BY InterAssumption, ChannelAssumption DEF Slots
  <2>2. ret \in [Workers -> Slots] /\ xmit_pkts \in [Workers -> Nat]
    BY <2>1
  <2>3. fpc \in [Workers -> {"sleep", "recv", "send", "test", "end"}]
    OBVIOUS
  <2>4. landed \in 0 .. early + PktNum
    BY <1>1, ChannelAssumption DEF ChannelTypeOK
  <2>. QED  BY <1>1, <2>1, <2>2, <2>3, <2>4, InterAssumption,
               ChannelAssumption
            DEF AppTypeOK
<1>3. /\ GeneratorInv /\ OutboundInv /\ OrderInv /\ NetworkInv /\ InboundInv
      /\ AllSentInv
  BY InterAssumption, ChannelAssumption
  DEF GeneratorInv, Measuring, OutboundInv, OrderInv, NetworkInv, InboundInv,
      AllSentInv, Unsent, FromNic, FromFpga
<1>4. OwnInv /\ FramesInv
  BY FS_EmptySet DEF OwnInv, FramesInv
<1>5. CounterInv /\ ReadInv
  BY DEF CounterInv, ReadInv, Cleared, Measuring
<1>. QED  BY <1>2, <1>3, <1>4, <1>5 DEF AppInv

(***************************************************************************)
(* What is said of the channel alone holds while its variables stay.       *)
(***************************************************************************)
LEMMA ChannelKept ==
    ASSUME ChannelTypeOK, GeneratorInv, UNCHANGED channelVars
    PROVE  ChannelTypeOK' /\ GeneratorInv'
BY DEF ChannelTypeOK, GeneratorInv, channelVars, switchVars, generator,
       counters

(***************************************************************************)
(* So does what is said of the network and the counters while neither they *)
(* nor the frames they speak of change.                                    *)
(***************************************************************************)
LEMMA NetworkKept ==
    ASSUME NetworkInv, OwnInv, CounterInv, ReadInv,
           UNCHANGED <<channelVars, network, nic_in>>
    PROVE  NetworkInv' /\ OwnInv' /\ CounterInv' /\ ReadInv'
BY DEF NetworkInv, OwnInv, CounterInv, ReadInv, channelVars, switchVars,
       generator, counters, network

(***************************************************************************)
(* The steps of the barrier concern no part of the invariant.              *)
(***************************************************************************)
LEMMA Undisturbed ==
    ASSUME AppInv, UNCHANGED <<channelVars, interVars>>
    PROVE  AppInv'
<1>. USE DEF AppInv
<1>1. ChannelTypeOK' /\ GeneratorInv'
  BY ChannelKept DEF AppTypeOK
<1>2. UNCHANGED early
  BY DEF channelVars, generator
<1>3. AppTypeOK'
  BY <1>1, <1>2 DEF AppTypeOK, interVars, threads, xdma, nic, network
<1>4. OutboundInv' /\ OrderInv'
  BY DEF OutboundInv, OrderInv, Unsent, channelVars, generator, interVars,
         threads, xdma, nic
<1>5. NetworkInv' /\ OwnInv' /\ CounterInv' /\ ReadInv'
  BY NetworkKept DEF interVars, nic
<1>6. InboundInv' /\ AllSentInv' /\ FramesInv'
  BY DEF InboundInv, AllSentInv, FramesInv, Unsent, interVars, threads, xdma,
         nic, channelVars, counters
<1>. QED  BY <1>1, <1>3, <1>4, <1>5, <1>6

(***************************************************************************)
(* The steps of switch_start.  When the counters are cleared no packet of  *)
(* this run has been counted, since none has been generated.               *)
(***************************************************************************)
LEMMA SwitchPreserves ==
    ASSUME AppInv, switch_start, UNCHANGED interVars
    PROVE  AppInv'
<1>. USE DEF AppInv, interVars, threads, xdma, nic, network
<1>1. generated' = generated /\ early' = early
  BY DEF switch_start, InitReset, InitRelease, clear_accum, configure_channel,
         start_channel, WaitDone, WaitAgain, WaitTimeout, read_recvcount,
         ReadHi, ReadLo, generator
<1>2. /\ OutboundInv' /\ OrderInv' /\ NetworkInv' /\ OwnInv' /\ InboundInv'
      /\ AllSentInv'
  BY <1>1
  DEF OutboundInv, OrderInv, NetworkInv, OwnInv, InboundInv, AllSentInv,
      Unsent
<1>2a. counted' = counted \/ counted' = {}
  BY DEF switch_start, InitReset, InitRelease, clear_accum, configure_channel,
         start_channel, WaitDone, WaitAgain, WaitTimeout, read_recvcount,
         ReadHi, ReadLo, counters
<1>2b. FramesInv'
  BY <1>2a, FS_EmptySet DEF FramesInv, Unsent
<1>3. ChannelTypeOK'
  <2>t. ChannelTypeOK
    BY DEF AppTypeOK
  <2>. HIDE DEF AppInv, interVars, threads, xdma, nic, network
  <2>. USE <2>t, ChannelAssumption
       DEF ChannelTypeOK, SwitchStep, switchVars, generator, counters
  <2>0. in_reset' \in BOOLEAN /\ started' \in BOOLEAN /\ rx_done' \in BOOLEAN
    BY DEF switch_start, InitReset, InitRelease, clear_accum,
           configure_channel, start_channel, WaitDone, WaitAgain, WaitTimeout,
           read_recvcount, ReadHi, ReadLo
  <2>0a. counted' \subseteq Nat \ {0}
    BY <1>2a
  <2>1. CASE \/ InitReset \/ InitRelease \/ clear_accum
             \/ configure_channel \/ start_channel
    <3>. USE <2>1
         DEF InitReset, InitRelease, configure_channel, start_channel,
             clear_accum
    <3>1. swpc' \in {"release", "clear", "start", "poll", "configure"}
      OBVIOUS
    <3>2. packetnum' \in 0 .. PktNum
      OBVIOUS
    <3>3. recvcount' \in Nat /\ accum' \in Nat
      OBVIOUS
    <3>4. UNCHANGED <<polls, recv_count, ret_hi, result>>
      OBVIOUS
    <3>. HIDE DEF InitReset, InitRelease, configure_channel, start_channel,
             clear_accum
    <3>. QED  BY <1>1, <2>0, <2>0a, <3>1, <3>2, <3>3, <3>4
  <2>2. CASE WaitDone \/ WaitTimeout
    BY <2>2 DEF WaitDone, WaitTimeout
  <2>6. CASE WaitAgain
    BY <2>6 DEF WaitAgain
  <2>3. CASE read_recvcount
    BY <2>3 DEF read_recvcount
  <2>4. CASE ReadHi
    BY <2>4, Halves DEF ReadHi
  <2>5. CASE ReadLo
    <3>1. result' \in Nat
      <4>1. accum % Word \in Nat
        BY Halves
      <4>2. ret_hi * Word \in Nat
        OBVIOUS
      <4>. QED  BY <2>5, <4>1, <4>2 DEF ReadLo
    <3>. QED  BY <2>5, <3>1 DEF ReadLo
  <2>. QED  BY <2>1, <2>2, <2>3, <2>4, <2>5, <2>6 DEF switch_start
<1>4. AppTypeOK'
  BY <1>1, <1>3 DEF AppTypeOK
<1>5. GeneratorInv'
  BY <1>1
  DEF GeneratorInv, Measuring, switch_start, InitReset, InitRelease,
      clear_accum, configure_channel, start_channel, WaitDone, WaitAgain,
      WaitTimeout, read_recvcount, ReadHi, ReadLo, SwitchStep, generator
<1>7. CounterInv'
  <2>1. CASE clear_accum
    BY <2>1, FS_EmptySet DEF clear_accum, SwitchStep, CounterInv
  <2>2. CASE ~clear_accum
    BY <2>2
    DEF CounterInv, Cleared, Measuring, switch_start, InitReset, InitRelease,
        configure_channel, start_channel, WaitDone, WaitAgain, WaitTimeout,
        read_recvcount, ReadHi, ReadLo, SwitchStep, counters
  <2>. QED  BY <2>1, <2>2
<1>8. ReadInv'
  <2>. USE DEF ReadInv, SwitchStep, CounterInv, Cleared, Measuring, counters
  <2>1. CASE \/ InitReset \/ InitRelease \/ clear_accum
             \/ configure_channel \/ start_channel
    BY <2>1
    DEF InitReset, InitRelease, configure_channel, start_channel, clear_accum
  <2>2. CASE WaitDone \/ WaitAgain \/ WaitTimeout
    BY <2>2 DEF WaitDone, WaitAgain, WaitTimeout, RxDone
  <2>3. CASE read_recvcount
    BY <2>3 DEF read_recvcount
  <2>4. CASE ReadHi
    BY <2>4 DEF ReadHi
  <2>5. CASE ReadLo
    BY <2>5, Halves, ChannelAssumption DEF ReadLo
  <2>. QED  BY <2>1, <2>2, <2>3, <2>4, <2>5 DEF switch_start
<1>. QED  BY <1>2, <1>2b, <1>4, <1>5, <1>7, <1>8

(***************************************************************************)
(* The generator sends a packet, which it does only once it is configured. *)
(***************************************************************************)
LEMMA GeneratePreserves ==
    ASSUME AppInv, Generate, UNCHANGED interVars
    PROVE  AppInv'
<1>. USE DEF AppInv, interVars, threads, xdma, nic, network, Generate,
             switchVars, counters
<1>1. swpc \in Measuring /\ packetnum = PktNum
  BY DEF GeneratorInv
<1>2. ChannelTypeOK'
  <2>1. generated' \in 0 .. PktNum
    BY <1>1, ChannelAssumption DEF AppTypeOK, ChannelTypeOK
  <2>. QED  BY <2>1 DEF AppTypeOK, ChannelTypeOK
<1>3. AppTypeOK'
  BY <1>2 DEF AppTypeOK
<1>4. /\ GeneratorInv' /\ OrderInv' /\ NetworkInv' /\ OwnInv' /\ InboundInv'
      /\ AllSentInv' /\ FramesInv'
  BY <1>1
  DEF GeneratorInv, OrderInv, NetworkInv, OwnInv, InboundInv, AllSentInv,
      FramesInv, Unsent
<1>5. OutboundInv'
  <2>1. /\ landed \in Nat /\ early \in Nat /\ generated \in Nat
        /\ generated' = generated + 1 /\ landed <= early + generated
    BY TypeFacts DEF OutboundInv
  <2>2. landed <= early + generated'
    <3>. HIDE DEF AppInv, Generate
    <3>. QED  BY <2>1
  <2>. QED  BY <2>2 DEF OutboundInv, Unsent
<1>6. CounterInv' /\ ReadInv'
  BY DEF CounterInv, ReadInv
<1>. QED  BY <1>3, <1>4, <1>5, <1>6

(***************************************************************************)
(* The generator of an earlier run sends a packet: none of this run is     *)
(* under way.                                                              *)
(***************************************************************************)
LEMMA GenerateEarlyPreserves ==
    ASSUME AppInv, GenerateEarly, early + foreign < MaxStray,
           UNCHANGED interVars
    PROVE  AppInv'
<1>. USE DEF AppInv, interVars, threads, xdma, nic, network, GenerateEarly,
             switchVars, counters
<1>1. /\ early \in Nat /\ foreign \in Nat /\ landed \in Nat /\ PktNum \in Nat
      /\ MaxStray \in Nat /\ landed <= early + PktNum
      /\ generated \in Nat /\ early' = early + 1 /\ generated' = generated
  BY TypeFacts
<1>2. ChannelTypeOK'
  <2>1. early' \in 0 .. MaxStray
    BY <1>1
  <2>. QED  BY <2>1 DEF AppTypeOK, ChannelTypeOK
<1>3. AppTypeOK'
  <2>1. landed \in 0 .. early' + PktNum
    BY <1>1
  <2>. QED  BY <1>2, <2>1 DEF AppTypeOK
<1>4. /\ GeneratorInv' /\ OrderInv' /\ InboundInv' /\ AllSentInv'
      /\ FramesInv'
  BY DEF GeneratorInv, OrderInv, InboundInv, AllSentInv, FramesInv, Unsent
<1>5. OutboundInv'
  <2>1. landed <= early' + generated'
    BY <1>1 DEF OutboundInv
  <2>. QED  BY <2>1 DEF OutboundInv, Unsent
<1>6. NetworkInv'
  <2>1. early' + foreign <= MaxStray
    BY <1>1
  <2>. QED  BY <2>1 DEF NetworkInv
<1>7. OwnInv'
  <2>1. generated = 0
    BY <1>1 DEF GeneratorInv, Measuring
  <2>2. Cardinality(own) = 0 /\ IsFiniteSet(own)
    BY <2>1, OwnBound
  <2>3. own = {}
    BY <2>2, FS_EmptySet
  <2>. QED  BY <2>2, <2>3 DEF OwnInv
<1>8. CounterInv' /\ ReadInv'
  BY DEF CounterInv, ReadInv
<1>. QED  BY <1>3, <1>4, <1>5, <1>6, <1>7, <1>8

(***************************************************************************)
(* The C2H engine stores a packet that has been generated.                 *)
(***************************************************************************)
LEMMA C2hStorePreserves ==
    ASSUME AppInv, C2hStore
    PROVE  AppInv'
<1>. USE DEF AppInv, C2hStore, threads, nic
<1>1. /\ landed \in Nat /\ desc_used \in Nat /\ generated \in Nat
      /\ early \in Nat /\ PktNum \in Nat /\ desc_used <= landed
      /\ generated <= PktNum /\ landed' = landed + 1
      /\ UNCHANGED <<early, generated>>
  BY TypeFacts DEF channelVars, generator
<1>2. AppTypeOK'
  <2>1. nic_out' \in Seq(1 .. landed')
    <3>1. Seq(1 .. landed) \subseteq Seq(1 .. landed')
      BY <1>1
    <3>. QED  BY <3>1 DEF AppTypeOK
  <2>2. landed' \in 0 .. early' + PktNum /\ desc_used' \in 0 .. landed'
    BY <1>1
  <2>3. ChannelTypeOK'
    BY ChannelKept DEF AppTypeOK
  <2>. QED  BY <2>1, <2>2, <2>3 DEF AppTypeOK, network
<1>3. GeneratorInv' /\ NetworkInv' /\ OwnInv' /\ CounterInv' /\ ReadInv'
  BY ChannelKept, NetworkKept DEF AppTypeOK
<1>4. OutboundInv' /\ OrderInv' /\ InboundInv' /\ AllSentInv' /\ FramesInv'
  BY <1>1
  DEF OutboundInv, OrderInv, InboundInv, AllSentInv, FramesInv, Unsent,
      channelVars, counters
<1>. QED  BY <1>2, <1>3, <1>4

(***************************************************************************)
(* The frame that the H2C engine sends next has not been counted yet; in a *)
(* debug build it is the next one of those the NIC has received.           *)
(***************************************************************************)
LEMMA H2cSendNext ==
    ASSUME AppInv, H2cSend
    PROVE  /\ sending' = sending + 1 /\ sending < ret[FromNic]
           /\ pkts[sending] = nic_taken - Unsent(FromNic) + 1
           /\ Unsent(FromNic)' = Unsent(FromNic) - 1
           /\ Unsent(FromNic) > 0
           /\ fpga_in' = Append(fpga_in, pkts[sending])
           /\ counted' = counted \cup {pkts[sending]}
           /\ AppBuild = "debug" =>
                 Len(fpga_in) < nic_taken /\ pkts[sending] = Len(fpga_in) + 1
<1>1. /\ fpc[FromNic] = "send" /\ sending < ret[FromNic]
      /\ sending' = sending + 1
      /\ fpga_in' = Append(fpga_in, pkts[0 + sending])
      /\ counted' = counted \cup {pkts[0 + sending]}
      /\ UNCHANGED <<fpc, ret>>
  BY DEF H2cSend, SendToFpga, SendFrom, CountPacket, threads
<1>2. AppTypeOK /\ InboundInv /\ AllSentInv
  BY DEF AppInv
<1>3. /\ sending \in Nat /\ ret[FromNic] \in Nat /\ nic_taken \in Nat
      /\ Len(fpga_in) \in Nat
  BY <1>2, TypeFacts
<1>4. sending \in Slots /\ 0 + sending = sending
  BY <1>2, <1>3 DEF AppTypeOK
<1>5. /\ Unsent(FromNic) = ret[FromNic] - sending
      /\ Unsent(FromNic)' = ret[FromNic] - sending'
  BY <1>1 DEF Unsent
<1>6. pkts[sending] = nic_taken - ret[FromNic] + sending + 1
  BY <1>1, <1>2, <1>4 DEF InboundInv
<1>7. pkts[sending] = nic_taken - Unsent(FromNic) + 1
  BY <1>3, <1>5, <1>6
<1>8. Unsent(FromNic)' = Unsent(FromNic) - 1 /\ Unsent(FromNic) > 0
  BY <1>1, <1>3, <1>5
<1>9. ASSUME AppBuild = "debug"
      PROVE  Len(fpga_in) < nic_taken /\ pkts[sending] = Len(fpga_in) + 1
  <2>1. Len(fpga_in) + Unsent(FromNic) = nic_taken
    BY <1>2, <1>9 DEF AllSentInv
  <2>2. Unsent(FromNic) \in Nat
    BY <1>2, UnsentFacts
  <2>. QED  BY <1>3, <1>7, <1>8, <2>1, <2>2
<1>. QED  BY <1>1, <1>4, <1>7, <1>8, <1>9

(***************************************************************************)
(* The H2C engine sends a frame and the channel counts it.                 *)
(***************************************************************************)
LEMMA H2cSendPreserves ==
    ASSUME AppInv, H2cSend
    PROVE  AppInv'
<1>. DEFINE f == pkts[sending]
<1>1. /\ sending' = sending + 1 /\ sending < ret[FromNic]
      /\ f = nic_taken - Unsent(FromNic) + 1
      /\ Unsent(FromNic)' = Unsent(FromNic) - 1 /\ Unsent(FromNic) > 0
      /\ fpga_in' = Append(fpga_in, f) /\ counted' = counted \cup {f}
  BY H2cSendNext
<1>2. /\ AppTypeOK /\ GeneratorInv /\ OutboundInv /\ OrderInv /\ NetworkInv
      /\ OwnInv /\ InboundInv /\ AllSentInv /\ FramesInv /\ CounterInv
      /\ ReadInv /\ ChannelTypeOK
  BY DEF AppInv, AppTypeOK
<1>3. /\ nic_taken \in Nat /\ nic_in \in Nat /\ nic_taken <= nic_in
      /\ sending \in Nat /\ ret[FromNic] \in Nat /\ ArraySize \in Nat
      /\ Len(fpga_in) \in Nat /\ Unsent(FromNic) \in Nat
      /\ nic_taken - Unsent(FromNic) \in Nat
      /\ FromNic \in Workers /\ FromFpga \in Workers /\ FromNic # FromFpga
  BY <1>2, TypeFacts, UnsentFacts
<1>4. /\ UNCHANGED <<fpc, ret, xmit_pkts, landed, desc_used, nic_out, nic_in,
                     nic_taken, pkts, answered, own, foreign, lost>>
      /\ UNCHANGED <<swpc, polls, recv_count, ret_hi, result, in_reset,
                     started, packetnum, early, generated>>
      /\ fpc[FromNic] = "send"
      /\ recvcount' = recvcount + 1 /\ accum' = accum + 1
      /\ rx_done' = (rx_done \/ recvcount + 1 = packetnum)
  BY DEF H2cSend, SendToFpga, CountPacket, threads, nic, network, switchVars,
         generator
<1>5. f \in Nat \ {0} /\ f \in 1 .. nic_in /\ f \notin counted
  <2>1. f \in Nat /\ 1 <= f /\ f <= nic_in
    BY <1>1, <1>3
  <2>2. f \notin 1 .. (nic_taken - Unsent(FromNic))
    BY <1>1, <1>3
  <2>. QED  BY <1>2, <2>1, <2>2 DEF FramesInv
<1>. HIDE DEF f
<1>6. AppTypeOK'
  <2>1. fpga_in' \in Seq(1 .. nic_in')
    <3>1. fpga_in \in Seq(1 .. nic_in)
      BY <1>2 DEF AppTypeOK
    <3>. QED  BY <1>1, <1>4, <1>5, <3>1
  <2>2. sending' \in Slots
    <3>1. ret[FromNic] \in Slots
      BY <1>2, <1>3 DEF AppTypeOK
    <3>. QED  BY <1>1, <1>3, <3>1 DEF Slots
  <2>3. ChannelTypeOK'
    <3>1. rx_done' \in BOOLEAN
      BY <1>2, <1>4 DEF ChannelTypeOK
    <3>2. recvcount' \in Nat /\ accum' \in Nat
      BY <1>2, <1>4 DEF ChannelTypeOK
    <3>3. counted' \subseteq Nat \ {0}
      BY <1>1, <1>2, <1>5 DEF ChannelTypeOK
    <3>. QED  BY <1>2, <1>4, <3>1, <3>2, <3>3 DEF ChannelTypeOK
  <2>. QED  BY <1>2, <1>4, <2>1, <2>2, <2>3 DEF AppTypeOK
<1>7. GeneratorInv' /\ NetworkInv' /\ OwnInv' /\ OrderInv'
  BY <1>2, <1>4 DEF GeneratorInv, NetworkInv, OwnInv, OrderInv
<1>8. OutboundInv'
  BY <1>2, <1>3, <1>4 DEF OutboundInv, Unsent
<1>9. InboundInv'
  <2>1. sending' <= ret[FromNic]
    BY <1>1, <1>3
  <2>. QED  BY <1>2, <1>4, <2>1 DEF InboundInv
<1>10. AllSentInv'
  <2>1. Len(fpga_in') = Len(fpga_in) + 1
    <3>1. fpga_in \in Seq(1 .. nic_in)
      BY <1>2 DEF AppTypeOK
    <3>. QED  BY <1>1, <1>5, <3>1
  <2>. QED  BY <1>1, <1>2, <1>3, <1>4, <2>1 DEF AllSentInv
<1>11. FramesInv'
  <2>1. IsFiniteSet(counted')
    BY <1>1, <1>2, FS_AddElement DEF FramesInv
  <2>2. \A n \in Nat : 1 .. n \subseteq 1 .. n + 1 /\ n + 1 \in 1 .. n + 1
    OBVIOUS
  <2>3. nic_taken' - Unsent(FromNic)' = nic_taken - Unsent(FromNic) + 1
    BY <1>1, <1>3, <1>4
  <2>4. counted' \subseteq 1 .. (nic_taken' - Unsent(FromNic)')
    BY <1>1, <1>2, <1>3, <2>2, <2>3 DEF FramesInv
  <2>. QED  BY <2>1, <2>4 DEF FramesInv
<1>12. CounterInv'
  <2>. SUFFICES ASSUME swpc \in Cleared
                PROVE  /\ recvcount' = Cardinality(counted')
                       /\ accum' = recvcount'
                       /\ counted' \subseteq own /\ rx_done' =>
                             recvcount' = PktNum
    BY <1>4 DEF CounterInv
  <2>1. recvcount = Cardinality(counted) /\ accum = recvcount
    BY <1>2 DEF CounterInv
  <2>2. Cardinality(counted') = recvcount + 1
    BY <1>1, <1>2, <1>5, <2>1, FS_AddElement DEF FramesInv
  <2>3. ASSUME counted' \subseteq own, rx_done'  PROVE recvcount' = PktNum
    <3>1. IsFiniteSet(own) /\ Cardinality(own) <= generated
          /\ Cardinality(own) \in Nat
      BY OwnBound
    <3>2. Cardinality(counted') <= Cardinality(own)
      BY <2>3, <3>1, FS_Subset
    <3>3. /\ recvcount \in Nat /\ generated \in Nat /\ generated <= PktNum
          /\ PktNum \in Nat
      BY <1>2, TypeFacts DEF ChannelTypeOK
    <3>4. generated > 0 /\ recvcount + 1 <= PktNum
      BY <2>2, <3>1, <3>2, <3>3
    <3>5. packetnum = PktNum
      BY <1>2, <3>4 DEF GeneratorInv
    <3>6. ~rx_done
      <4>1. counted \subseteq own
        BY <1>1, <2>3
      <4>2. recvcount # PktNum
        BY <3>3, <3>4
      <4>. QED  BY <1>2, <4>1, <4>2 DEF CounterInv
    <3>. QED  BY <1>4, <2>3, <3>5, <3>6
  <2>. QED  BY <1>4, <2>1, <2>2, <2>3
<1>13. ReadInv'
  <2>1. counted' \subseteq own' => counted \subseteq own
    BY <1>1, <1>4
  <2>. QED  BY <1>2, <1>4, <2>1 DEF ReadInv
<1>. QED  BY <1>6, <1>7, <1>8, <1>9, <1>10, <1>11, <1>12, <1>13 DEF AppInv

(***************************************************************************)
(* A packet is answered or its answer is lost.  It is of this run only if  *)
(* as many as there are of an earlier one have been answered before.       *)
(***************************************************************************)
LEMMA AnswerOwn ==
    ASSUME AppInv, Answer
    PROVE  OwnInv' /\ own' \subseteq own \cup {nic_in + 1}
<1>1. OwnInv /\ OrderInv
  BY DEF AppInv
<1>2. /\ answered \in Nat /\ Len(nic_out) \in Nat /\ early \in Nat
      /\ answered < Len(nic_out) /\ answered' = answered + 1
      /\ early' = early
  BY TypeFacts DEF AppInv, Answer, channelVars, generator
<1>3. nic_out[answered + 1] \in Nat /\ nic_out[answered + 1] <= answered + 1
  <2>1. nic_out \in Seq(1 .. landed) /\ landed \in Nat
    BY TypeFacts DEF AppInv, AppTypeOK
  <2>2. answered + 1 \in 1 .. Len(nic_out)
    BY <1>2
  <2>3. nic_out[answered + 1] \in 1 .. landed
    BY <2>1, <2>2
  <2>. QED  BY <1>1, <2>1, <2>2, <2>3 DEF OrderInv
<1>4. CASE own' = own
  BY <1>1, <1>2, <1>4, FS_CardinalityType DEF OwnInv
<1>5. CASE nic_out[answered + 1] > early /\ own' = own \cup {nic_in + 1}
  <2>1. IsFiniteSet(own) /\ Cardinality(own) \in Nat
    BY <1>1, FS_CardinalityType DEF OwnInv
  <2>2. IsFiniteSet(own') /\ Cardinality(own') \in Nat
        /\ Cardinality(own') <= Cardinality(own) + 1
    <3>1. IsFiniteSet(own') /\ Cardinality(own') =
             IF nic_in + 1 \in own THEN Cardinality(own)
             ELSE Cardinality(own) + 1
      BY <1>5, <2>1, FS_AddElement
    <3>. QED  BY <2>1, <3>1
  <2>3. early < answered + 1
    BY <1>2, <1>3, <1>5
  <2>4. Cardinality(own') + early' <= answered'
    <3>1. CASE own = {}
      <4>1. Cardinality(own) = 0
        BY <3>1, FS_EmptySet
      <4>. QED  BY <1>2, <2>2, <2>3, <4>1
    <3>2. CASE own # {}
      <4>1. Cardinality(own) + early <= answered
        BY <1>1, <3>2 DEF OwnInv
      <4>. QED  BY <1>2, <2>1, <2>2, <4>1
    <3>. QED  BY <3>1, <3>2
  <2>. QED  BY <1>5, <2>2, <2>4 DEF OwnInv
<1>. QED  BY <1>4, <1>5 DEF Answer

(***************************************************************************)
(* A packet is answered or its answer is lost, or a frame of others        *)
(* arrives.                                                                *)
(***************************************************************************)
LEMMA NetworkPreserves ==
    ASSUME AppInv, Answer \/ ForeignFrame
    PROVE  AppInv'
<1>1. /\ AppTypeOK /\ GeneratorInv /\ OutboundInv /\ OrderInv /\ NetworkInv
      /\ OwnInv /\ InboundInv /\ AllSentInv /\ FramesInv /\ CounterInv
      /\ ReadInv /\ ChannelTypeOK
  BY DEF AppInv, AppTypeOK
<1>2. /\ nic_in \in Nat /\ nic_taken \in Nat /\ answered \in Nat
      /\ lost \in Nat /\ foreign \in Nat /\ Len(nic_out) \in Nat
      /\ nic_taken <= nic_in /\ answered <= Len(nic_out)
      /\ PktNum \in Nat /\ MaxStray \in Nat /\ MaxLost \in Nat
      /\ early \in Nat /\ lost <= MaxLost /\ landed \in Nat
      /\ desc_used \in Nat /\ generated \in Nat /\ generated <= PktNum
  BY <1>1, TypeFacts
<1>3. /\ UNCHANGED channelVars /\ UNCHANGED early
      /\ UNCHANGED <<fpc, ret, xmit_pkts, landed, desc_used, fpga_in, sending,
                     nic_out, nic_taken, pkts>>
  BY DEF Answer, ForeignFrame, channelVars, generator, threads, xdma
<1>4. /\ NetworkInv' /\ answered' \in 0 .. Len(nic_out)
      /\ lost' \in 0 .. MaxLost /\ foreign' \in 0 .. MaxStray
      /\ nic_in' \in Nat /\ nic_in <= nic_in'
  <2>1. CASE Answer
    <3>1. /\ answered < Len(nic_out) /\ answered' = answered + 1
          /\ foreign' = foreign
          /\ \/ nic_in' = nic_in + 1 /\ lost' = lost
             \/ lost < MaxLost /\ lost' = lost + 1 /\ nic_in' = nic_in
      BY <2>1 DEF Answer
    <3>2. /\ lost' \in 0 .. MaxLost /\ answered' \in 0 .. Len(nic_out)
          /\ foreign' \in 0 .. MaxStray
      BY <1>1, <1>2, <3>1 DEF AppTypeOK
    <3>3. nic_in' \in Nat /\ nic_in <= nic_in'
      BY <1>2, <3>1
    <3>4. NetworkInv'
      BY <1>1, <1>2, <1>3, <3>1 DEF NetworkInv
    <3>. QED  BY <3>2, <3>3, <3>4
  <2>2. CASE ForeignFrame
    <3>1. /\ early + foreign < MaxStray /\ foreign' = foreign + 1
          /\ nic_in' = nic_in + 1 /\ UNCHANGED <<answered, lost>>
      BY <2>2 DEF ForeignFrame
    <3>2. foreign' \in 0 .. MaxStray /\ nic_in' \in Nat /\ nic_in <= nic_in'
      BY <1>2, <3>1
    <3>3. NetworkInv'
      BY <1>1, <1>2, <1>3, <3>1 DEF NetworkInv
    <3>. QED  BY <1>1, <3>1, <3>2, <3>3 DEF AppTypeOK
  <2>. QED  BY <2>1, <2>2
<1>5. own' \subseteq own \cup {nic_in + 1} /\ OwnInv'
      /\ own' \subseteq 1 .. nic_in'
  <2>1. CASE Answer
    <3>1. own' \subseteq own \cup {nic_in + 1} /\ OwnInv'
      BY <2>1, AnswerOwn
    <3>2. nic_in' = nic_in + 1 \/ own' = own
      BY <2>1 DEF Answer
    <3>3. own \subseteq 1 .. nic_in /\ 1 .. nic_in \subseteq 1 .. nic_in'
      BY <1>1, <1>2, <1>4 DEF AppTypeOK
    <3>4. nic_in + 1 \in 1 .. nic_in + 1
      BY <1>2
    <3>. QED  BY <3>1, <3>2, <3>3, <3>4
  <2>2. CASE ForeignFrame
    <3>1. own' = own /\ answered' = answered
      BY <2>2 DEF ForeignFrame
    <3>2. own \subseteq 1 .. nic_in /\ 1 .. nic_in \subseteq 1 .. nic_in'
      BY <1>1, <1>2, <1>4 DEF AppTypeOK
    <3>. QED  BY <1>1, <1>3, <3>1, <3>2 DEF OwnInv
  <2>. QED  BY <2>1, <2>2
<1>6. AppTypeOK'
  <2>1. nic_in' \in 0 .. PktNum + MaxStray
    <3>1. Len(nic_out) <= early + PktNum
      BY <1>2, Bounds
    <3>2. /\ nic_in' = answered' - lost' + foreign'
          /\ early + foreign' <= MaxStray
      BY <1>3, <1>4 DEF NetworkInv
    <3>3. /\ answered' \in Nat /\ answered' <= Len(nic_out) /\ lost' \in Nat
          /\ foreign' \in Nat
      BY <1>2, <1>4
    <3>4. \A a, l, g, n, e, p, m \in Nat :
             a <= n /\ n <= e + p /\ e + g <= m => a - l + g <= p + m
      OBVIOUS
    <3>5. nic_in' <= PktNum + MaxStray
      BY <1>2, <3>1, <3>2, <3>3, <3>4
    <3>. QED  BY <1>2, <1>4, <3>5
  <2>2. pkts' \in [Slots -> 0 .. nic_in'] /\ nic_taken' \in 0 .. nic_in'
    <3>1. 0 .. nic_in \subseteq 0 .. nic_in'
      BY <1>2, <1>4
    <3>. QED  BY <1>1, <1>3, <3>1 DEF AppTypeOK
  <2>3. fpga_in' \in Seq(1 .. nic_in')
    <3>1. Seq(1 .. nic_in) \subseteq Seq(1 .. nic_in')
      BY <1>2, <1>4
    <3>. QED  BY <1>1, <1>3, <3>1 DEF AppTypeOK
  <2>4. ChannelTypeOK'
    BY <1>1, <1>3, ChannelKept
  <2>. QED  BY <1>1, <1>3, <1>4, <1>5, <2>1, <2>2, <2>3, <2>4 DEF AppTypeOK
<1>7. GeneratorInv'
  BY <1>1, <1>3, ChannelKept
<1>8. OutboundInv' /\ OrderInv' /\ InboundInv' /\ AllSentInv' /\ FramesInv'
  <2>1. UNCHANGED <<early, generated, counted>>
    BY <1>3 DEF channelVars, generator, counters
  <2>. QED  BY <1>1, <1>3, <2>1
       DEF OutboundInv, OrderInv, InboundInv, AllSentInv, FramesInv, Unsent
<1>9. CounterInv' /\ ReadInv'
  <2>1. nic_in + 1 \notin counted
    <3>1. counted \subseteq 1 .. (nic_taken - Unsent(FromNic))
      BY <1>1 DEF FramesInv
    <3>2. nic_in + 1 \notin 1 .. (nic_taken - Unsent(FromNic))
      BY <1>1, <1>2, UnsentFacts
    <3>. QED  BY <3>1, <3>2
  <2>2. counted \subseteq own' => counted \subseteq own
    BY <1>5, <2>1
  <2>. QED  BY <1>1, <1>3, <2>2
       DEF CounterInv, ReadInv, channelVars, switchVars, counters
<1>. QED  BY <1>4, <1>5, <1>6, <1>7, <1>8, <1>9 DEF AppInv

(***************************************************************************)
(* A thread starts to forward, or compares its count with pkt_num.         *)
(***************************************************************************)
LEMMA AwakePreserves ==
    ASSUME AppInv, UNCHANGED <<vars, channelVars, network>>, NEW w \in Workers,
           Awake(w) \/ TestEnd(w)
    PROVE  AppInv'
<1>. USE DEF AppInv
<1>1. /\ \E to \in {"recv", "end"} : Goto(w, to)
      /\ fpc[w] \in {"sleep", "test"}
      /\ UNCHANGED <<ret, xmit_pkts, xdma, nic>>
  BY DEF Awake, TestEnd
<1>2. /\ fpc' \in [Workers -> {"sleep", "recv", "send", "test", "end"}]
      /\ \A v \in Workers : fpc'[v] = "send" <=> fpc[v] = "send"
  BY <1>1, GotoFacts
<1>3. ChannelTypeOK' /\ GeneratorInv'
  BY ChannelKept DEF AppTypeOK
<1>4. UNCHANGED <<early, generated, counted>>
  BY DEF channelVars, generator, counters
<1>5. AppTypeOK'
  BY <1>1, <1>2, <1>3, <1>4 DEF AppTypeOK, xdma, nic, network
<1>6. /\ OutboundInv' /\ OrderInv' /\ InboundInv' /\ AllSentInv'
      /\ FramesInv'
  BY <1>1, <1>2, <1>4, InterAssumption
  DEF OutboundInv, OrderInv, InboundInv, AllSentInv, FramesInv, Unsent,
      FromNic, FromFpga, xdma, nic
<1>7. NetworkInv' /\ OwnInv' /\ CounterInv' /\ ReadInv'
  BY <1>1, NetworkKept DEF nic
<1>. QED  BY <1>3, <1>5, <1>6, <1>7

(***************************************************************************)
(* A receive call on the XDMA port returns.                                *)
(***************************************************************************)
LEMMA RecvFromFpgaPreserves ==
    ASSUME AppInv, UNCHANGED <<vars, channelVars, network>>,
           NEW n \in 0 .. ArraySize, RecvFromFpga(n)
    PROVE  AppInv'
<1>1. /\ fpc[FromFpga] = "recv" /\ desc_used + n <= landed
      /\ Goto(FromFpga, IF n > 0 THEN "send" ELSE "test")
      /\ ret' = [ret EXCEPT ![FromFpga] = n] /\ desc_used' = desc_used + n
      /\ UNCHANGED <<xmit_pkts, landed, fpga_in, sending, nic_out, nic_in,
                     nic_taken, pkts, answered, own, foreign, lost>>
  BY DEF RecvFromFpga, Received, nic, network
<1>2. /\ AppTypeOK /\ GeneratorInv /\ OutboundInv /\ OrderInv /\ NetworkInv
      /\ OwnInv /\ InboundInv /\ AllSentInv /\ FramesInv /\ CounterInv
      /\ ReadInv
  BY DEF AppInv
<1>2a. UNCHANGED <<early, generated, counted>>
  BY DEF channelVars, generator, counters
<1>3. /\ ArraySize \in Nat /\ landed < ArraySize
      /\ landed \in Nat /\ desc_used \in Nat
      /\ Len(nic_out) \in Nat
      /\ FromFpga \in Workers /\ FromNic \in Workers /\ FromNic # FromFpga
  <2>1. /\ MaxStray \in Nat /\ PktNum \in Nat /\ ArraySize \in Nat
        /\ PktNum + MaxStray < ArraySize /\ early \in Nat
        /\ early <= MaxStray /\ landed \in Nat /\ landed <= early + PktNum
    BY <1>2, TypeFacts
  <2>2. landed < ArraySize
    BY <2>1
  <2>. QED  BY <1>2, <2>1, <2>2, TypeFacts
<1>4. n \in Nat /\ n < ArraySize
  BY <1>1, <1>3
<1>5. /\ fpc'[FromFpga] = (IF n > 0 THEN "send" ELSE "test")
      /\ fpc'[FromNic] = fpc[FromNic]
      /\ fpc' \in [Workers -> {"sleep", "recv", "send", "test", "end"}]
  BY <1>1, <1>2, <1>3, GotoFacts
<1>6. /\ ret'[FromFpga] = n /\ ret'[FromNic] = ret[FromNic]
      /\ ret' \in [Workers -> Slots]
  <2>1. n \in Slots
    BY <1>3, <1>4 DEF Slots
  <2>. QED  BY <1>1, <1>2, <1>3, <2>1 DEF AppTypeOK
<1>7. ChannelTypeOK' /\ GeneratorInv'
  BY <1>2, ChannelKept DEF AppTypeOK
<1>8. AppTypeOK'
  <2>1. desc_used' \in 0 .. landed
    BY <1>1, <1>3, <1>4
  <2>. QED  BY <1>1, <1>2, <1>2a, <1>5, <1>6, <1>7, <2>1 DEF AppTypeOK
<1>9. OutboundInv' /\ OrderInv'
  <2>1. Len(nic_out) = desc_used
    BY <1>1, <1>2, <1>3 DEF OutboundInv, Unsent
  <2>2. Unsent(FromFpga)' = n
    BY <1>3, <1>4, <1>5, <1>6 DEF Unsent
  <2>3. landed <= early + generated
    BY <1>2 DEF OutboundInv
  <2>4. ret'[FromFpga] <= desc_used'
    BY <1>1, <1>3, <1>4, <1>6
  <2>. QED  BY <1>1, <1>2, <1>2a, <2>1, <2>2, <2>3, <2>4
            DEF OutboundInv, OrderInv
<1>10. InboundInv' /\ AllSentInv' /\ FramesInv'
  BY <1>1, <1>2, <1>2a, <1>5, <1>6
  DEF InboundInv, AllSentInv, FramesInv, Unsent
<1>11. NetworkInv' /\ OwnInv' /\ CounterInv' /\ ReadInv'
  BY <1>1, <1>2, NetworkKept
<1>. QED  BY <1>7, <1>8, <1>9, <1>10, <1>11 DEF AppInv

(***************************************************************************)
(* A receive call on the NIC returns, and has filled the array from its    *)
(* start.                                                                  *)
(***************************************************************************)
LEMMA RecvFromNicPreserves ==
    ASSUME AppInv, UNCHANGED <<vars, channelVars, network>>,
           NEW n \in 0 .. ArraySize, RecvFromNic(n)
    PROVE  AppInv'
<1>1. /\ fpc[FromNic] = "recv" /\ nic_taken + n <= nic_in
      /\ Goto(FromNic, IF n > 0 THEN "send" ELSE "test")
      /\ ret' = [ret EXCEPT ![FromNic] = n] /\ nic_taken' = nic_taken + n
      /\ pkts' = [i \in Slots |-> IF i < n THEN nic_taken + i + 1 ELSE pkts[i]]
      /\ UNCHANGED <<xmit_pkts, landed, desc_used, fpga_in, sending, nic_out,
                     nic_in, answered, own, foreign, lost>>
  BY DEF RecvFromNic, Received, xdma, network
<1>2. /\ AppTypeOK /\ GeneratorInv /\ OutboundInv /\ OrderInv /\ NetworkInv
      /\ OwnInv /\ InboundInv /\ AllSentInv /\ FramesInv /\ CounterInv
      /\ ReadInv
  BY DEF AppInv
<1>2a. UNCHANGED <<early, generated, counted>>
  BY DEF channelVars, generator, counters
<1>3. /\ ArraySize \in Nat /\ nic_in \in Nat /\ nic_in < ArraySize
      /\ nic_taken \in Nat /\ Len(fpga_in) \in Nat
      /\ FromFpga \in Workers /\ FromNic \in Workers /\ FromNic # FromFpga
  <2>1. /\ nic_in \in Nat /\ nic_in <= PktNum + MaxStray
        /\ MaxStray \in Nat /\ PktNum \in Nat /\ ArraySize \in Nat
        /\ PktNum + MaxStray < ArraySize
    BY <1>2, TypeFacts
  <2>2. nic_in < ArraySize
    BY <2>1
  <2>. QED  BY <1>2, <2>1, <2>2, TypeFacts
<1>4. n \in Nat /\ n < ArraySize
  BY <1>1, <1>3
<1>5. /\ fpc'[FromNic] = (IF n > 0 THEN "send" ELSE "test")
      /\ fpc'[FromFpga] = fpc[FromFpga]
      /\ fpc' \in [Workers -> {"sleep", "recv", "send", "test", "end"}]
  BY <1>1, <1>2, <1>3, GotoFacts
<1>6. /\ ret'[FromNic] = n /\ ret'[FromFpga] = ret[FromFpga]
      /\ ret' \in [Workers -> Slots]
  <2>1. n \in Slots
    BY <1>3, <1>4 DEF Slots
  <2>. QED  BY <1>1, <1>2, <1>3, <2>1 DEF AppTypeOK
<1>7. ChannelTypeOK' /\ GeneratorInv'
  BY <1>2, ChannelKept DEF AppTypeOK
<1>8. AppTypeOK'
  <2>1. pkts' \in [Slots -> 0 .. nic_in]
    <3>1. ASSUME NEW i \in Slots  PROVE pkts'[i] \in 0 .. nic_in
      <4>1. i \in Nat
        BY <1>3 DEF Slots
      <4>2. pkts[i] \in 0 .. nic_in
        BY <1>2 DEF AppTypeOK
      <4>3. i < n => nic_taken + i + 1 \in 0 .. nic_in
        BY <1>1, <1>3, <1>4, <4>1
      <4>. QED  BY <1>1, <4>2, <4>3
    <3>. QED  BY <1>1, <3>1
  <2>2. nic_taken' \in 0 .. nic_in
    BY <1>1, <1>3, <1>4
  <2>. QED  BY <1>1, <1>2, <1>2a, <1>5, <1>6, <1>7, <2>1, <2>2
            DEF AppTypeOK
<1>9. OutboundInv' /\ OrderInv'
  BY <1>1, <1>2, <1>2a, <1>3, <1>5, <1>6 DEF OutboundInv, OrderInv, Unsent
<1>10. InboundInv' /\ AllSentInv' /\ FramesInv'
  <2>1. Unsent(FromNic) = 0 /\ sending = 0
    BY <1>1, <1>2, <1>3 DEF InboundInv, Unsent
  <2>2. Unsent(FromNic)' = n
    BY <1>1, <1>4, <1>5, <1>6, <2>1 DEF Unsent
  <2>3. \A i \in Slots : i < n => pkts'[i] = nic_taken' - n + i + 1
    <3>1. Slots \subseteq Nat
      BY <1>3 DEF Slots
    <3>. QED  BY <1>1, <1>3, <1>4, <3>1
  <2>4. sending <= n /\ n <= nic_taken'
    BY <1>1, <1>3, <1>4, <2>1
  <2>5. nic_taken' - Unsent(FromNic)' = nic_taken - Unsent(FromNic)
    BY <1>1, <1>3, <1>4, <2>1, <2>2
  <2>6. AllSentInv'
    BY <1>1, <1>2, <1>3, <1>4, <2>1, <2>2 DEF AllSentInv
  <2>7. FramesInv'
    BY <1>2, <1>2a, <2>5 DEF FramesInv
  <2>. QED  BY <1>1, <1>6, <2>1, <2>3, <2>4, <2>6, <2>7 DEF InboundInv
<1>11. NetworkInv' /\ OwnInv' /\ CounterInv' /\ ReadInv'
  BY <1>1, <1>2, NetworkKept
<1>. QED  BY <1>7, <1>8, <1>9, <1>10, <1>11 DEF AppInv

(***************************************************************************)
(* A burst is sent to the NIC.                                             *)
(***************************************************************************)
LEMMA SendToNicPreserves ==
    ASSUME AppInv, UNCHANGED <<vars, channelVars, network>>, SendToNic
    PROVE  AppInv'
<1>. DEFINE k == ret[FromFpga]
            burst == [i \in 1 .. k |-> C2hSlot(SendFrom(FromFpga) + i - 1)]
<1>1. /\ fpc[FromFpga] = "send" /\ nic_out' = nic_out \o burst
      /\ xmit_pkts' = [xmit_pkts EXCEPT ![FromFpga] = Counted(FromFpga)]
      /\ Goto(FromFpga, "test")
      /\ UNCHANGED <<ret, landed, desc_used, fpga_in, sending, nic_in,
                     nic_taken, pkts, answered, own, foreign, lost>>
  BY DEF SendToNic, Sent, xdma, network
<1>2. /\ AppTypeOK /\ GeneratorInv /\ OutboundInv /\ OrderInv /\ NetworkInv
      /\ OwnInv /\ InboundInv /\ AllSentInv /\ FramesInv /\ CounterInv
      /\ ReadInv
  BY DEF AppInv
<1>2a. UNCHANGED <<early, generated, counted>>
  BY DEF channelVars, generator, counters
<1>3. /\ k \in Nat /\ desc_used \in Nat /\ desc_used <= landed
      /\ landed \in Nat /\ Len(nic_out) \in Nat
      /\ answered \in Nat /\ answered <= Len(nic_out)
      /\ FromFpga \in Workers /\ FromNic \in Workers /\ FromNic # FromFpga
  BY <1>2, TypeFacts
<1>4. k <= desc_used /\ Len(nic_out) + k = desc_used
  BY <1>1, <1>2, <1>3 DEF OutboundInv, Unsent
<1>5. burst \in Seq(1 .. landed) /\ Len(burst) = k
  <2>1. ASSUME NEW i \in 1 .. k
        PROVE  C2hSlot(SendFrom(FromFpga) + i - 1) \in 1 .. landed
    <3>1. i \in Nat /\ i >= 1 /\ i <= landed
      BY <1>3, <1>4
    <3>. QED  BY <1>3, <3>1 DEF C2hSlot, SendFrom
  <2>2. burst \in [1 .. k -> 1 .. landed]
    BY <2>1
  <2>3. \A m \in Nat : \A S : \A f \in [1 .. m -> S] :
           f \in Seq(S) /\ Len(f) = m
    OBVIOUS
  <2>. HIDE DEF burst, k
  <2>. QED  BY <1>3, <2>2, <2>3
<1>. HIDE DEF burst
<1>6. nic_out' \in Seq(1 .. landed) /\ Len(nic_out') = Len(nic_out) + k
  <2>1. nic_out \in Seq(1 .. landed)
    BY <1>2 DEF AppTypeOK
  <2>. HIDE DEF k
  <2>2. \A S : \A s, t \in Seq(S) :
           s \o t \in Seq(S) /\ Len(s \o t) = Len(s) + Len(t)
    OBVIOUS
  <2>. QED  BY <1>1, <1>5, <2>1, <2>2
<1>7. /\ fpc'[FromFpga] = "test" /\ fpc'[FromNic] = fpc[FromNic]
      /\ fpc' \in [Workers -> {"sleep", "recv", "send", "test", "end"}]
  BY <1>1, <1>2, <1>3, GotoFacts
<1>8. xmit_pkts' \in [Workers -> Nat]
  <2>1. xmit_pkts \in [Workers -> Nat]
    BY <1>2 DEF AppTypeOK
  <2>2. Counted(FromFpga) \in Nat
    BY <1>3, <2>1 DEF Counted
  <2>. QED  BY <1>1, <2>1, <2>2
<1>9. ChannelTypeOK' /\ GeneratorInv'
  BY <1>2, ChannelKept DEF AppTypeOK
<1>10. AppTypeOK'
  <2>1. answered \in 0 .. Len(nic_out')
    BY <1>3, <1>6
  <2>. QED  BY <1>1, <1>2, <1>2a, <1>6, <1>7, <1>8, <1>9, <2>1
            DEF AppTypeOK
<1>11. OutboundInv'
  <2>1. landed <= early + generated
    BY <1>2 DEF OutboundInv
  <2>2. Unsent(FromFpga)' = 0
    BY <1>7 DEF Unsent
  <2>3. Len(nic_out') + 0 = desc_used
    BY <1>3, <1>4, <1>6
  <2>. QED  BY <1>1, <1>2a, <1>7, <2>1, <2>2, <2>3 DEF OutboundInv
<1>11a. OrderInv'
  <2>1. ASSUME NEW j \in 1 .. Len(nic_out')  PROVE nic_out'[j] <= j
    <3>1. CASE j <= Len(nic_out)
      <4>1. j \in 1 .. Len(nic_out) /\ nic_out'[j] = nic_out[j]
        <5>1. nic_out \in Seq(1 .. landed)
          BY <1>2 DEF AppTypeOK
        <5>. HIDE DEF k
        <5>. QED  BY <1>1, <1>3, <1>5, <1>6, <2>1, <3>1, <5>1
      <4>. QED  BY <1>2, <4>1 DEF OrderInv
    <3>2. CASE j > Len(nic_out)
      <4>1. /\ j - Len(nic_out) \in 1 .. k /\ j \in Nat
            /\ j - Len(nic_out) <= j
        BY <1>3, <1>6, <3>2
      <4>2. nic_out'[j] = burst[j - Len(nic_out)]
        <5>1. nic_out \in Seq(1 .. landed)
          BY <1>2 DEF AppTypeOK
        <5>. HIDE DEF k
        <5>. QED  BY <1>1, <1>3, <1>5, <1>6, <3>2, <5>1
      <4>3. ASSUME NEW i \in 1 .. k  PROVE burst[i] = i
        <5>1. burst[i] = C2hSlot(SendFrom(FromFpga) + i - 1)
          BY DEF burst
        <5>2. i \in Nat /\ 0 + i - 1 < landed /\ 0 + i - 1 + 1 = i
          BY <1>3, <1>4
        <5>. QED  BY <5>1, <5>2 DEF C2hSlot, SendFrom
      <4>. QED  BY <4>1, <4>2, <4>3
    <3>. QED  BY <1>3, <1>6, <3>1, <3>2
  <2>. QED  BY <2>1 DEF OrderInv
<1>12. InboundInv' /\ AllSentInv' /\ FramesInv'
  BY <1>1, <1>2, <1>2a, <1>7
  DEF InboundInv, AllSentInv, FramesInv, Unsent
<1>13. NetworkInv' /\ OwnInv' /\ CounterInv' /\ ReadInv'
  BY <1>1, <1>2, NetworkKept
<1>. QED  BY <1>9, <1>10, <1>11, <1>11a, <1>12, <1>13 DEF AppInv

(***************************************************************************)
(* A transmit call on the XDMA port returns.                               *)
(***************************************************************************)
LEMMA SendToFpgaReturnPreserves ==
    ASSUME AppInv, UNCHANGED <<vars, channelVars, network>>, SendToFpgaReturn
    PROVE  AppInv'
<1>1. /\ fpc[FromNic] = "send" /\ sending' = 0
      /\ AppBuild = "debug" => sending = ret[FromNic]
      /\ xmit_pkts' = [xmit_pkts EXCEPT ![FromNic] = Counted(FromNic)]
      /\ Goto(FromNic, "test")
      /\ UNCHANGED <<ret, landed, desc_used, fpga_in, nic_out, nic_in,
                     nic_taken, pkts, answered, own, foreign, lost>>
  BY DEF SendToFpgaReturn, Waits, Sent, nic, network
<1>2. /\ AppTypeOK /\ GeneratorInv /\ OutboundInv /\ OrderInv /\ NetworkInv
      /\ OwnInv /\ InboundInv /\ AllSentInv /\ FramesInv /\ CounterInv
      /\ ReadInv
  BY DEF AppInv
<1>2a. UNCHANGED <<early, generated, counted>>
  BY DEF channelVars, generator, counters
<1>3. /\ ret[FromNic] \in Nat /\ Len(fpga_in) \in Nat /\ nic_taken \in Nat
      /\ ArraySize \in Nat /\ 0 < ArraySize
      /\ FromFpga \in Workers /\ FromNic \in Workers /\ FromNic # FromFpga
  <2>1. /\ MaxStray \in Nat /\ PktNum \in Nat /\ ArraySize \in Nat
        /\ PktNum + MaxStray < ArraySize
    BY <1>2, TypeFacts
  <2>2. 0 < ArraySize
    BY <2>1
  <2>. QED  BY <1>2, <2>1, <2>2, TypeFacts
<1>4. AppBuild = "debug" => Len(fpga_in) = nic_taken
  BY <1>1, <1>2, <1>3 DEF AllSentInv, Unsent
<1>5. /\ fpc'[FromNic] = "test" /\ fpc'[FromFpga] = fpc[FromFpga]
      /\ fpc' \in [Workers -> {"sleep", "recv", "send", "test", "end"}]
  BY <1>1, <1>2, <1>3, GotoFacts
<1>6. xmit_pkts' \in [Workers -> Nat]
  <2>1. xmit_pkts \in [Workers -> Nat]
    BY <1>2 DEF AppTypeOK
  <2>2. Counted(FromNic) \in Nat
    BY <1>3, <2>1 DEF Counted
  <2>. QED  BY <1>1, <2>1, <2>2
<1>7. ChannelTypeOK' /\ GeneratorInv'
  BY <1>2, ChannelKept DEF AppTypeOK
<1>8. AppTypeOK'
  <2>1. sending' \in Slots
    BY <1>1, <1>3 DEF Slots
  <2>. QED  BY <1>1, <1>2, <1>2a, <1>5, <1>6, <1>7, <2>1 DEF AppTypeOK
<1>9. OutboundInv' /\ OrderInv'
  BY <1>1, <1>2, <1>2a, <1>3, <1>5 DEF OutboundInv, OrderInv, Unsent
<1>10. InboundInv' /\ AllSentInv' /\ FramesInv'
  <2>1. Unsent(FromNic)' = 0 /\ nic_taken' = nic_taken
    BY <1>1, <1>5 DEF Unsent
  <2>2. AllSentInv'
    BY <1>1, <1>3, <1>4, <2>1 DEF AllSentInv
  <2>3. FramesInv'
    <3>1. 1 .. (nic_taken - Unsent(FromNic)) \subseteq 1 .. (nic_taken - 0)
      BY <1>2, <1>3, UnsentFacts
    <3>. QED  BY <1>2, <1>2a, <2>1, <3>1 DEF FramesInv
  <2>. QED  BY <1>1, <1>5, <2>2, <2>3 DEF InboundInv
<1>11. NetworkInv' /\ OwnInv' /\ CounterInv' /\ ReadInv'
  BY <1>1, <1>2, NetworkKept
<1>. QED  BY <1>7, <1>8, <1>9, <1>10, <1>11 DEF AppInv

(***************************************************************************)
(* Every step of the application, the hardware and the network preserves   *)
(* the invariant.                                                          *)
(***************************************************************************)
LEMMA AppInductive ==
    ASSUME AppInv, [AppNext]_appVars  PROVE AppInv'
<1>1. CASE Barrier(Next) \/ UNCHANGED appVars
  BY <1>1, Undisturbed DEF Barrier, appVars
<1>2. CASE fpga_to_fpga
  BY <1>2, AwakePreserves, RecvFromFpgaPreserves, RecvFromNicPreserves,
     SendToNicPreserves, SendToFpgaReturnPreserves
  DEF fpga_to_fpga, Recv
<1>3. CASE \/ (switch_start \/ Generate) /\ UNCHANGED interVars
           \/ /\ GenerateEarly /\ early + foreign < MaxStray
              /\ UNCHANGED interVars
  BY <1>3, SwitchPreserves, GeneratePreserves, GenerateEarlyPreserves
<1>4. CASE C2hStore \/ H2cSend \/ Answer \/ ForeignFrame
  BY <1>4, C2hStorePreserves, H2cSendPreserves, NetworkPreserves
<1>. QED  BY <1>1, <1>2, <1>3, <1>4 DEF AppNext

-----------------------------------------------------------------------------
(***************************************************************************)
(* The invariant holds throughout.                                         *)
(***************************************************************************)
LEMMA AppInvariant == AppSpec => []AppInv
<1>1. AppInit => AppInv
  BY InitAppInv
<1>2. AppInv /\ [AppNext]_appVars => AppInv'
  BY AppInductive
<1>. QED  BY <1>1, <1>2, PTL DEF AppSpec

(***************************************************************************)
(* The application is well typed; in particular no burst is as long as the *)
(* array it comes from.                                                    *)
(***************************************************************************)
THEOREM AppTyped == AppSpec => []AppTypeOK
<1>1. AppInv => AppTypeOK
  BY DEF AppInv
<1>. QED  BY <1>1, AppInvariant, PTL

(***************************************************************************)
(* What switch_start prints is of this run and complete if nothing but     *)
(* answers to packets of this run has been counted, for any number of      *)
(* packets, any width of a register, in both builds, and whatever an       *)
(* earlier run has left in the registers and under way.                    *)
(***************************************************************************)
THEOREM AppResults == AppSpec => []ResultsOfThisRun
<1>1. ASSUME AppInv  PROVE ResultsOfThisRun
  <2>. SUFFICES ASSUME swpc = "report", counted \subseteq own
                PROVE  /\ recv_count = PktNum /\ result = PktNum
                       /\ Cardinality(counted) = PktNum
    BY DEF ResultsOfThisRun
  <2>1. rx_done /\ recv_count = PktNum /\ result = PktNum
    BY <1>1 DEF AppInv, ReadInv
  <2>2. Cardinality(counted) = PktNum
    BY <1>1, <2>1 DEF AppInv, CounterInv, Cleared, Measuring
  <2>. QED  BY <2>1, <2>2
<1>. QED  BY <1>1, AppInvariant, PTL

(***************************************************************************)
(* In a debug build frames from the NIC reach the FPGA in order and each   *)
(* once, frames of others among them, although the index into the array    *)
(* never moves.                                                            *)
(***************************************************************************)
THEOREM AppNicFifo ==
    ASSUME AppBuild = "debug"  PROVE AppSpec => NicToFpgaIsFifo
<1>1. AppInit => FromNicFifo!FifoInit
  BY DEF AppInit, FromNicFifo!FifoInit
<1>2. ASSUME AppBuild = "debug", AppInv, [AppNext]_appVars
      PROVE  [FromNicFifo!FifoNext]_(FromNicFifo!fifoVars)
  <2>0. /\ Len(fpga_in) \in Nat /\ nic_taken \in Nat /\ nic_in \in Nat
        /\ nic_taken <= nic_in /\ PktNum \in Nat /\ MaxStray \in Nat
        /\ ArraySize \in Nat /\ PktNum + MaxStray < ArraySize
    BY <1>2, TypeFacts DEF AppInv
  <2>1. CASE H2cSend
    <3>1. /\ fpga_in' = Append(fpga_in, Len(fpga_in) + 1)
          /\ Len(fpga_in) < nic_taken
      BY <1>2, <2>1, H2cSendNext
    <3>2. nic_in' = nic_in
      BY <2>1 DEF H2cSend, SendToFpga, nic
    <3>3. FromNicFifo!Give
      BY <2>0, <3>1, <3>2 DEF FromNicFifo!Give
    <3>. QED  BY <3>3 DEF FromNicFifo!FifoNext
  <2>2. CASE Answer \/ ForeignFrame
    <3>1. AppInv'
      BY <1>2, <2>2, NetworkPreserves
    <3>2. fpga_in' = fpga_in /\ (nic_in' = nic_in + 1 \/ nic_in' = nic_in)
      BY <2>2 DEF Answer, ForeignFrame, xdma
    <3>3. nic_in' \in 0 .. PktNum + MaxStray
      BY <3>1 DEF AppInv, AppTypeOK
    <3>4. nic_in' - Len(fpga_in) <= ArraySize /\ 1 \in 1 .. ArraySize
      BY <2>0, <3>3
    <3>5. CASE nic_in' = nic_in + 1
      <4>1. nic_in + 1 - Len(fpga_in) <= ArraySize
        BY <2>0, <3>3, <3>5
      <4>2. FromNicFifo!Take(1)
        BY <3>2, <3>5, <4>1 DEF FromNicFifo!Take
      <4>3. \E k \in 1 .. ArraySize : FromNicFifo!Take(k)
        BY <3>4, <4>2
      <4>. QED  BY <4>3 DEF FromNicFifo!FifoNext
    <3>6. CASE nic_in' = nic_in
      BY <3>2, <3>6 DEF FromNicFifo!fifoVars
    <3>. QED  BY <3>2, <3>5, <3>6
  <2>3. CASE fpga_to_fpga
    BY <2>3
    DEF fpga_to_fpga, Awake, TestEnd, Recv, RecvFromFpga, RecvFromNic,
        SendToNic, SendToFpgaReturn, xdma, nic, FromNicFifo!fifoVars
  <2>4. CASE UNCHANGED interVars \/ C2hStore
    BY <2>4 DEF C2hStore, interVars, xdma, nic, FromNicFifo!fifoVars
  <2>. QED  BY <1>2, <2>1, <2>2, <2>3, <2>4 DEF AppNext, Barrier, appVars
<1>3. ASSUME AppBuild = "debug"
      PROVE  AppInv /\ [AppNext]_appVars =>
                [FromNicFifo!FifoNext]_(FromNicFifo!fifoVars)
  BY <1>2, <1>3
<1>. QED  BY <1>1, <1>3, AppInvariant, PTL
          DEF AppSpec, NicToFpgaIsFifo, FromNicFifo!FifoSpec

-----------------------------------------------------------------------------
(***************************************************************************)
(* The application keeps to the barrier: its steps are steps of the        *)
(* barrier or leave the barrier alone, so that every theorem of            *)
(* StartBarrierProofs holds of it.                                         *)
(***************************************************************************)
THEOREM AppKeepsBarrier == AppSpec => Spec
<1>1. AppInit => Init
  BY DEF AppInit
<1>2. [AppNext]_appVars => [Next]_vars
  BY DEF AppNext, Barrier, switch_start, fpga_to_fpga, Generate,
         GenerateEarly, C2hStore, H2cSend, Answer, ForeignFrame, appVars
<1>. QED  BY <1>1, <1>2, PTL DEF AppSpec, Spec

(***************************************************************************)
(* In particular the barrier's variables keep their types ...              *)
(***************************************************************************)
THEOREM AppBarrierTyped == AppSpec => []TypeOK
BY AppKeepsBarrier, BarrierTyped, PTL

(***************************************************************************)
(* ... and switch_start touches the FPGA only after both threads are       *)
(* there.                                                                  *)
(***************************************************************************)
THEOREM AppStartsAfterReady == AppSpec => []StartAfterReady
BY AppKeepsBarrier, BarrierSafe, PTL

-----------------------------------------------------------------------------
(***************************************************************************)
(* What the counts of the threads are worth.  Each ends when its count is  *)
(* exactly pkt_num, so the questions are whether the count can be stepped  *)
(* over, whether a thread that is short of it still has something to       *)
(* receive, and what has been sent when it is reached.                     *)
(***************************************************************************)

\* The counts are the packets that the transmit calls have reported; in a debug
\* build frames reach the FPGA in order.
XmitInv ==
    /\ xmit_pkts[FromFpga] = Len(nic_out)
    /\ xmit_pkts[FromNic] + (IF fpc[FromNic] = "send" THEN ret[FromNic] ELSE 0)
          = nic_taken
    /\ \A w \in Workers : fpc[w] = "end" => xmit_pkts[w] = PktNum
    /\ AppBuild = "debug" => fpga_in = [i \in 1 .. Len(fpga_in) |-> i]

\* Of the packets thread 1 has sent, those of its first burst are where they
\* belong; of the later ones each is one that has been sent before.
FirstBurstInv ==
    \E m \in 0 .. Len(nic_out) : \A k \in 1 .. Len(nic_out) :
        IF k <= m THEN nic_out[k] = k ELSE nic_out[k] < k

CountedInv == AppInv /\ XmitInv /\ FirstBurstInv

\* Thread 1 counts beyond pkt_num only by packets of an earlier run, thread 0
\* by these and by frames of others, less the answers that are lost.
CountsBounded ==
    /\ xmit_pkts[FromFpga] <= PktNum + early
    /\ xmit_pkts[FromNic] + lost <= PktNum + early + foreign

\* A thread that is short of pkt_num still has something to receive once all
\* packets have been generated, or answered.
SomethingToReceive ==
    /\ /\ fpc[FromFpga] # "send" /\ xmit_pkts[FromFpga] < PktNum
       /\ generated = PktNum
       => desc_used < early + generated
    /\ /\ fpc[FromNic] # "send" /\ xmit_pkts[FromNic] < PktNum
       /\ answered >= PktNum /\ lost <= foreign
       => nic_taken < nic_in

\* When it ends thread 0 of a debug build has forwarded the first pkt_num
\* frames; thread 1 has sent as many packets as it says.
EndsWithAll ==
    /\ AppBuild = "debug" /\ fpc[FromNic] = "end" =>
          fpga_in = [i \in 1 .. PktNum |-> i]
    /\ fpc[FromFpga] = "end" => Len(nic_out) = PktNum

\* But if these are not the packets it has received, the last one is not
\* among them.
LastPacketLost ==
    fpc[FromFpga] = "end" /\ nic_out # [i \in 1 .. PktNum |-> i] =>
        \A k \in 1 .. Len(nic_out) : nic_out[k] # PktNum

(***************************************************************************)
(* A burst appended to what thread 1 has sent keeps FirstBurstInv: it      *)
(* starts again at slot 0.                                                 *)
(***************************************************************************)
LEMMA BurstAppended ==
    ASSUME NEW s \in Seq(Nat), NEW k \in Nat,
           NEW m \in 0 .. Len(s),
           \A j \in 1 .. Len(s) : IF j <= m THEN s[j] = j ELSE s[j] < j
    PROVE  LET t == s \o [i \in 1 .. k |-> i]
           IN  \E l \in 0 .. Len(t) : \A j \in 1 .. Len(t) :
                  IF j <= l THEN t[j] = j ELSE t[j] < j
<1>. DEFINE b == [i \in 1 .. k |-> i]
            t == s \o b
<1>1. b \in Seq(Nat) /\ Len(b) = k
  OBVIOUS
<1>2. \A i \in 1 .. k : b[i] = i
  OBVIOUS
<1>3. Len(s) \in Nat /\ m \in Nat /\ m <= Len(s)
  OBVIOUS
<1>. HIDE DEF b
<1>4. /\ Len(t) = Len(s) + k
      /\ \A j \in 1 .. Len(s) : t[j] = s[j]
      /\ \A j \in Len(s) + 1 .. Len(s) + k : t[j] = b[j - Len(s)]
  <2>1. ASSUME NEW u \in Seq(Nat), NEW v \in Seq(Nat)
        PROVE  /\ Len(u \o v) = Len(u) + Len(v)
               /\ \A j \in 1 .. Len(u) : (u \o v)[j] = u[j]
    OBVIOUS
  <2>2. ASSUME NEW u \in Seq(Nat), NEW v \in Seq(Nat),
               NEW j \in Len(u) + 1 .. Len(u) + Len(v)
        PROVE  (u \o v)[j] = v[j - Len(u)]
    OBVIOUS
  <2>. QED  BY <1>1, <2>1, <2>2
<1>. HIDE DEF t
<1>5. ASSUME NEW j \in Len(s) + 1 .. Len(s) + k
      PROVE  t[j] = j - Len(s) /\ j \in Nat
  <2>1. j - Len(s) \in 1 .. k /\ j \in Nat
    BY <1>3
  <2>. QED  BY <1>2, <1>4, <2>1
<1>6. \A j \in 1 .. Len(t) :
         j \in 1 .. Len(s) \/ j \in Len(s) + 1 .. Len(s) + k
  BY <1>3, <1>4
<1>7. CASE Len(s) = 0
  <2>1. k \in 0 .. Len(t)
    BY <1>4, <1>7
  <2>2. ASSUME NEW j \in 1 .. Len(t)
        PROVE  IF j <= k THEN t[j] = j ELSE t[j] < j
    BY <1>4, <1>5, <1>6, <1>7
  <2>. QED  BY <2>1, <2>2 DEF t, b
<1>8. CASE Len(s) # 0
  <2>1. m \in 0 .. Len(t)
    BY <1>3, <1>4
  <2>2. ASSUME NEW j \in 1 .. Len(t)
        PROVE  IF j <= m THEN t[j] = j ELSE t[j] < j
    <3>1. CASE j \in 1 .. Len(s)
      BY <1>4, <3>1
    <3>2. CASE j \in Len(s) + 1 .. Len(s) + k
      <4>1. j > m /\ j - Len(s) < j
        BY <1>3, <1>8, <3>2
      <4>. QED  BY <1>3, <1>5, <3>2, <4>1
    <3>. QED  BY <1>6, <3>1, <3>2
  <2>. QED  BY <2>1, <2>2 DEF t, b
<1>. QED  BY <1>7, <1>8

(***************************************************************************)
(* Steps that leave the threads and what they have passed on alone.        *)
(***************************************************************************)
LEMMA CountsKept ==
    ASSUME CountedInv,
           UNCHANGED <<fpc, ret, xmit_pkts, nic_out, nic_taken, fpga_in>>
    PROVE  XmitInv' /\ FirstBurstInv'
BY DEF CountedInv, XmitInv, FirstBurstInv

(***************************************************************************)
(* A thread starts to forward, or ends because its count is pkt_num.       *)
(***************************************************************************)
LEMMA AwakeCounts ==
    ASSUME CountedInv, NEW w \in Workers, Awake(w) \/ TestEnd(w)
    PROVE  XmitInv' /\ FirstBurstInv'
<1>1. /\ UNCHANGED <<ret, xmit_pkts, nic_out, nic_taken, fpga_in>>
      /\ fpc[w] # "send"
      /\ \E to \in {"recv", "end"} :
            Goto(w, to) /\ (to = "end" => xmit_pkts[w] = PktNum)
  BY DEF Awake, TestEnd, AllSent, nic, xdma
<1>2. AppTypeOK /\ XmitInv /\ FirstBurstInv
  BY DEF CountedInv, AppInv
<1>3. PICK to \in {"recv", "end"} :
         Goto(w, to) /\ (to = "end" => xmit_pkts[w] = PktNum)
  BY <1>1
<1>4. fpc'[w] = to /\ \A v \in Workers : v # w => fpc'[v] = fpc[v]
  BY <1>2, <1>3, GotoFacts
<1>5. FromNic \in Workers
  BY <1>2, TypeFacts
<1>6. fpc'[FromNic] = "send" <=> fpc[FromNic] = "send"
  BY <1>1, <1>4, <1>5
<1>7. \A v \in Workers : fpc'[v] = "end" => xmit_pkts[v] = PktNum
  BY <1>2, <1>3, <1>4 DEF XmitInv
<1>. QED  BY <1>1, <1>2, <1>6, <1>7 DEF XmitInv, FirstBurstInv

(***************************************************************************)
(* A receive call returns.                                                 *)
(***************************************************************************)
LEMMA RecvCounts ==
    ASSUME CountedInv, NEW n \in 0 .. ArraySize, Recv(n)
    PROVE  XmitInv' /\ FirstBurstInv'
<1>1. AppTypeOK /\ XmitInv /\ FirstBurstInv
  BY DEF CountedInv, AppInv
<1>2. /\ FromNic \in Workers /\ FromFpga \in Workers /\ FromNic # FromFpga
      /\ ArraySize \in Nat /\ nic_taken \in Nat /\ n \in Nat
  BY <1>1, TypeFacts
<1>3. CASE RecvFromFpga(n)
  <2>1. /\ UNCHANGED <<xmit_pkts, nic_out, nic_taken, fpga_in>>
        /\ Goto(FromFpga, IF n > 0 THEN "send" ELSE "test")
        /\ ret' = [ret EXCEPT ![FromFpga] = n]
    BY <1>3 DEF RecvFromFpga, Received, nic
  <2>2. /\ fpc'[FromFpga] # "end"
        /\ \A v \in Workers : v # FromFpga => fpc'[v] = fpc[v]
    BY <1>1, <1>2, <2>1, GotoFacts
  <2>3. ret'[FromNic] = ret[FromNic]
    BY <1>1, <1>2, <2>1 DEF AppTypeOK
  <2>. QED  BY <1>1, <1>2, <2>1, <2>2, <2>3 DEF XmitInv, FirstBurstInv
<1>4. CASE RecvFromNic(n)
  <2>1. /\ UNCHANGED <<xmit_pkts, nic_out, fpga_in>>
        /\ nic_taken' = nic_taken + n /\ fpc[FromNic] = "recv"
        /\ Goto(FromNic, IF n > 0 THEN "send" ELSE "test")
        /\ ret' = [ret EXCEPT ![FromNic] = n]
    BY <1>4 DEF RecvFromNic, Received, xdma
  <2>2. /\ fpc'[FromNic] = (IF n > 0 THEN "send" ELSE "test")
        /\ \A v \in Workers : v # FromNic => fpc'[v] = fpc[v]
    BY <1>1, <1>2, <2>1, GotoFacts
  <2>3. ret'[FromNic] = n
    BY <1>1, <1>2, <2>1 DEF AppTypeOK
  <2>4. xmit_pkts[FromNic] = nic_taken
    BY <1>1, <2>1, TypeFacts DEF XmitInv, AppTypeOK
  <2>5. xmit_pkts[FromNic]
           + (IF fpc'[FromNic] = "send" THEN ret'[FromNic] ELSE 0)
           = nic_taken'
    BY <1>2, <2>1, <2>2, <2>3, <2>4
  <2>6. \A v \in Workers : fpc'[v] = "end" => xmit_pkts[v] = PktNum
    BY <1>1, <2>2 DEF XmitInv
  <2>. QED  BY <1>1, <2>1, <2>5, <2>6 DEF XmitInv, FirstBurstInv
<1>. QED  BY <1>3, <1>4 DEF Recv

(***************************************************************************)
(* Thread 1 sends a burst, from the start of its array.                    *)
(***************************************************************************)
LEMMA SendToNicCounts ==
    ASSUME CountedInv, SendToNic
    PROVE  XmitInv' /\ FirstBurstInv'
<1>. DEFINE k == ret[FromFpga]
<1>1. AppTypeOK /\ OutboundInv /\ XmitInv /\ FirstBurstInv
  BY DEF CountedInv, AppInv
<1>2. /\ FromNic \in Workers /\ FromFpga \in Workers /\ FromNic # FromFpga
      /\ k \in Nat /\ Len(nic_out) \in Nat
      /\ landed \in Nat /\ desc_used \in Nat /\ desc_used <= landed
  BY <1>1, TypeFacts
<1>3. /\ fpc[FromFpga] = "send"
      /\ nic_out' = nic_out \o
            [i \in 1 .. k |-> C2hSlot(SendFrom(FromFpga) + i - 1)]
      /\ xmit_pkts' = [xmit_pkts EXCEPT ![FromFpga] = xmit_pkts[FromFpga] + k]
      /\ Goto(FromFpga, "test")
      /\ UNCHANGED <<ret, nic_taken, fpga_in>>
  BY DEF SendToNic, Sent, Counted, xdma
<1>4. k <= landed
  BY <1>1, <1>2, <1>3 DEF OutboundInv
<1>5. nic_out' = nic_out \o [i \in 1 .. k |-> i]
  <2>1. ASSUME NEW i \in 1 .. k
        PROVE  C2hSlot(SendFrom(FromFpga) + i - 1) = i
    <3>1. 0 + i - 1 = i - 1 /\ i - 1 < landed /\ i - 1 + 1 = i
      BY <1>2, <1>4
    <3>. QED  BY <3>1 DEF C2hSlot, SendFrom
  <2>2. [i \in 1 .. k |-> C2hSlot(SendFrom(FromFpga) + i - 1)]
           = [i \in 1 .. k |-> i]
    BY <2>1
  <2>. QED  BY <1>3, <2>2
<1>6. nic_out \in Seq(Nat)
  <2>1. nic_out \in Seq(1 .. landed)
    BY <1>1 DEF AppTypeOK
  <2>2. 1 .. landed \subseteq Nat
    BY <1>2
  <2>3. \A S, T : S \subseteq T => Seq(S) \subseteq Seq(T)
    OBVIOUS
  <2>. QED  BY <2>1, <2>2, <2>3
<1>7. FirstBurstInv'
  <2>1. PICK m \in 0 .. Len(nic_out) : \A j \in 1 .. Len(nic_out) :
           IF j <= m THEN nic_out[j] = j ELSE nic_out[j] < j
    BY <1>1 DEF FirstBurstInv
  <2>. HIDE DEF k
  <2>2. LET t == nic_out \o [i \in 1 .. k |-> i]
        IN  \E l \in 0 .. Len(t) : \A j \in 1 .. Len(t) :
               IF j <= l THEN t[j] = j ELSE t[j] < j
    BY <1>2, <1>6, <2>1, BurstAppended
  <2>. QED  BY <1>5, <2>2 DEF FirstBurstInv
<1>8. Len(nic_out') = Len(nic_out) + k
  <2>1. \A n \in Nat : /\ [i \in 1 .. n |-> i] \in Seq(Nat)
                       /\ Len([i \in 1 .. n |-> i]) = n
    OBVIOUS
  <2>2. \A s, t \in Seq(Nat) : Len(s \o t) = Len(s) + Len(t)
    OBVIOUS
  <2>. HIDE DEF k
  <2>. QED  BY <1>2, <1>5, <1>6, <2>1, <2>2
<1>9. /\ fpc'[FromFpga] = "test"
      /\ \A v \in Workers : v # FromFpga => fpc'[v] = fpc[v]
  BY <1>1, <1>2, <1>3, GotoFacts
<1>10. /\ xmit_pkts'[FromFpga] = xmit_pkts[FromFpga] + k
       /\ \A v \in Workers : v # FromFpga => xmit_pkts'[v] = xmit_pkts[v]
  BY <1>1, <1>2, <1>3 DEF AppTypeOK
<1>11. \A v \in Workers : fpc'[v] = "end" => xmit_pkts'[v] = PktNum
  BY <1>1, <1>9, <1>10 DEF XmitInv
<1>. HIDE DEF k
<1>12. xmit_pkts'[FromFpga] = Len(nic_out')
  BY <1>1, <1>8, <1>10 DEF XmitInv
<1>13. /\ xmit_pkts'[FromNic] = xmit_pkts[FromNic]
       /\ fpc'[FromNic] = fpc[FromNic]
  BY <1>2, <1>9, <1>10
<1>. QED  BY <1>1, <1>3, <1>7, <1>11, <1>12, <1>13 DEF XmitInv

(***************************************************************************)
(* A transmit call on the XDMA port returns and the burst is counted.      *)
(***************************************************************************)
LEMMA SendReturnCounts ==
    ASSUME CountedInv, SendToFpgaReturn
    PROVE  XmitInv' /\ FirstBurstInv'
<1>1. AppTypeOK /\ XmitInv /\ FirstBurstInv
  BY DEF CountedInv, AppInv
<1>2. /\ FromNic \in Workers /\ FromFpga \in Workers /\ FromNic # FromFpga
      /\ ret[FromNic] \in Nat /\ nic_taken \in Nat
  BY <1>1, TypeFacts
<1>3. /\ fpc[FromNic] = "send"
      /\ xmit_pkts' = [xmit_pkts EXCEPT ![FromNic] =
                          xmit_pkts[FromNic] + ret[FromNic]]
      /\ Goto(FromNic, "test")
      /\ UNCHANGED <<ret, nic_out, nic_taken, fpga_in>>
  BY DEF SendToFpgaReturn, Sent, Counted, nic
<1>4. /\ fpc'[FromNic] = "test"
      /\ \A v \in Workers : v # FromNic => fpc'[v] = fpc[v]
  BY <1>1, <1>2, <1>3, GotoFacts
<1>5. /\ xmit_pkts'[FromNic] = xmit_pkts[FromNic] + ret[FromNic]
      /\ \A v \in Workers : v # FromNic => xmit_pkts'[v] = xmit_pkts[v]
      /\ xmit_pkts'[FromNic] \in Nat
  BY <1>1, <1>2, <1>3 DEF AppTypeOK
<1>6. xmit_pkts'[FromNic] + 0 = nic_taken
  <2>1. xmit_pkts[FromNic] + ret[FromNic] = nic_taken
    BY <1>1, <1>3 DEF XmitInv
  <2>. QED  BY <1>2, <1>5, <2>1
<1>7. \A v \in Workers : fpc'[v] = "end" => xmit_pkts'[v] = PktNum
  BY <1>1, <1>4, <1>5 DEF XmitInv
<1>8. xmit_pkts'[FromFpga] = Len(nic_out)
  BY <1>1, <1>2, <1>5 DEF XmitInv
<1>. QED  BY <1>1, <1>3, <1>4, <1>6, <1>7, <1>8 DEF XmitInv, FirstBurstInv

(***************************************************************************)
(* The H2C engine sends the next frame.                                    *)
(***************************************************************************)
LEMMA H2cSendCounts ==
    ASSUME CountedInv, H2cSend
    PROVE  XmitInv' /\ FirstBurstInv'
<1>1. AppInv /\ XmitInv /\ FirstBurstInv
  BY DEF CountedInv
<1>2. UNCHANGED <<fpc, ret, xmit_pkts, nic_out, nic_taken>>
  BY DEF H2cSend, SendToFpga, threads, nic
<1>3. ASSUME AppBuild = "debug"
      PROVE  fpga_in' = [i \in 1 .. Len(fpga_in') |-> i]
  <2>1. fpga_in' = Append(fpga_in, Len(fpga_in) + 1)
    BY <1>1, <1>3, H2cSendNext
  <2>2. fpga_in = [i \in 1 .. Len(fpga_in) |-> i] /\ Len(fpga_in) \in Nat
    BY <1>1, <1>3, TypeFacts DEF XmitInv, AppInv
  <2>3. \A n \in Nat : Append([i \in 1 .. n |-> i], n + 1) =
                          [i \in 1 .. n + 1 |-> i]
    OBVIOUS
  <2>4. fpga_in' = [i \in 1 .. Len(fpga_in) + 1 |-> i]
    BY <2>1, <2>2, <2>3
  <2>5. \A n \in Nat : Len([i \in 1 .. n |-> i]) = n
    OBVIOUS
  <2>6. Len(fpga_in') = Len(fpga_in) + 1
    BY <2>2, <2>4, <2>5
  <2>. QED  BY <2>4, <2>6
<1>. QED  BY <1>1, <1>2, <1>3 DEF XmitInv, FirstBurstInv

(***************************************************************************)
(* The counts are right throughout.                                        *)
(***************************************************************************)
LEMMA CountedInvariant == AppSpec => []CountedInv
<1>1. ASSUME AppInit  PROVE CountedInv
  <2>1. AppInv
    BY <1>1, InitAppInv
  <2>2. /\ FromNic \in Workers /\ FromFpga \in Workers
        /\ fpc[FromNic] = "sleep" /\ \A w \in Workers : fpc[w] = "sleep"
        /\ xmit_pkts[FromNic] = 0 /\ xmit_pkts[FromFpga] = 0
        /\ nic_taken = 0 /\ nic_out = <<>> /\ fpga_in = <<>>
    BY <1>1, InterAssumption DEF AppInit, FromNic, FromFpga
  <2>3. XmitInv
    BY <2>2 DEF XmitInv
  <2>4. FirstBurstInv
    BY <2>2 DEF FirstBurstInv
  <2>. QED  BY <2>1, <2>3, <2>4 DEF CountedInv
<1>2. ASSUME CountedInv, [AppNext]_appVars  PROVE CountedInv'
  <2>1. AppInv'
    BY <1>2, AppInductive DEF CountedInv
  <2>2. CASE fpga_to_fpga
    <3>1. \/ \E w \in Workers : Awake(w) \/ TestEnd(w)
          \/ \E n \in 0 .. ArraySize : Recv(n)
          \/ SendToNic \/ SendToFpgaReturn
      BY <2>2 DEF fpga_to_fpga
    <3>2. XmitInv' /\ FirstBurstInv'
      BY <1>2, <3>1, AwakeCounts, RecvCounts, SendToNicCounts,
         SendReturnCounts
    <3>. QED  BY <2>1, <3>2 DEF CountedInv
  <2>3. CASE H2cSend
    BY <1>2, <2>1, <2>3, H2cSendCounts DEF CountedInv
  <2>4. CASE UNCHANGED interVars \/ C2hStore \/ Answer \/ ForeignFrame
    <3>1. UNCHANGED <<fpc, ret, xmit_pkts, nic_out, nic_taken, fpga_in>>
      BY <2>4
      DEF interVars, threads, xdma, nic, C2hStore, Answer, ForeignFrame
    <3>. QED  BY <1>2, <2>1, <3>1, CountsKept DEF CountedInv
  <2>5. \/ fpga_to_fpga \/ H2cSend \/ UNCHANGED interVars
        \/ C2hStore \/ Answer \/ ForeignFrame
    BY <1>2 DEF AppNext, Barrier, appVars
  <2>. QED  BY <2>2, <2>3, <2>4, <2>5
<1>. QED  BY <1>1, <1>2, PTL DEF AppSpec

(***************************************************************************)
(* The exact comparison of testapp_inter.c with pkt_num is stepped over by *)
(* thread 0 only, and by no more than the frames of others that have come  *)
(* in: the safety half of ThreadsEnd.                                      *)
(***************************************************************************)
THEOREM AppCountsBounded == AppSpec => []CountsBounded
<1>1. ASSUME CountedInv  PROVE CountsBounded
  <2>1. AppInv /\ AppTypeOK /\ XmitInv
    BY <1>1 DEF CountedInv, AppInv
  <2>2. /\ PktNum \in Nat /\ landed \in Nat /\ desc_used \in Nat
        /\ nic_in \in Nat /\ nic_taken \in Nat /\ ret[FromNic] \in Nat
        /\ foreign \in Nat /\ lost \in Nat
        /\ Len(nic_out) \in Nat /\ generated \in Nat
        /\ FromNic \in Workers /\ desc_used <= landed
        /\ nic_taken <= nic_in
        /\ early \in Nat /\ landed <= early + PktNum
    BY <2>1, TypeFacts
  <2>3. xmit_pkts[FromNic] \in Nat
    BY <2>1, <2>2 DEF AppTypeOK
  <2>4. /\ Len(nic_out) <= desc_used
        /\ nic_in + lost <= Len(nic_out) + foreign
    BY <2>1, Bounds
  <2>5. xmit_pkts[FromFpga] = Len(nic_out) /\ xmit_pkts[FromNic] <= nic_taken
    <3>1. xmit_pkts[FromNic]
             + (IF fpc[FromNic] = "send" THEN ret[FromNic] ELSE 0) = nic_taken
      BY <2>1 DEF XmitInv
    <3>2. xmit_pkts[FromNic] <= nic_taken
      BY <2>2, <2>3, <3>1
    <3>. QED  BY <2>1, <3>2 DEF XmitInv
  <2>6. Len(nic_out) <= PktNum + early
    BY <2>2, <2>4
  <2>7. xmit_pkts[FromNic] <= nic_in
    BY <2>2, <2>3, <2>4, <2>5
  <2>8. xmit_pkts[FromNic] + lost <= PktNum + early + foreign
    BY <2>2, <2>3, <2>4, <2>6, <2>7
  <2>. QED  BY <2>5, <2>6, <2>8 DEF CountsBounded
<1>. QED  BY <1>1, CountedInvariant, PTL

(***************************************************************************)
(* A thread that is short of pkt_num is not waiting for a packet that      *)
(* never comes, unless answers are lost: the packets left are in the       *)
(* receive ring, where Delivery of XdmaRx applies.                         *)
(***************************************************************************)
THEOREM AppSomethingToReceive == AppSpec => []SomethingToReceive
<1>1. ASSUME CountedInv  PROVE SomethingToReceive
  <2>1. AppTypeOK /\ XmitInv /\ OutboundInv /\ NetworkInv
    BY <1>1 DEF CountedInv, AppInv
  <2>2. /\ PktNum \in Nat /\ desc_used \in Nat /\ Len(nic_out) \in Nat
        /\ nic_in \in Nat /\ nic_taken \in Nat /\ foreign \in Nat
        /\ lost \in Nat /\ answered \in Nat /\ FromNic \in Workers
        /\ early \in Nat
    BY <2>1, TypeFacts
  <2>3. ASSUME fpc[FromFpga] # "send", xmit_pkts[FromFpga] < PktNum,
               generated = PktNum
        PROVE  desc_used < early + generated
    <3>1. Len(nic_out) = desc_used
      BY <2>1, <2>2, <2>3 DEF OutboundInv, Unsent
    <3>2. desc_used < PktNum
      BY <2>1, <2>3, <3>1 DEF XmitInv
    <3>. QED  BY <2>2, <2>3, <3>2
  <2>4. ASSUME fpc[FromNic] # "send", xmit_pkts[FromNic] < PktNum,
               answered >= PktNum, lost <= foreign
        PROVE  nic_taken < nic_in
    <3>1. xmit_pkts[FromNic] \in Nat
      BY <2>1, <2>2 DEF AppTypeOK
    <3>2. xmit_pkts[FromNic] = nic_taken
      BY <2>1, <2>4, <3>1 DEF XmitInv
    <3>3. nic_in = answered - lost + foreign
      BY <2>1, <2>4 DEF NetworkInv
    <3>. QED  BY <2>2, <2>4, <3>2, <3>3
  <2>. QED  BY <2>3, <2>4 DEF SomethingToReceive
<1>. QED  BY <1>1, CountedInvariant, PTL

(***************************************************************************)
(* A thread that has ended has sent pkt_num packets, and thread 0 of a     *)
(* debug build the right ones: what holds of "All packets is completed".   *)
(***************************************************************************)
THEOREM AppEndsWithAll == AppSpec => []EndsWithAll
<1>1. ASSUME CountedInv  PROVE EndsWithAll
  <2>1. AppTypeOK /\ XmitInv
    BY <1>1 DEF CountedInv, AppInv
  <2>2. FromNic \in Workers /\ FromFpga \in Workers
    BY <2>1, TypeFacts
  <2>3. fpc[FromFpga] = "end" => Len(nic_out) = PktNum
    BY <2>1, <2>2 DEF XmitInv
  <2>4. ASSUME AppBuild = "debug", fpc[FromNic] = "end"
        PROVE  Len(fpga_in) = PktNum
    <3>1. /\ xmit_pkts[FromNic] = PktNum /\ PktNum \in Nat
          /\ Len(fpga_in) \in Nat /\ nic_taken \in Nat
      BY <2>1, <2>2, <2>4, TypeFacts DEF XmitInv
    <3>2. nic_taken = PktNum
      BY <2>1, <2>4, <3>1 DEF XmitInv
    <3>3. Len(fpga_in) + Unsent(FromNic) = nic_taken
      BY <1>1, <2>4 DEF CountedInv, AppInv, AllSentInv
    <3>. QED  BY <2>4, <3>1, <3>2, <3>3 DEF Unsent
  <2>. QED  BY <2>1, <2>3, <2>4 DEF XmitInv, EndsWithAll
<1>. QED  BY <1>1, CountedInvariant, PTL

(***************************************************************************)
(* When thread 1 prints "All packets is completed" although packets have   *)
(* been sent twice, which the run inter_split_batch shows to happen, the   *)
(* last packet has not been sent at all, for any number of packets and     *)
(* however they are split into bursts.                                     *)
(***************************************************************************)
THEOREM AppLastPacketLost == AppSpec => []LastPacketLost
<1>1. ASSUME CountedInv, fpc[FromFpga] = "end",
             NEW k \in 1 .. Len(nic_out), nic_out[k] = PktNum
      PROVE  nic_out = [i \in 1 .. PktNum |-> i]
  <2>1. AppTypeOK /\ XmitInv /\ FirstBurstInv
    BY <1>1 DEF CountedInv, AppInv
  <2>2. Len(nic_out) = PktNum
    BY <1>1, <2>1, TypeFacts DEF XmitInv
  <2>3. PktNum \in Nat /\ k \in Nat /\ 1 <= k /\ k <= PktNum
    BY <1>1, <2>2, ChannelAssumption
  <2>4. PICK m \in 0 .. Len(nic_out) : \A j \in 1 .. Len(nic_out) :
           IF j <= m THEN nic_out[j] = j ELSE nic_out[j] < j
    BY <2>1 DEF FirstBurstInv
  <2>5. m \in Nat
    OBVIOUS
  <2>6. k = PktNum /\ k <= m
    BY <1>1, <2>3, <2>4, <2>5
  <2>7. \A j \in 1 .. PktNum : nic_out[j] = j
    BY <2>2, <2>3, <2>4, <2>5, <2>6
  <2>8. nic_out \in Seq(1 .. landed)
    BY <2>1 DEF AppTypeOK
  <2>9. nic_out = [i \in 1 .. Len(nic_out) |-> nic_out[i]]
    BY <2>8
  <2>. QED  BY <2>2, <2>7, <2>9
<1>2. CountedInv => LastPacketLost
  BY <1>1 DEF LastPacketLost
<1>. QED  BY <1>2, CountedInvariant, PTL

-----------------------------------------------------------------------------
(***************************************************************************)
(* switch_start past the barrier.                                          *)
(***************************************************************************)

\* Steps of switch_start from where it is, polls that miss apart.
SwitchRank ==
    CASE swpc = "reset" -> 9 [] swpc = "release" -> 8
      [] swpc = "clear" -> 7 [] swpc = "configure" -> 6
      [] swpc = "start" -> 5 [] swpc = "poll" -> 4
      [] swpc = "count" -> 3 [] swpc = "hi" -> 2
      [] swpc = "lo" -> 1 [] OTHER -> 0

\* Register accesses left, and polls until the time limit.
SwitchStepsLeft == (MaxPolls - polls) + SwitchRank

\* Every step of switch_start brings its end nearer.
SwitchShrinks ==
    [][switch_start => /\ SwitchStepsLeft \in Nat /\ SwitchStepsLeft' \in Nat
                       /\ SwitchStepsLeft' < SwitchStepsLeft]_appVars

(***************************************************************************)
(* Whether packets come back or not, switch_start ends after at most       *)
(* MaxPolls + 9 steps past the barrier: the safety half of SwitchEnds.     *)
(***************************************************************************)
THEOREM AppSwitchShrinks == AppSpec => SwitchShrinks
<1>1. ASSUME AppTypeOK, AppTypeOK', switch_start
      PROVE  /\ SwitchStepsLeft \in Nat /\ SwitchStepsLeft' \in Nat
             /\ SwitchStepsLeft' < SwitchStepsLeft
  <2>. DEFINE d == MaxPolls - polls
              e == MaxPolls - polls'
  <2>1. d \in Nat /\ e \in Nat
    <3>1. polls \in 0 .. MaxPolls /\ polls' \in 0 .. MaxPolls
      BY <1>1 DEF AppTypeOK, ChannelTypeOK
    <3>2. MaxPolls \in Nat
      BY ChannelAssumption
    <3>. HIDE DEF AppTypeOK
    <3>3. \A p \in 0 .. MaxPolls : MaxPolls - p \in Nat
      BY <3>2
    <3>. QED  BY <3>1, <3>3
  <2>2. CASE WaitAgain
    <3>1. swpc = "poll" /\ swpc' = "poll" /\ polls' = polls + 1
      BY <2>2 DEF WaitAgain, SwitchStep
    <3>2. e = d - 1
      <4>1. polls \in 0 .. MaxPolls
        BY <1>1 DEF AppTypeOK, ChannelTypeOK
      <4>. QED  BY <3>1, <4>1, ChannelAssumption
    <3>3. SwitchStepsLeft = d + 4 /\ SwitchStepsLeft' = e + 4
      BY <3>1 DEF SwitchStepsLeft, SwitchRank
    <3>. QED  BY <2>1, <3>2, <3>3
  <2>3. CASE ~WaitAgain
    <3>1. /\ polls' = polls
          /\ \/ swpc = "reset" /\ swpc' = "release"
             \/ swpc = "release" /\ swpc' = "clear"
             \/ swpc = "clear" /\ swpc' = "configure"
             \/ swpc = "configure" /\ swpc' = "start"
             \/ swpc = "start" /\ swpc' = "poll"
             \/ swpc = "poll" /\ swpc' \in {"count", "failed"}
             \/ swpc = "count" /\ swpc' = "hi"
             \/ swpc = "hi" /\ swpc' = "lo"
             \/ swpc = "lo" /\ swpc' = "report"
      BY <1>1, <2>3
      DEF switch_start, InitReset, InitRelease, clear_accum,
          configure_channel, start_channel, WaitDone, WaitTimeout,
          read_recvcount, ReadHi, ReadLo, SwitchStep
    <3>2. SwitchRank \in Nat /\ SwitchRank' \in Nat
      BY DEF SwitchRank
    <3>3. SwitchRank' < SwitchRank
      BY <3>1 DEF SwitchRank
    <3>4. /\ SwitchStepsLeft = d + SwitchRank
          /\ SwitchStepsLeft' = d + SwitchRank'
      BY <3>1 DEF SwitchStepsLeft
    <3>. QED  BY <2>1, <3>2, <3>3, <3>4
  <2>. QED  BY <2>2, <2>3
<1>2. AppTypeOK /\ AppTypeOK' /\ [AppNext]_appVars =>
        [switch_start => /\ SwitchStepsLeft \in Nat
                         /\ SwitchStepsLeft' \in Nat
                         /\ SwitchStepsLeft' < SwitchStepsLeft]_appVars
  BY <1>1
<1>. QED  BY <1>2, AppTyped, PTL DEF AppSpec, SwitchShrinks
=============================================================================
