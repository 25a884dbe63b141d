--------------------------- MODULE LatencyChannel ---------------------------
(***************************************************************************)
(* switch_start of testapp_inter.c: once it has passed the barrier, this   *)
(* thread resets the FPGA, clears, configures and starts channel 0, polls  *)
(* rx_done for a limited time and reads the results, all through registers *)
(* of the user BAR.                                                        *)
(*                                                                         *)
(* Beside it is the channel in the FPGA (external): a generator that sends *)
(* packetnum packets to the host, and counters of what comes back.  An     *)
(* earlier run of the program can have ended anywhere, and nothing stops   *)
(* the channel at the end of a run (stop_channel has no caller): registers *)
(* keep their values, the generator may be at work and packets under way.  *)
(***************************************************************************)
EXTENDS StartBarrier

CONSTANTS PktNum,     \* pkt_num (16)
          MaxPolls,   \* polls of rx_done until the time limit has passed
          MaxStray,   \* bound: packets and frames that are not of this run
          Word        \* values of one register (2^32)

ASSUME ChannelAssumption ==
    /\ PktNum \in Nat \ {0}
    /\ MaxPolls \in Nat /\ MaxStray \in Nat
    /\ Word \in Nat /\ Word >= 2

VARIABLES
    swpc,         \* where switch_start is, once past the barrier
    polls,        \* polls of rx_done that missed
    recv_count,   \* the count it has read
    ret_hi,       \* first half of the accumulator it is reading
    result,       \* the accumulator it has read
    in_reset,     \* register 0x100000
    started,      \* the generator has been started
    packetnum,    \* register: packets to generate
    early,        \* packets of an earlier run, generated before the reset
    generated,    \* packets generated since the start
    rx_done,      \* register: packetnum packets have come back
    recvcount,    \* register: packets that have come back
    accum,        \* latency accumulator, two registers; one unit per packet
    counted       \* history: the frames counted since the counters' clear

switchVars == <<swpc, polls, recv_count, ret_hi, result>>
generator == <<in_reset, started, packetnum, early, generated>>
counters == <<rx_done, recvcount, accum, counted>>
channelVars == <<switchVars, generator, counters>>

ChannelTypeOK ==
    /\ swpc \in {"reset", "release", "clear", "configure", "start", "poll",
                 "count", "hi", "lo", "report", "failed"}
    /\ polls \in 0 .. MaxPolls
    /\ recv_count \in Nat /\ ret_hi \in Nat /\ result \in Nat
    /\ in_reset \in BOOLEAN /\ started \in BOOLEAN
    /\ packetnum \in 0 .. PktNum
    /\ early \in 0 .. MaxStray
    /\ generated \in 0 .. PktNum
    /\ rx_done \in BOOLEAN
    /\ recvcount \in Nat /\ accum \in Nat
    /\ counted \subseteq Nat \ {0}

\* What an earlier run has left, whether it had its results, was given up
\* (RX_DONE timeout) or was killed: any part of its packets counted, the
\* generator stopped or at work, packets in front of the C2H engine.  (A count
\* above packetnum, by frames of others, sets rx_done like packetnum itself;
\* and in a run that was killed in the reset the FPGA is as InitReset leaves
\* it anyway.)
ChannelInit ==
    /\ swpc = "reset" /\ polls = 0
    /\ recv_count = 0 /\ ret_hi = 0 /\ result = 0
    /\ in_reset = FALSE /\ started \in BOOLEAN
    /\ packetnum \in {0, PktNum}
    /\ early \in 0 .. MaxStray /\ generated = 0
    /\ recvcount \in 0 .. packetnum
    /\ rx_done = (recvcount = PktNum)
    /\ accum = recvcount
    /\ counted = {}

-----------------------------------------------------------------------------
(* switch_start.  Each register access is a step of its own.                *)

SwitchStep(from, to) ==
    /\ spc = "run"
    /\ swpc = from
    /\ swpc' = to

\* init writes 1 to 0x100000, which stops the generator ...
InitReset ==
    /\ SwitchStep("reset", "release")
    /\ in_reset' = TRUE
    /\ started' = FALSE
    /\ UNCHANGED <<polls, recv_count, ret_hi, result, packetnum, early,
                   generated, counters>>

\* ... and 0 after a second.
InitRelease ==
    /\ SwitchStep("release", "clear")
    /\ in_reset' = FALSE
    /\ UNCHANGED <<polls, recv_count, ret_hi, result, started, packetnum,
                   early, generated, counters>>

\* Wrong variant: nothing is cleared.
ClearNothing ==
    /\ SwitchStep("clear", "configure")
    /\ UNCHANGED <<polls, recv_count, ret_hi, result, generator, counters>>

clear_accum ==
    /\ SwitchStep("clear", "configure")
    /\ rx_done' = FALSE
    /\ recvcount' = 0
    /\ accum' = 0
    /\ counted' = {}
    /\ UNCHANGED <<polls, recv_count, ret_hi, result, generator>>

\* Five writes to registers that a channel that is not started does not use;
\* mode, interval, exp_lambda and seed only shape the traffic.
configure_channel ==
    /\ SwitchStep("configure", "start")
    /\ packetnum' = PktNum
    /\ UNCHANGED <<polls, recv_count, ret_hi, result, in_reset, started,
                   early, generated, counters>>

start_channel ==
    /\ SwitchStep("start", "poll")
    /\ started' = TRUE
    /\ UNCHANGED <<polls, recv_count, ret_hi, result, in_reset, packetnum,
                   early, generated, counters>>

\* Wrong variant: reg_done, which says that all packets have been generated.
GenerationDone == generated = packetnum

RxDone == rx_done

\* wait_rx_done returns true ...
WaitDone ==
    /\ SwitchStep("poll", "count")
    /\ RxDone
    /\ UNCHANGED <<polls, recv_count, ret_hi, result, generator, counters>>

\* ... sleeps and polls again ...
WaitAgain ==
    /\ SwitchStep("poll", "poll")
    /\ ~RxDone
    /\ polls < MaxPolls
    /\ polls' = polls + 1
    /\ UNCHANGED <<recv_count, ret_hi, result, generator, counters>>

\* Wrong variant: the time limit is not looked at.
NoTimeout == FALSE

TimedOut == polls = MaxPolls

\* ... or returns false when its time has passed.
WaitTimeout ==
    /\ SwitchStep("poll", "failed")
    /\ ~RxDone
    /\ TimedOut
    /\ UNCHANGED <<polls, recv_count, ret_hi, result, generator, counters>>

read_recvcount ==
    /\ SwitchStep("count", "hi")
    /\ recv_count' = recvcount
    /\ UNCHANGED <<polls, ret_hi, result, generator, counters>>

\* devmem_read_64 reads the upper half of an accumulator ...
ReadHi ==
    /\ SwitchStep("hi", "lo")
    /\ ret_hi' = accum \div Word
    /\ UNCHANGED <<polls, recv_count, result, generator, counters>>

\* ... and then the lower half.  The nine accumulators are alike: one stands
\* for all.  The results are printed; the channel is not stopped.
ReadLo ==
    /\ SwitchStep("lo", "report")
    /\ result' = ret_hi * Word + (accum % Word)
    /\ UNCHANGED <<polls, recv_count, ret_hi, generator, counters>>

switch_start ==
    /\ \/ InitReset \/ InitRelease \/ clear_accum \/ configure_channel
       \/ start_channel \/ WaitDone \/ WaitAgain \/ WaitTimeout
       \/ read_recvcount \/ ReadHi \/ ReadLo
    /\ UNCHANGED vars

-----------------------------------------------------------------------------
(* The channel in the FPGA (external).                                      *)

\* The generator that this run has started sends a packet ...
Generate ==
    /\ started /\ ~in_reset /\ swpc # "reset"
    /\ generated < packetnum
    /\ generated' = generated + 1
    /\ UNCHANGED <<vars, switchVars, in_reset, started, packetnum, early,
                   counters>>

\* ... and before the reset the one that an earlier run has started.
GenerateEarly ==
    /\ started /\ ~in_reset /\ swpc = "reset"
    /\ early < MaxStray
    /\ early' = early + 1
    /\ UNCHANGED <<vars, switchVars, in_reset, started, packetnum, generated,
                   counters>>

\* A frame comes back: the channel counts any.  The two registers of accum
\* change together.
CountPacket(frame) ==
    /\ recvcount' = recvcount + 1
    /\ accum' = accum + 1
    /\ rx_done' = (rx_done \/ recvcount + 1 = packetnum)
    /\ counted' = counted \cup {frame}
    /\ UNCHANGED <<switchVars, generator>>

-----------------------------------------------------------------------------
(***************************************************************************)
(* Once past the barrier switch_start ends, with results or with the       *)
(* message "RX_DONE timeout", whether or not packets come back: it is the  *)
(* only loop of this program that has a time limit.                        *)
(***************************************************************************)
SwitchEnds == (spc = "run") ~> (swpc \in {"report", "failed"})
=============================================================================
