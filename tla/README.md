# XDMA_DPDK: TLA+ models and proofs

XDMA_DPDK is a DPDK poll mode driver for the Xilinx XDMA DMA engine
(`drivers/net/xdma`) with two test applications (`examples/xdma_testapp`). This
directory holds TLA+ models of the parts of it that have state worth checking,
TLC configurations for small instances, and proofs of the most important
properties for all sizes.

Paths below are relative to the repository.

## 1. Inventory

| Part | State | Operations | Hard about it |
|---|---|---|---|
| descriptor ring (`xdma_access_common.c`, `xdma_rxtx.c`, `xdma.h`) | array of `struct xdma_desc`, `desc_used` | `xdma_desc_ring_init`, `_clear`, `get_desc`, `xdma_desc_control_set`, `xdma_desc_adjacent_set` | what a clear leaves in the ring matters only in a later run |
| receive path (`xdma_rxtx.c`, `xdma_access_common.c`) | `running`, `desc_used`, ring, count written back by hardware, one stream writeback for all descriptors | `xdma_recv_pkts`, `prepare_packets`, `xdma_rx_engine_setup/start/stop` | the hardware changes memory under the polling loop; stop has no handshake |
| transmit path (same files) | the same without a stream writeback | `xdma_xmit_pkts`, `xdma_h2c_desc_set`, `xdma_tx_engine_setup/start/stop` | a terminator has to be placed behind each burst; the wait has no limit and is subject to optimisation |
| DMA engines of the FPGA (external) | current descriptor, completed count | process a descriptor, write the count back, follow the next pointer or stop | run beside the driver |
| `fpga_to_fpga` of `testapp_count.c` | index into the mbuf array | receive a burst, send what came | its index must follow `desc_used`, which it cannot see; it sends from buffers the receive engine goes on filling |
| start barrier of `testapp_inter.c` | `ready_count`, `mutex`, `cond` | count and signal (`fpga_to_fpga`), wait (`switch_start`) | the waiting side does not hold the mutex |
| probe (`xdma_ethdev.c`, `xdma_common.c`) | BAR indices, BAR addresses, two allocations | `xdma_eth_dev_init`, `xdma_check_kvargs`, `xdma_identify_bars` | error paths; combinations of arguments and BARs |
| device life cycle (`xdma_devops.c`, `xdma_access_common.c`, `xdma_ethdev.c`, `rte_pmd_xdma.c`, `port_*` and `main` of the applications) | engines, mbuf pools, queue arrays and counts, `dev_started`, `dev_configured` | configure, queue setup, start, stop, close, remove, reset | ports share a pool; engines run on after their thread; a port is closed twice |
| poll API (`xdma_poll_rx_complete`, `xdma_poll_tx_complete`) | a copy of the engine taken at setup | poll | the copy is stale |
| `fpga_to_fpga` of `testapp_inter.c` | `pkts_buffer_idx`, `xmit_pkts` of each of two threads, one from a NIC to the FPGA and one back | receive a burst, send it, until exactly `pkt_num` packets are sent | index update commented out; the exact comparison; packets lost on the link, frames of others |
| latency measurement of `testapp_inter.c` (`switch_start`) | FPGA registers that outlive the program | reset, clear, configure, start, poll `rx_done`, read | stale registers; 64-bit values read in two parts; a time limit that races the last packet |
| UART console (`uart.c`), BAR load (`xdma_platform.c`) | none / a file offset | send, receive / copy in chunks | bounded retry / short files; no caller in the repository |

The forwarding thread calls the driver through `rte_eth_rx_burst` and
`rte_eth_tx_burst`; the driver and the FPGA share the ring, the mbufs, the
completed-descriptor count and the stream writeback, and the driver controls the
FPGA by register writes through a BAR that the probe has found. There are no
interrupts and no callbacks; each queue has one thread.

What makes each part correct: the two paths are FIFOs that lose, double and
reorder nothing; counts that are returned are true; a ring is touched only while
the hardware is not using it; a call returns; the forwarder is a FIFO from port
to port; nobody starts too early or waits for ever at the barrier; what the
measurement prints is of this run and complete; memory outlives the engines that
write to it, and the pointers that lead to it; a probe
either fails without leaving anything behind or yields BARs that are mapped and
distinct. `PROJECT.json` lists, under "hazards", the lines where these can go
wrong.

## 2. Modules

| Module | Models | Composes |
|---|---|---|
| `XdmaRing` | the ring and the functions on it, as operators | |
| `PacketFifo` | abstract: a FIFO of `Capacity` numbered packets | |
| `XdmaRx` | one C2H engine: driver and hardware | extends `XdmaRing`; implements `PacketFifo` |
| `XdmaTx` | one H2C engine: driver and hardware | extends `XdmaRing`; implements `PacketFifo` |
| `XdmaPoll` | `xdma_poll_rx_complete` between receive calls | extends `XdmaRx` |
| `Forwarder` | `fpga_to_fpga` of `testapp_count.c` | extends `XdmaRx`, an instance of `XdmaTx`; implements `PacketFifo` end to end |
| `StartBarrier` | the start barrier of `testapp_inter.c` | |
| `LatencyChannel` | the rest of `switch_start`, and the channel in the FPGA | extends `StartBarrier` |
| `InterApp` | `testapp_inter.c` at work: barrier, measurement, both forwarding threads, NIC and network | extends `LatencyChannel`; implements `PacketFifo` from NIC to FPGA |
| `DevProbe` | `xdma_eth_dev_init` and BAR identification | |
| `DevLifecycle` | the ports of both applications from `port_init` to removal, over the driver's device operations | |
| `XdmaRxProofs`, `XdmaTxProofs`, `XdmaPollProofs`, `ForwarderProofs`, `StartBarrierProofs`, `InterAppProofs`, `DevProbeProofs`, `DevLifecycleProofs` | theorems and proofs | extend the module they are named for; `XdmaPollProofs` and `ForwarderProofs` also `XdmaRxProofs`, `InterAppProofs` also `StartBarrierProofs` |
| `MC*` | one per component: the constants of the runs | |

Names are those of the source where a definition stands for one function, field
or local variable. A definition called "Wrong variant" is what a slip in the
definition after it would give; none of them is used by a specification. They
document which change of the code each property would notice.

### XdmaRing

A descriptor is its control flags, the buffer its addresses lead to (`NoBuf`
once a clear has zeroed length and addresses) and the `Nxt_adj` field. Physical
addresses, lengths and the magic number are not modelled. `desc_max` is the
constant `DescMax`. `xdma_desc_adjacent_set` ors its argument into a field of 6
bits without masking it: `AdjAssumption` limits the rings to the 64 descriptors
for which every value fits (the program's has 32), and the type invariant shows
that none is too large.

### XdmaRx

`pc` follows `xdma_recv_pkts`: entry (`RecvStart` when the engine is stopped,
`RecvResume` otherwise), first load of the writeback word (`PollRead`), the test
with the second load (`PollHit`, `PollMiss`), one packet of `prepare_packets` at
a time (`PreparePacket`, `PrepareDone`) and the two ways out (`RecvStop`,
`RecvReturn`). The hardware stores a packet and its stream writeback (`HwStore`)
and then counts it and moves on (`HwReport`), at any moment in between.

* The loads are of plain memory. A build without optimisation loads twice and
  polls `PollLimit` rounds; an optimising compiler may load once and leave after
  one round. `PollHit` does not require the second load to agree with memory,
  and `PollMiss` may leave the loop after any round, so both kinds of build are
  covered by one model.
* The caller passes the same array on every call (as both applications do), so
  a buffer is its index. A packet's length is represented by the number of the
  packet it was measured on: what matters is whose length an mbuf gets.
* `NbPkts = DescMax` is an assumption: `SIZE_OF_PKTS_BUFFER` and `XDMA_DESC_MAX`
  are both 32. `prepare_packets` takes the count as `uint16_t`; `NbPkts < 65536`
  makes that conversion harmless.
* `RecvStop` and `RecvStart` are one step each although they are several memory
  and register writes. For the start this is sound since the hardware is off
  until its last write, the control register. For the stop it is sound if the
  hardware is halted, which is `RingQuiet`, checked and proved.
* A round of `prepare_packets` reads two elements of `rx_pkts` (`ReadsAt`): the
  mbuf it prepares and, for the prefetch of `xdma_rxtx.c:322`, the one behind it.
  In the round of the last packet of a complete batch that one is past the end of
  the array. `RxPrepareInRing` proves that nothing else outside is read, and
  nothing written; what is read goes into the prefetch only.
* `LengthNotStale` says no more than its name: no mbuf gets the length of a packet
  that landed before its own. The length of a packet that landed later is
  allowed, because it is what the single stream writeback record gives when
  several packets have landed before one is prepared.
* `engine->status` is written and never read, and is left out.

### XdmaTx

`XmitEnter` is the check of `running` and the initialisation, `PostPacket` one
round of the posting loop, `XmitStart` the terminator, the adjacency fields and
the start, `XmitReturn` the end of the wait and the stop. `Build` says whether
the wait exists: the loop at `xdma_rxtx.c:219` has no effect that C knows of, and
gcc 12 at -O2 and -O3 removes it while -O0 executes it. `Build = "debug"` is the
build of README step 3. Buffers hold numbered data that the caller replaces as
soon as a call has returned.

### What is assumed of the hardware

Modelled from how the driver relies on it, since the FPGA is not in the
repository: an engine restarts at the first descriptor with count 0 when RUN goes
from 0 to 1; it handles descriptors along the next pointers; data and stream
writeback reach memory before the count (PCIe posted writes are ordered); the
count is written back for descriptors with COMPLETED; a descriptor with STOPPED
ends the run; a zero-length descriptor moves nothing and is not counted
(otherwise no transmit burst could ever match the count the driver waits for);
clearing RUN ends the run at once. Prefetching is not an action, but the extent
of what may be prefetched is checked by `PrefetchInBurst`.

### XdmaPoll

`xdma_poll_rx_complete` finds the engine through `xdma_dev->engine_c2h`, a copy
taken at its setup. The copy's `desc_used` stays 0 (`CopyDescUsed`) but its
pointer leads to the word the hardware counts in, so the poll is a reader of a
word that is counted up beside it and reset by the calls around it. One thread
makes all calls on a queue (it is a queue of DPDK), so polls do not overlap
receive calls. The steps of `XdmaRx` are taken over unchanged; its properties are
checked under `PollFairSpec` with polls in between.

### Forwarder

The thread's own program counter `fpc` around the steps of the two drivers: the
receive side's variables keep their names, the transmit side's get `t_`. The
transmit side reads its data from `mb`, the mbufs the receive side writes. The
thread may end after any round, as it does after one second. Timing and printing
are left out.

Before a burst is sent each packet is tested (`testapp_count.c:308-316`): if the
top bit of a byte is set the program ends with "Test Bit Error!" (`bit && ~bit` is
true for 1). The byte is `data_off` behind the mbuf structure, not behind its
buffer: it lies in front of the packet, nobody in `src/` writes it, and
`FwdTestBit` lets it have any value after any burst. `Forwarded` excuses the end
of the program.

### StartBarrier

Every line of the barrier is a step; `ready_count++` is a load and a store. The
mutex is its lock word: `pthread_cond_wait` without owning the mutex is undefined
behaviour, and the model has what glibc does for a default mutex, which is to
unlock it, whoever holds it. Spurious wake-ups may happen at any time.

### LatencyChannel and InterApp

`switch_start` goes on behind the barrier (`spc = "run"`), one step per register
access, and so do the two threads (`pc[w] = "forward"`). The steps of the barrier
stay those of `StartBarrier` (`Barrier(A)`); nothing is reset or skipped between
the barrier and the rest.

* The channel in the FPGA is external: a generator of `packetnum` packets and
  three counters. Nothing stops it at the end of a run (`stop_channel` has no
  caller), so `ChannelInit` has it as any earlier run may have left it, one that
  had its results, one that timed out or one that was killed: `recvcount`
  anywhere from 0 to `packetnum`, the generator stopped or at work, and packets
  under way. These packets (`early`) go round like those of this run, and
  until the reset the old generator sends more (`GenerateEarly`). One accumulator
  stands for the nine, which are read alike by `devmem_read_64`, upper half first.
* `counted` is the set of frames that the channel has counted since its counters
  were cleared, `own` the set of answers to packets of this run: `ResultsOfThisRun`
  says that the results are complete and of this run if `counted` has nothing
  but `own` in it. Packets of an earlier run that are still under way at the clear
  do count in this run; so do frames of others. The code cannot tell them apart.
* The driver's calls are taken by what the runs and proofs about it show: a
  receive call hands over packets in order, in the slots of the caller's array
  from the driver's `desc_used` on (`FifoRefinement`, `IndexInStep`), and a
  transmit call of a debug build returns when everything is sent
  (`ReturnMeansSent`). The NIC's
  driver fills the array from its start. That is the whole difference on which
  the index that never moves (`SendFrom`) is right in one direction and wrong in
  the other.
* `AppBuild` is the build of the program, as `Build` is in `XdmaTx`. In a release
  build, which is the default one (`README.md:31` and `:45`), `xdma_xmit_pkts` does
  not wait (`Waits`): `SendToFpgaReturn` may come before the frames are
  sent, and the rest of them never leaves. `NicToFpgaIsFifo` is therefore a
  property of the debug build; the run `tx_release_build` shows what the
  release build does. The other safety properties are proved for both.
* `InterAssumption`: there are fewer packets than slots of the array, so
  neither ring wraps and no mbuf is used twice. `pkt_num` is 16
  (`testapp_inter.c:33`). `SIZE_OF_PKTS_BUFFER` comes from `testapp_lat.h`, which
  is not in the repository; it is taken to be 32, as in `testapp.h:40`.
* The network may lose `MaxLost` answers; promiscuous mode lets in frames of
  others, which together with the packets of an earlier run number at most
  `MaxStray`.
* A thread that has sent exactly `pkt_num` packets ends; one that has stepped
  over that value goes round for ever (`Overshot`).

### DevProbe

One step per section of `xdma_eth_dev_init` and per `config_bar` argument; each
allocation may fail. A BAR is enabled or not; an argument is the int its text
converts to.

### DevLifecycle

`app` says which application it is. `pc`, `port` and `x` follow `main()` through
`port_init` of ports 0 and 1, or `port_init_nic` and `port_init_xdma` (whose
results are ignored), and the join of the two forwarding threads. `tpc[t]` is what
the threads do to engines. They do it whatever `main()` is doing at the time: only
`Joined`, the two calls of `pthread_join`, keeps them and the closing apart.

Then `testapp_count` closes and removes its ports in descending order, and
`testapp_inter` calls `rte_eal_cleanup`, which in DPDK 22.11, the version the
README builds against, removes the devices of the PCI bus and then detaches all
memory: nobody stops the port but `xdma_dev_close` inside the removal
(`CloseStops`). Both ways go through `xdma_eth_dev_uninit`.

An engine stands for its three allocations, which setup and close make and free
together. DPDK's part (queue arrays, the fast path table, `dev_started`, releasing
a port) and the NIC's driver are what the applications rely on. `fault` records
that something of a port was used or freed after it had been freed, or a queue set
up over another. A lack of memory in `port_init` ends the program (`InitExit`), in
a queue setup NULL is followed (`SetupCrash`), as `switch_start` does without
port 1 (`SwitchCrash`). The last two end the program in the model and are not
faults: `NoFault` says nothing about them.

`port_remove` and `port_reset` are reached only through callbacks that `main()`
unregisters before it sets up a port, and are left out.

## 3. Runs

| Run | Instance | States | Shows |
|---|---|---|---|
| `rx` | ring of 3, 7 packets, 2 receive and 1 poll rounds | 21658 | receive path: FIFO refinement, true counts, quiet ring, stable buffers, no length of an earlier packet, delivery and re-arming, polls that tell of this run only |
| `tx` | ring of 4, bursts of 0..3, 3 calls, debug | 499 | transmit path: what is reported has been sent; terminator and prefetch stay in the burst; a clear leaves the hardware nothing but an empty descriptor; FIFO refinement; calls return |
| `tx_multi_segment` | packets of 2 and 3 segments | violated | two packets are reported, one has been sent |
| `tx_release_build` | as `tx`, release | violated | returns before anything is sent |
| `inter` | 2 packets, 1 packet of an earlier run or frame of others, 1 lost answer, debug | 151896 | barrier; results of this run; FIFO from NIC to FPGA; `switch_start` and the threads end |
| `barrier_wakeup` | 2 threads | violated | an increment or the wake-up can be lost, and `switch_start` then sleeps for ever |
| `inter_split_batch` | as `inter` | violated | a batch received in two calls is sent twice in part, and in part never |
| `forwarder` | ring of 4, 9 packets, 1 polling round | 36830 | end-to-end FIFO, index in step, mbufs free before re-arming, everything forwarded |
| `forwarder_full_batch` | ring of 3 | violated | a full receive batch hangs the forwarder |
| `probe` | 6 BARs, all subsets, up to 2 arguments of -1..6 | 29312 | no leak, configuration BAR mapped, bypass BAR separate |
| `probe_user_bar` | same | violated | user BAR = configuration BAR |
| `lifecycle` | both applications, 1 to 3 ports, 2 queues | 371 | no DMA into freed memory, fast path only to live queues, nothing freed twice, nothing left |

**Bounds.** `MaxPkts` exceeds two rings in `rx` and `forwarder`, so the third run
of the engine, with whatever two stops have left in the ring, is reached, and a
batch can be split over calls in every way. `PollLimit` 1 or 2 reaches both a
timed-out poll and a hit after a miss. In `tx`, `MaxCalls = 3` has every sequence of three
burst lengths, so a shorter burst follows a longer one on the same ring and the
other way round. Counters other than these are bounded by them. Rings of 3
and 4 have a first, a middle and a last descriptor; the proofs of section 5 cover
all sizes. `PollRounds = 1` has a poll that misses and goes on
and one that gives up. The barrier and the probe run at the sizes of the
program. In `inter`, two packets arrive in one call or in two; one frame of others is
enough to step over `pkt_num`, one packet of an earlier run (`MaxStray = 1` allows
one or the other) to be counted in the wrong run, and one lost answer to stay
below `pkt_num`; `Word = 2`
makes the second packet carry from the lower to the upper register; `MaxPolls = 1`
has a poll that misses, a poll that comes in time and a timeout; the array is
longer than all frames together, as in the program. In `lifecycle`, one, two and three ports are a missing, a matching and a
surplus port; two queues have one that is used and one that is not. Symmetry is not used.

**Deadlock** is checked in `rx` only: there the driver polls for ever. In the
others the system really stops: no calls are left, the threads have ended or one
hangs in a burst, the probe is over, `main()` has returned.

**Fairness.** The caller's thread runs on (`WF` of the driver's steps: a polling
loop on a core of its own); the hardware finishes what it has begun (`WF` of
reporting; of all transmit steps, as everything it needs is in memory). Packets
need never arrive, calls need never be made. In `PollFairSpec` the thread, however
often it polls, also goes on to receive (`SF`). In `AppFairSpec` a receive call
that finds packets again and again returns some in the end (`SF`, which is
`Delivery`), and a frame on the link is answered or lost; that it is answered is
not assumed. The lock of the barrier is strongly
fair: it can otherwise be missed for ever only if spurious wake-ups never end.

**What the violated runs mean.** Each contradicts a sentence of the repository,
quoted under "findings" in `PROJECT.json`:

* `xdma_rxtx.c:201`: for a burst of `desc_max` packets the terminator goes to
  descriptor 0. With both sizes at 32 the applications avoid it only as long as
  no receive burst returns a full ring (`forwarder_full_batch`). `Forwarded` in
  the run `forwarder` therefore excuses exactly this state (`FullBurst`).
* `xdma_rxtx.c:221`: the wait is for `nb_pkts`, neither for the packets posted
  nor for their descriptors. A burst that does not fit is reported as sent when
  its first packets have as many segments as the burst has packets, and hangs
  when they have fewer.
* `xdma_rxtx.c:219`: the wait does not survive optimisation.
* `testapp_inter.c:642`: `switch_start` tests and waits without the mutex, and can
  sleep for ever in two ways; TLC reports one or the other. Its
  `pthread_cond_wait` unlocks the mutex of a thread that has loaded `ready_count` and
  not yet stored it: the other thread loads the same value, one increment is
  lost, `ready_count` stays 1 and nobody signals. Or both threads arrive between
  the test and the wait, and the signal finds nobody waiting. What saves the
  application from the opposite is that the count can only come out too small:
  `StartAfterReady` holds and is proved.
* `testapp_inter.c:590`: the index that should follow `desc_used` is commented
  out. In the direction to the FPGA this is right (`NicToFpgaIsFifo`).
* `xdma_common.c:131`: the user BAR may be the configuration BAR.

## 4. Refinement

`PacketFifo` says what either direction promises. `XdmaRx` implements it with
`taken <- rcvd, out <- delivered`, `XdmaTx` with `taken <- posted, out <- wire`,
and `Forwarder` end to end with `taken <- rcvd, out <- wire`. The capacity is
`DescMax` in these cases: in the forwarder this says that the mbufs of one receive
ring are all the buffering there is. `InterApp` implements it from NIC to FPGA with
`taken <- nic_in, out <- fpga_in` and the length of the array as capacity; in the
other direction it does not (`inter_split_batch`).

## 5. Proofs

Checked by TLAPS with its SMT, Zenon and LS4 backends. Every safety property of the
passing runs is a theorem for all values of the constants, under the assumptions
that the modules state and those named here.

| Theorem | Statement |
|---|---|
| `RxTyped` | `Spec => []TypeOK` |
| `RxIsFifo` | `Spec => FifoRefinement` |
| `RxNoBlankFetch`, `RxCountsAddUp`, `RxLengthNotStale` | the invariants of run `rx` |
| `RxRingQuiet`, `RxHandedStable` | the action properties of run `rx` |
| `RxNothingHidden`, `RxHaltIsSeen` | what `Delivery` and `Rearm` need in every state |
| `RxPrepareInRing`, `RxCallShrinks` | a receive call writes only inside the array, reads outside it only the element past the end, with the last packet of a batch, and ends within a bounded number of its steps |
| `PollReceives` | `PollSpec => Spec`: polls leave the receive path alone |
| `PollTellsOfRun` | `PollSpec => []PollWithinRun` |
| `TxTyped`, `TxReturnMeansSent`, `TxStopsAtTerminator`, `TxPrefetchInBurst` | the invariants of run `tx`, under `ShortBursts` |
| `TxRingQuiet`, `TxIsFifo` | its action property and its refinement, under `ShortBursts` |
| `TxWaitGoesOn`, `TxCallShrinks` | the wait has no stuck state, and a call a bounded number of steps, under `ShortBursts` |
| `FwdReceives` | `FwdSpec => Spec`: the forwarder uses the receive path as specified |
| `FwdTyped`, `FwdIndexInStep` | the invariants of run `forwarder` |
| `FwdIsFifo`, `FwdRearmAfterSent` | end-to-end refinement and action property, in a debug build |
| `FwdSendGoesOn`, `FwdSendShrinks` | in a debug build, where the forwarder's wait is stuck and where not; the hardware halts |
| `FwdFullBurstStays`, `FwdFullBurstSendsOne` | in a debug build, what becomes of a batch as long as the ring (the first for `DescMax > 1`) |
| `BarrierLocksNobodyOut` | `Spec => []NobodyLockedOut`, for `Needed >= Cardinality(Workers)` |
| `BarrierTyped`, `BarrierSafe` | `Spec => []TypeOK`, `Spec => []StartAfterReady` |
| `AppTyped`, `AppResults` | `AppSpec => []AppTypeOK`, `AppSpec => []ResultsOfThisRun` |
| `AppNicFifo` | `AppSpec => NicToFpgaIsFifo`, in a debug build |
| `AppKeepsBarrier` | `AppSpec => Spec`: the application implements the barrier |
| `AppBarrierTyped`, `AppStartsAfterReady` | the barrier's invariants in the application |
| `AppCountsBounded`, `AppSomethingToReceive`, `AppEndsWithAll` | what the counts of the threads are worth |
| `AppLastPacketLost` | what a batch in two parts costs |
| `AppSwitchShrinks` | `switch_start` ends within a bounded number of steps |
| `ProbeTyped`, `ProbeMemory`, `ProbeConfigMapped`, `ProbeBypassSeparate` | the invariants of run `probe` |
| `LifecycleTyped`, `LifecycleDma`, `LifecycleFastPath`, `LifecycleNoFault`, `LifecycleNothingLeft` | the invariants of run `lifecycle` |

**Receive path.** Assumptions: `DescMaxAssumption` (the ring is not empty) and
`RxAssumption` (the burst is as long as the ring, and shorter than 65536).
None of the properties is inductive: each depends on a relation between the
driver's `desc_used`, the count in memory and the descriptor the hardware is at,
which are three different variables of three parties. `IInv` states the relation:

* `StoppedInv`, `RunningInv`: a stopped engine has everything at 0; a running one
  has a full ring, `cur = done = wb` while it works, `done = DescMax` when it has
  halted, and `desc_used <= wb`;
* `FlagsInv`: STOPPED is in the last descriptor and nowhere else;
* `CallInv`: `desc_used <= id <= old <= wb` as far as the call has come;
* `OrderInv`: the mbufs hold the last `Landed` packets in order, and the packets
  before them and the first `Handed` of them have been delivered;
* `CountInv`: what was returned, plus what this call will return, is what was
  delivered.

The key lemma is `CompleteMeansHalted`: when the driver finds the batch
complete, the hardware has halted and every packet is handed over. `RingQuiet`
and the part of `OrderInv` that concerns `RecvStop` rest on it. The lemmas
`LocalSteps`, `StartStep`, `PrepareSteps`, `ReturnSteps` and `HardwareSteps` have
one step per action. `StoreTakes` and `PrepareGives` are the two steps of the
refinement that are not stutters. TLC checked `IInv` as an invariant (ring of 3,
8 packets) before the proof.

`RxNothingHidden` follows from `OrderInv`; `RxHaltIsSeen` also needs `BatchOpen`: a
call that leaves the engine running leaves `desc_used` below `DescMax`. The measure
`RecvStepsLeft` counts the polls left, and in `prepare_packets` the packets left:
no step of the hardware touches it, and every step of the call lowers it, so that a
count that keeps changing cannot keep a call busy.

**Polls.** `PollInv` says that a poll is only under way between calls and that
the count it has loaded lies between `desc_used` and the word in memory: the word
grows under it but is not reset, since the reset is a step of a receive call.

**Transmit path.** Assumptions: `DescMaxAssumption`, `TxAssumption` (constants of
the right types) and `AdjAssumption` (rings of up to 64 descriptors, on which the
type invariant rests); the receive path does not need the last. `ShortBursts` is what it takes for the properties to hold: a
build that executes the wait, a ring of fewer than 2^24 descriptors (the width of
the count), packets of one segment, and bursts shorter than the ring that fit the
buffers. Each condition is needed: `tx_release_build`, `tx_multi_segment` and
`forwarder_full_batch` are what happens without it. `IInv` follows a burst through
the ring: `CallInv` ties `desc_used`, `seg` and `avail` to the packets posted and
says that the buffers hold the numbers that are to be sent; `RingInv` says what is
in the descriptors before, while and after the burst is posted, above all that the
descriptor behind it is empty and STOPPED (which is why the clear, the one change of
the ring that `RingQuiet` allows under the hardware, makes no difference to it); `HwInv` keeps the hardware at
`cur = done = wb` up to that descriptor; `SentInv` counts what is on the wire.
From the same invariant, the wait is never stuck (`WaitGoesOn`), and `StepsLeft`,
which counts packets to post, packets to send and packets to report, falls with
every step, of the driver or the hardware.

**Forwarder.** The invariant of the receive side carries over, by `ReceiveSide`.
`IndexInv` says where index and `desc_used` agree, where they differ by what a call
has found, and where the driver has put `desc_used` back to 0 while the index is
still about to wrap. For the end-to-end properties `SendInv`, `SendRingInv` and
`SendHwInv` follow the batch through the transmit engine, and `BatchInv` says that
the packets returned and not yet sent lie in the mbufs from the index on and that
a running receive engine writes behind them. `ShortBursts` is not assumed: of a batch
as long as the ring the hardware sends one packet and halts (`Limit`), the call
never returns unless the ring has a single descriptor, and what is on the wire is
still right. Only `TxBuild = "debug"` is assumed. The hang that run
`forwarder_full_batch` shows is thereby proved of every ring of more than one
descriptor: `FullBurst` is never left, at most one packet of the batch is sent, and
by `FwdSendGoesOn` it is the only batch of which the wait is stuck.

**Barrier.** Assumption: `Workers` is finite. `StartAfterReady` is not inductive
since increments may overlap: `IInv` adds that the counter, and every value a
thread has loaded from it, is at most the number of threads that have stored
theirs. `MutexHeld` says who has locked the mutex. It may stay locked for ever, by the
`switch_start` that has gone on; since that one has waited for `Needed` threads,
nobody is left to lock it when `Needed` is no less than their number. In
the program `Needed` is the 2 of `testapp_inter.c:539` and `:642`, and `main()` launches
two threads; with more threads than that TLC finds one locked out.

**testapp_inter.** `AppInv` follows the packets round: generated, landed, received,
sent to the NIC, answered or lost, received again, in the array, and back in the
FPGA; those of an earlier run and frames of others go with them. No stage is ahead
of the one before (`Bounds`). `OrderInv` says that thread 1 sends no packet before its
place, so that answers to this run come after those to an earlier one and number
at most `PktNum` (`OwnInv`). The channel counts each frame once (`InboundInv`,
`FramesInv`). So if all that was counted since the clear is in `own`, `rx_done` means
that all packets of this run are back, and the accumulators stand still while
`switch_start` reads them in two parts (`CounterInv`, `ReadInv`). Before `clear_accum`
nothing of this is claimed of the counters. `AllSentInv` holds in a debug build
only: there nothing that thread 0 has counted is left unsent, on which
`AppNicFifo` and the half of `AppEndsWithAll` about thread 0 rest; the other
theorems hold of both builds.

The barrier's variables change in the application only by the barrier's actions, so
that its theorems carry over (`AppKeepsBarrier`). The threads end when their counts
are exactly `pkt_num`. `XmitInv` ties the counts to what was sent and `FirstBurstInv` says
what thread 1 has sent: since it never advances its index, a prefix that is right and
behind it only packets of lower numbers than the place they take. Hence the
count of thread 1 passes `pkt_num` only by packets of an earlier run, and that of
thread 0 by these and frames of others; a thread that is short of it has something left to receive as long as
no more answers are lost than frames of others replace; and if a batch in two parts
has sent a packet twice, then packet number `pkt_num` is never sent, whatever
`pkt_num` and the parts are.

**Probe.** `HeldInv` says what is allocated at each point, `ConfigInv` and
`BypassInv` what is known of the two BARs before they are mapped. `FirstBar` gives
the search for the bypass BAR a first candidate.

**Life cycle.** `IInv` relates seven sets: ports, pools, queue arrays, engines, running
engines, the fast path table and what the probe holds. `PortsInv` and `PhaseInv` say
how far `main()` has come, `QueueInv` and `EngineInv` that a port has all its
engines or none, except the one being set up, and `RunInv` that only engines
of started ports run; as threads are at work at most until `main()` has joined them
(`ThreadsInJoin`), nothing is freed under them. The lemma `UninitWorks` shows what `xdma_eth_dev_uninit`
comes to, whether the port was closed before (`testapp_count`) or is still running
(`testapp_inter`).

TLC checked each of these invariants, on the instances of section 3, before it was
proved.

**Only model-checked.** Liveness (`Delivery`, `Rearm`, `XmitReturns`, `WorkersPass`,
`SwitchEnds`, `ThreadsEnd`, `Forwarded`): fairness stands for ENABLED of an action,
which none of the prover's backends handles. What can be proved of these properties
is that no state of the wait is stuck and that a measure falls, and this is what
these theorems say:

| Liveness property | Proved part | Left to TLC |
|---|---|---|
| `Delivery` | `RxNothingHidden`, `RxPrepareInRing`, `RxCallShrinks` | that the calls keep coming and one of them does not miss |
| `Rearm` | `RxHaltIsSeen`, `RxCallShrinks` | the same |
| `XmitReturns` | `TxWaitGoesOn`, `TxCallShrinks` | that driver and hardware take their steps |
| `Forwarded` | `FwdSendGoesOn`, `FwdSendShrinks`, and `FwdFullBurstStays` for the case it excuses | the thread's loop |
| `WorkersPass` | `BarrierLocksNobodyOut` | that the lock is won at last |
| `SwitchEnds` | `AppSwitchShrinks` | that `switch_start` is released |
| `ThreadsEnd` | `AppCountsBounded`, `AppSomethingToReceive` | that packets are received and sent |

## 6. Not modelled

See "components" in `PROJECT.json` for each part.

* Code that nothing in the repository reaches: `port_remove` and `port_reset` (see
  `DevLifecycle`), `stop_channel`, `reclaim_engine_mbuf`, the UART console and the
  BAR load. `xdma_poll_tx_complete` has no caller either, and none could use it:
  `xdma_xmit_pkts` waits for the hardware itself and resets the count, so that a
  poll after it never returns.
* Code without behaviour: `xdma_dpdk_compat.c` is not built; the interrupt masks
  are written, but there is no handler and nothing reads them; PCI tables.
* A receive burst whose size changes between calls (`xdma_rxtx.c:306`): both
  applications pass the same size, which is that of the ring; `RxAssumption` says
  so.
* What is decided outside `src/`: who frees `mac_addrs` after a failed probe
  (`xdma_ethdev.c:236`), how far a memzone that is reserved too short reaches
  (`xdma_access_common.c:167`), which mbufs the NIC's driver still holds.
* Addresses, lengths, memzone layout, memory barriers, timing and printing are
  abstracted from throughout.

## 7. Plan

1. A receive burst size that changes between calls, should an application need it:
   `RxAssumption` is where the model would have to be widened.
2. `Uart` and `BarLoad`, should they get callers.
