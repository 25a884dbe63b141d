---------------------------- MODULE DevLifecycle ----------------------------
(***************************************************************************)
(* The life of the ports in the two applications.  main() sets up ports 0  *)
(* and 1, lets two threads forward packets between them and waits for the  *)
(* threads.  Then testapp_count takes all ports down again (port_close,    *)
(* rte_pmd_xdma_dev_remove), and testapp_inter, whose port 0 is a NIC,     *)
(* calls rte_eal_cleanup.  Underneath are the driver's device operations:  *)
(* xdma_dev_configure, the queue setups, xdma_dev_start, xdma_dev_stop,    *)
(* xdma_dev_close and xdma_eth_dev_uninit.                                 *)
(*                                                                         *)
(* What is modelled is who owns which memory when: the engines of the      *)
(* queues (struct xdma_engine, its memzone and its sw_ring, allocated and  *)
(* freed together), the mbuf pools, the queue arrays, the allocations of   *)
(* the probe, and which engines the hardware is running, that is, into     *)
(* whose memory it may write.                                              *)
(***************************************************************************)
EXTENDS Integers, FiniteSets

CONSTANTS MaxPorts,    \* at most this many ports are probed
          NumQueues    \* num_queues of port_init (4)

ASSUME LifecycleAssumption ==
    /\ MaxPorts \in Nat /\ MaxPorts >= 2
    /\ NumQueues \in Nat \ {0}

Ports == 0 .. MaxPorts - 1

\* The ports main() sets up, whether they exist or not.  Thread t receives
\* from port t and sends to the other one.
AppPorts == {0, 1}
Other(t) == 1 - t

\* An engine is identified by its port, direction and channel.
Engines == Ports \X {"H2C", "C2H"} \X (0 .. NumQueues - 1)

\* Both threads' buffers come from the pool of port 0.
BufferPool == 0

Probe == {"dev_private", "mac_addrs", "hw_access"}

VARIABLES
    app,             \* the application: "count" or "inter"
    num_ports,       \* ports found at start
    present,         \* ports with rte_eth_devices[].device set
    held,            \* held[p]: allocations of the probe
    pools,           \* ports whose mbuf pool exists
    num_queues,      \* num_queues[p]: pinfo[p].num_queues
    nb_queues,       \* nb_queues[p]: dev->data->nb_rx_queues = nb_tx_queues
    arrays,          \* ports with dev->data->rx_queues and tx_queues
    dev_configured,  \* ports with this flag set
    dev_started,     \* ports with this flag set
    fp_ops,          \* ports whose fast path calls the driver
    engines,         \* engines allocated
    running,         \* engines the hardware is running
    pc, port, x,     \* main(): position, port and queue
    down,            \* ports taken down so far
    tpc,             \* tpc[t]: position of forwarding thread t
    fault            \* something of a port was used or freed when it was
                     \* gone, or was set up although it was there

vars == <<app, num_ports, present, held, pools, num_queues, nb_queues, arrays,
          dev_configured, dev_started, fp_ops, engines, running, pc, port, x,
          down, tpc, fault>>

env == <<app, num_ports, present>>
data == <<nb_queues, arrays, dev_configured, dev_started, fp_ops>>
memory == <<held, pools, engines>>

\* Ports of another driver.
NicPorts == IF app = "inter" THEN {0} ELSE {}

TypeOK ==
    /\ app \in {"count", "inter"}
    /\ num_ports \in 1 .. MaxPorts
    /\ present \subseteq Ports
    /\ held \in [Ports -> SUBSET Probe]
    /\ pools \subseteq Ports
    /\ num_queues \in [Ports -> 0 .. NumQueues]
    /\ nb_queues \in [Ports -> 0 .. NumQueues]
    /\ arrays \subseteq Ports
    /\ dev_configured \subseteq Ports
    /\ dev_started \subseteq Ports
    /\ fp_ops \subseteq Ports
    /\ engines \subseteq Engines
    /\ running \subseteq Engines
    /\ pc \in {"pool", "configure", "tx", "rx", "start", "join", "ports",
               "stop", "close", "unpool", "remove", "cleanup", "end", "exit",
               "crash"}
    /\ port \in Ports \cup {-1}
    /\ x \in 0 .. NumQueues
    /\ down \in 0 .. MaxPorts
    /\ tpc \in [AppPorts -> {"new", "recv", "xmit", "wait", "done"}]
    /\ fault \in BOOLEAN

\* The ports have been probed with success and main() begins.
Init ==
    /\ app \in {"count", "inter"}
    /\ num_ports \in 1 .. MaxPorts
    /\ present = 0 .. num_ports - 1
    /\ held = [p \in Ports |-> IF p \in present \ NicPorts THEN Probe ELSE {}]
    /\ pools = {}
    /\ num_queues = [p \in Ports |-> 0]
    /\ nb_queues = [p \in Ports |-> 0]
    /\ arrays = {} /\ dev_configured = {} /\ dev_started = {} /\ fp_ops = {}
    /\ engines = {}
    /\ running = {}
    /\ pc = "pool" /\ port = 0 /\ x = 0 /\ down = 0
    /\ tpc = [t \in AppPorts |-> "new"]
    /\ fault = FALSE

-----------------------------------------------------------------------------
(* Setting up: port_init(0), port_init(1) or port_init_nic(0),              *)
(* port_init_xdma(1), which do the same for an XDMA port.  The results are  *)
(* not looked at.                                                           *)

\* After port 1 main() looks up the pool of port 0 and, having filled the
\* arrays from it, starts the threads.  The array that testapp_inter fills
\* from the pool of port 1 only takes pointers of the NIC; if port 1 does not
\* exist, its pool has no name, as that of port 0 has none, and is found.
InitReturns ==
    \/ /\ port = 0
       /\ port' = 1 /\ pc' = "pool"
       /\ UNCHANGED tpc
    \/ /\ port = 1
       /\ BufferPool \in pools
       /\ pc' = "join"
       /\ tpc' = [t \in AppPorts |-> "recv"]
       /\ UNCHANGED port

\* rte_pmd_xdma_get_device: there is no such port.
InitNoDevice ==
    /\ pc = "pool"
    /\ port \notin present
    /\ InitReturns
    /\ UNCHANGED <<env, memory, num_queues, data, running, x, down, fault>>

\* rte_exit ends the program when there is no memory for the pool or for the
\* queue arrays.
InitExit ==
    /\ \/ pc = "pool" /\ port \in present
       \/ pc = "configure"
    /\ pc' = "exit"
    /\ UNCHANGED <<env, memory, num_queues, data, running, port, x, down, tpc,
                   fault>>

\* port_init_nic creates a pool; the rest is the NIC's driver.
port_init_nic ==
    /\ pc = "pool"
    /\ port \in NicPorts
    /\ pools' = pools \cup {port}
    /\ InitReturns
    /\ UNCHANGED <<env, held, num_queues, data, engines, running, x, down,
                   fault>>

CreatePool ==
    /\ pc = "pool"
    /\ port \in present \ NicPorts
    /\ pools' = pools \cup {port}
    /\ pc' = "configure"
    /\ UNCHANGED <<env, held, num_queues, data, engines,
                   running, port, x, down, tpc, fault>>

\* rte_eth_dev_configure allocates the queue arrays and calls the driver.
xdma_dev_configure ==
    /\ pc = "configure"
    /\ arrays' = arrays \cup {port}
    /\ nb_queues' = [nb_queues EXCEPT ![port] = NumQueues]
    /\ dev_configured' = dev_configured \cup {port}
    /\ num_queues' = [num_queues EXCEPT ![port] = NumQueues]
    /\ x' = 0 /\ pc' = "tx"
    /\ UNCHANGED <<env, memory, dev_started, fp_ops, running,
                   port, down, tpc, fault>>

\* No memory for an engine or its memzone: the NULL result is followed, and
\* the program ends there.
SetupCrash ==
    /\ pc \in {"tx", "rx"}
    /\ pc' = "crash"
    /\ UNCHANGED <<env, memory, num_queues, data, running,
                   port, x, down, tpc, fault>>

\* The name of the memzone is made of driver, direction, port and channel; if
\* it is taken, reserving gives NULL, which is followed.
Setup(e) ==
    /\ fault' = (fault \/ e \in engines)
    /\ engines' = engines \cup {e}

xdma_tx_engine_setup ==
    /\ pc = "tx"
    /\ Setup(<<port, "H2C", x>>)
    /\ pc' = "rx"
    /\ UNCHANGED <<env, held, pools, num_queues, data, running,
                   port, x, down, tpc>>

\* Wrong variant: <= for <.
MoreQueuesOff(n) == n <= NumQueues

MoreQueues(n) == n < NumQueues

xdma_rx_engine_setup ==
    /\ pc = "rx"
    /\ Setup(<<port, "C2H", x>>)
    /\ x' = x + 1
    /\ pc' = IF MoreQueues(x + 1) THEN "tx" ELSE "start"
    /\ UNCHANGED <<env, held, pools, num_queues, data, running,
                   port, down, tpc>>

\* rte_eth_dev_start and rte_pmd_xdma_dev_fp_ops_config; port_init returns.
\* The driver's part only enables interrupts.
xdma_dev_start ==
    /\ pc = "start"
    /\ dev_started' = dev_started \cup {port}
    /\ fp_ops' = fp_ops \cup {port}
    /\ InitReturns
    /\ UNCHANGED <<env, memory, num_queues, nb_queues, arrays,
                   dev_configured, running, x, down, fault>>

-----------------------------------------------------------------------------
(* The forwarding threads, as far as they start and stop engines.  One of   *)
(* testapp_count may end after any round, when its time is up, one of       *)
(* testapp_inter only after a burst that sent something.  A thread runs on  *)
(* whatever main() does, as long as there is a process.                     *)

ThreadStep(t, from, to) ==
    /\ pc \notin {"end", "exit", "crash"}
    /\ tpc[t] = from
    /\ tpc' = [tpc EXCEPT ![t] = to]
    /\ UNCHANGED <<env, memory, num_queues, data, pc, port, x, down>>

\* A burst on a queue follows the queue array, the engine and hw_access.
Uses(e) == fault' = (fault \/ ~(/\ e[1] \in arrays
                                /\ e \in engines
                                /\ "hw_access" \in held[e[1]]))

\* rte_eth_rx_burst starts the engine if it is stopped.  It stops it when
\* the batch is complete and leaves it running otherwise, also when the
\* thread ends.  Without fast path functions nothing is received.
RecvBurst(t, to) ==
    LET e == <<t, "C2H", 0>>
    IN  /\ ThreadStep(t, "recv", to)
        /\ to = "done" => app = "count"
        /\ IF t \in fp_ops
           THEN /\ Uses(e)
                /\ \/ running' = running \cup {e}
                   \/ to = "xmit" /\ running' = running \ {e}
           ELSE /\ to = "xmit" => t \in NicPorts
                /\ UNCHANGED <<fault, running>>

\* rte_eth_tx_burst starts the engine ...
XmitBurst(t) ==
    LET e == <<Other(t), "H2C", 0>>
    IN  /\ Other(t) \in fp_ops
        /\ ThreadStep(t, "xmit", "wait")
        /\ Uses(e)
        /\ running' = running \cup {e}

\* ... and stops it before it returns.
XmitReturn(t, to) ==
    LET e == <<Other(t), "H2C", 0>>
    IN  /\ ThreadStep(t, "wait", to)
        /\ Uses(e)
        /\ running' = running \ {e}

\* A burst to the NIC, or to a port without fast path functions, which sends
\* nothing.
XmitElsewhere(t, to) ==
    /\ Other(t) \notin fp_ops
    /\ to = "done" => app = "count" \/ Other(t) \in NicPorts
    /\ ThreadStep(t, "xmit", to)
    /\ UNCHANGED <<fault, running>>

\* A round ends with the test whether to go on.
Thread(t) ==
    \/ \E to \in {"recv", "xmit", "done"} : RecvBurst(t, to)
    \/ XmitBurst(t)
    \/ \E to \in {"recv", "done"} : XmitReturn(t, to) \/ XmitElsewhere(t, to)

\* switch_start writes to registers of port 1 and follows NULL if there is no
\* such port.
SwitchCrash ==
    /\ app = "inter" /\ pc = "join"
    /\ 1 \notin present
    /\ pc' = "crash"
    /\ UNCHANGED <<env, memory, num_queues, data, running, port, x, down, tpc,
                   fault>>

-----------------------------------------------------------------------------
(* Taking down.                                                             *)

\* Wrong variant: ports are taken down in the order they came up.
CloseAscending(i) == i

\* The i-th port to be taken down: the last one goes first.
CloseOrder(i) == num_ports - 1 - i

NextPort(i) ==
    /\ down' = i
    /\ IF i < num_ports THEN port' = CloseOrder(i) /\ pc' = "ports"
       ELSE port' = -1 /\ pc' = "end"

\* Wrong variant: only one of the threads is joined.
JoinedOne == tpc[0] = "done"

\* Both threads have ended.
Joined == \A t \in AppPorts : tpc[t] = "done"

Join ==
    /\ pc = "join"
    /\ Joined
    /\ \/ app = "count" /\ NextPort(0)
       \/ app = "inter" /\ pc' = "cleanup" /\ UNCHANGED <<down, port>>
    /\ UNCHANGED <<env, memory, num_queues, data, running, x, tpc, fault>>

\* Wrong variant: rte_eth_dev_stop is forgotten.
CloseAtOnce == "close"

\* port_close stops the port before it closes it.
CloseFirst == "stop"

\* A port that was set up is closed first; one that is gone is skipped.
TakeDown ==
    /\ pc = "ports"
    /\ \/ /\ port \in present
          /\ pc' = IF num_queues[port] # 0 THEN CloseFirst ELSE "remove"
          /\ UNCHANGED <<down, port>>
       \/ /\ port \notin present
          /\ NextPort(down + 1)
    /\ UNCHANGED <<env, memory, num_queues, data, running, x, tpc, fault>>

\* The engines the driver's loops over nb_tx_queues and nb_rx_queues reach.
Owned(p) == {e \in Engines : e[1] = p /\ e[3] < nb_queues[p]}

\* Those loops follow the queue arrays and the engines in them.
Walks(p) == fault' = (fault \/ ~(Owned(p) \subseteq engines)
                            \/ (nb_queues[p] # 0 /\ p \notin arrays))

\* rte_eth_dev_stop takes the fast path away, has the driver stop every
\* engine and clears dev_started; it does nothing on a stopped port.
xdma_dev_stop ==
    /\ pc = "stop"
    /\ IF port \in dev_started
       THEN /\ fp_ops' = fp_ops \ {port}
            /\ Walks(port)
            /\ running' = running \ Owned(port)
            /\ dev_started' = dev_started \ {port}
       ELSE UNCHANGED <<fp_ops, fault, running, dev_started>>
    /\ pc' = "close"
    /\ UNCHANGED <<env, memory, num_queues, nb_queues, arrays,
                   dev_configured, port, x, down, tpc>>

\* Wrong variant: the counts keep their values.
KeepQueueCount(p) == nb_queues

NoQueues(p) == [nb_queues EXCEPT ![p] = 0]

\* rte_pmd_xdma_dev_close clears dev_started, so that xdma_dev_close does not
\* stop the engines itself; it frees them, and the queue arrays are freed.
rte_pmd_xdma_dev_close ==
    /\ pc = "close"
    /\ dev_started' = dev_started \ {port}
    /\ Walks(port)
    /\ engines' = engines \ Owned(port)
    /\ nb_queues' = NoQueues(port)
    /\ arrays' = arrays \ {port}
    /\ num_queues' = [num_queues EXCEPT ![port] = 0]
    /\ pc' = "unpool"
    /\ UNCHANGED <<env, held, pools, dev_configured, fp_ops,
                   running, port, x, down, tpc>>

\* port_close frees the pool, if there is one of its name.
FreePool ==
    /\ pc = "unpool"
    /\ pools' = pools \ {port}
    /\ pc' = "remove"
    /\ UNCHANGED <<env, held, num_queues, data, engines,
                   running, port, x, down, tpc, fault>>

\* Wrong variant: hw_access is forgotten.
UninitKeepsAccess == {"mac_addrs"}

\* What xdma_eth_dev_uninit frees of the probe's allocations.
UninitFrees == {"mac_addrs", "hw_access"}

\* Wrong variant: xdma_dev_close leaves stopping to its callers.
CloseKeepsRunning(p) == running

\* xdma_dev_close stops the engines of a port that is started.
CloseStops(p) == IF p \in dev_started THEN running \ Owned(p) ELSE running

\* xdma_eth_dev_uninit calls xdma_dev_close, once more if the port has been
\* closed, unless the port was never configured.  Then DPDK releases the port
\* with its arrays and private data.
xdma_eth_dev_uninit(p) ==
    /\ IF p \in dev_configured
       THEN /\ Walks(p)
            /\ engines' = engines \ Owned(p)
            /\ running' = CloseStops(p)
       ELSE UNCHANGED <<fault, engines, running>>
    /\ nb_queues' = [nb_queues EXCEPT ![p] = 0]
    /\ held' = [held EXCEPT ![p] = @ \ (UninitFrees \cup {"dev_private"})]
    /\ arrays' = arrays \ {p}
    /\ fp_ops' = fp_ops \ {p}
    /\ dev_configured' = dev_configured \ {p}
    /\ dev_started' = dev_started \ {p}
    /\ present' = present \ {p}
    /\ UNCHANGED <<app, num_ports, pools, num_queues, x, tpc>>

rte_pmd_xdma_dev_remove ==
    /\ pc = "remove"
    /\ xdma_eth_dev_uninit(port)
    /\ NextPort(down + 1)

\* rte_eal_cleanup (of DPDK 22.11) removes every device of the PCI bus, ...
CleanupDevice ==
    /\ pc = "cleanup"
    /\ \E p \in present : xdma_eth_dev_uninit(p)
    /\ UNCHANGED <<pc, port, down>>

\* ... then detaches all memory.  main() finds no port left and returns.
CleanupMemory ==
    /\ pc = "cleanup"
    /\ present = {}
    /\ pools' = {}
    /\ pc' = "end"
    /\ UNCHANGED <<env, held, engines, num_queues, data, running, port, x, down,
                   tpc, fault>>

Main == \/ InitNoDevice \/ InitExit \/ CreatePool \/ xdma_dev_configure
        \/ SetupCrash \/ xdma_tx_engine_setup \/ xdma_rx_engine_setup
        \/ xdma_dev_start
        \/ port_init_nic \/ Join \/ TakeDown \/ xdma_dev_stop
        \/ rte_pmd_xdma_dev_close \/ FreePool \/ rte_pmd_xdma_dev_remove
        \/ CleanupDevice \/ CleanupMemory \/ SwitchCrash

Next == Main \/ \E t \in AppPorts : Thread(t)

Spec == Init /\ [][Next]_vars

-----------------------------------------------------------------------------
(***************************************************************************)
(* The hardware writes into the descriptor ring's writebacks and into      *)
(* mbufs for as long as an engine runs, and a receive engine goes on       *)
(* running after its thread has ended.  All that memory is still there:    *)
(* the engine with its memzone, and the pool of port 0, from which the     *)
(* buffers of both ports come.  testapp_inter never stops its port: only   *)
(* the removal inside rte_eal_cleanup does.                                *)
(***************************************************************************)
DmaIntoLiveMemory ==
    running # {} => running \subseteq engines /\ BufferPool \in pools

(***************************************************************************)
(* A queue that a burst can reach through the fast path is there, and so   *)
(* are the function pointers a burst starts and stops its engine with.     *)
(***************************************************************************)
FastPathLive ==
    \A p \in fp_ops :
        /\ p \in arrays
        /\ \A e \in Engines : e[1] = p => e \in engines
        /\ "hw_access" \in held[p]

(***************************************************************************)
(* Closing twice (port_close, then xdma_eth_dev_uninit) frees nothing      *)
(* twice, no loop follows a queue array or an engine that is gone, no      *)
(* burst of a thread that still runs uses one, and no queue is set up over *)
(* another.  An allocation that fails or a port that was never there is    *)
(* another matter: SetupCrash and SwitchCrash end the program.             *)
(***************************************************************************)
NoFault == ~fault

(***************************************************************************)
(* When main() returns, every port that was found has been removed, no     *)
(* engine runs, and everything that was allocated for a port is freed,     *)
(* whether the port was ever set up or not.                                *)
(***************************************************************************)
NothingLeftBehind ==
    pc = "end" =>
        /\ present = {} /\ running = {} /\ engines = {}
        /\ pools = {} /\ arrays = {}
        /\ \A p \in Ports : held[p] = {}
=============================================================================
