------------------------- MODULE DevLifecycleProofs -------------------------
(***************************************************************************)
(* Proofs about DevLifecycle: in both applications, for any number of      *)
(* ports and queues, no engine runs on memory that is gone, no pointer is  *)
(* followed to memory that is gone, and nothing is left at the end.        *)
(***************************************************************************)
EXTENDS DevLifecycle, TLAPS

EnginesOf(p) == {e \in Engines : e[1] = p}

SettingUp == {"pool", "configure", "tx", "rx", "start"}
TakingDown == {"ports", "stop", "close", "unpool", "remove"}

\* Which ports are there, and what they hold.
PortsInv ==
    /\ pc \in SettingUp \cup {"join"} => present = 0 .. num_ports - 1
    /\ pc \in TakingDown => /\ app = "count"
                            /\ down \in 0 .. num_ports - 1
                            /\ port = num_ports - 1 - down
                            /\ present = 0 .. port
    /\ pc = "cleanup" => app = "inter"
    /\ pc = "end" => present = {}
    /\ \A p \in Ports :
          held[p] = IF p \in present \ NicPorts THEN Probe ELSE {}

\* How far the port that main() works on has come.
PhaseInv ==
    /\ pc \in SettingUp => /\ port \in AppPorts
                           /\ running = {}
                           /\ arrays \subseteq 0 .. port
                           /\ port \notin fp_ops
    /\ pc \in {"pool", "configure", "unpool", "remove"} => port \notin arrays
    /\ pc = "configure" => port \in present \ NicPorts
    /\ pc \in {"tx", "rx", "start", "stop", "close"} => port \in arrays
    /\ pc = "close" => port \notin fp_ops

\* Pools: those of the ports that are set up, and that of the NIC.
PoolsInv ==
    /\ pc = "join" => BufferPool \in pools
    /\ running = {} \/ BufferPool \in pools
    /\ app = "count" /\ pc \notin {"exit", "crash"} =>
          pools = arrays \cup (IF pc \in {"configure", "unpool"} THEN {port}
                               ELSE {})
    /\ pc = "end" => pools = {}

\* A port that is set up has all its queues, unless it is being set up.
QueueInv ==
    /\ arrays \subseteq dev_configured
    /\ arrays \subseteq present \ NicPorts
    /\ \A p \in Ports : nb_queues[p] = IF p \in arrays THEN NumQueues ELSE 0
    /\ app = "count" => \A p \in Ports : num_queues[p] # 0 <=> p \in arrays

EngineInv ==
    /\ \A e \in engines : e[1] \in arrays
    /\ \A p \in arrays :
          \/ EnginesOf(p) \subseteq engines
          \/ pc \in {"tx", "rx", "crash"} /\ p = port /\ p \notin fp_ops
    /\ pc \in {"tx", "rx"} =>
          /\ x < NumQueues
          /\ \A e \in EnginesOf(port) :
                e \in engines <=>
                    \/ e[3] < x
                    \/ pc = "rx" /\ e[2] = "H2C" /\ e[3] = x

\* Engines run only on ports that are started, the only ones a burst reaches.
RunInv ==
    /\ dev_started = fp_ops
    /\ fp_ops \subseteq arrays
    /\ \A e \in running : e \in engines /\ e[1] \in fp_ops
    /\ \A t \in AppPorts : pc = "join" /\ tpc[t] = "wait"
           => Other(t) \in fp_ops
    /\ \A t \in AppPorts :
          pc \in {"join", "crash"} \/ tpc[t] \in {"new", "done"}
    /\ ~fault

IInv == /\ TypeOK /\ PortsInv /\ PhaseInv /\ PoolsInv
        /\ QueueInv /\ EngineInv /\ RunInv

-----------------------------------------------------------------------------
(***************************************************************************)
(* The loops of the driver over the queues of a port reach all its engines *)
(* once it is set up, and none before and after.                           *)
(***************************************************************************)
LEMMA OwnedAll ==
    ASSUME QueueInv, NEW p \in Ports
    PROVE  Owned(p) = IF p \in arrays THEN EnginesOf(p) ELSE {}
BY LifecycleAssumption DEF QueueInv, Owned, EnginesOf, Engines

\* What the removal of a port comes to: all its engines are stopped and
\* freed, and so is what the probe allocated.
UninitEffect(p) ==
    /\ engines' = engines \ EnginesOf(p)
    /\ running' = running \ EnginesOf(p)
    /\ fault' = fault
    /\ held' = [held EXCEPT ![p] = {}]

(***************************************************************************)
(* The removal does that to a port that was set up, whether it has been    *)
(* closed before or is still running, and to one that was not.             *)
(***************************************************************************)
LEMMA UninitWorks ==
    ASSUME IInv, NEW p \in Ports, xdma_eth_dev_uninit(p),
           pc \notin {"tx", "rx", "crash"}
    PROVE  UninitEffect(p)
<1>. USE DEF IInv
<1>1. Owned(p) = IF p \in arrays THEN EnginesOf(p) ELSE {}
  BY OwnedAll
<1>2. p \in arrays => p \in dev_configured /\ EnginesOf(p) \subseteq engines
  BY DEF QueueInv, EngineInv
<1>3. p \notin arrays => engines \cap EnginesOf(p) = {} /\ nb_queues[p] = 0
  BY DEF QueueInv, EngineInv, EnginesOf
<1>4. p \in dev_started \/ running \cap EnginesOf(p) = {}
  BY DEF RunInv, EnginesOf
<1>9. p \in dev_started => p \in arrays
  BY DEF RunInv
<1>10. running \subseteq engines
  BY DEF RunInv
<1>5. engines' = engines \ EnginesOf(p) /\ running' = running \ EnginesOf(p)
  BY <1>1, <1>2, <1>3, <1>4, <1>9, <1>10 DEF xdma_eth_dev_uninit, CloseStops
<1>6. fault' = fault
  BY <1>1, <1>2, <1>3 DEF xdma_eth_dev_uninit, Walks, TypeOK
<1>7. held[p] \ (UninitFrees \cup {"dev_private"}) = {}
  BY DEF UninitFrees, TypeOK, Probe
<1>8. held' = [held EXCEPT ![p] = {}]
  BY <1>7 DEF xdma_eth_dev_uninit
<1>. QED  BY <1>5, <1>6, <1>8 DEF UninitEffect

(***************************************************************************)
(* main() goes on to port 1, or starts the threads.                        *)
(***************************************************************************)
LEMMA InitReturnsTyped ==
    ASSUME TypeOK, InitReturns
    PROVE  /\ port' \in Ports \cup {-1}
           /\ pc' \in {"pool", "join"}
           /\ tpc' \in [AppPorts -> {"new", "recv", "xmit", "wait", "done"}]
<1>1. 1 \in Ports
  BY LifecycleAssumption DEF Ports
<1>2. port' \in Ports \cup {-1}
  BY <1>1 DEF InitReturns, TypeOK
<1>3. tpc' \in [AppPorts -> {"new", "recv", "xmit", "wait", "done"}]
  BY DEF InitReturns, TypeOK
<1>. QED  BY <1>2, <1>3 DEF InitReturns

(***************************************************************************)
(* The next port to be taken down is one that was probed.                  *)
(***************************************************************************)
LEMMA NextPortTyped ==
    ASSUME TypeOK, NEW i \in 0 .. num_ports, NextPort(i)
    PROVE  /\ port' \in Ports \cup {-1}
           /\ down' \in 0 .. MaxPorts
           /\ pc' \in {"ports", "end"}
<1>1. num_ports \in 1 .. MaxPorts /\ MaxPorts \in Nat
  BY LifecycleAssumption DEF TypeOK
<1>2. i < num_ports => CloseOrder(i) \in Ports
  BY <1>1 DEF CloseOrder, Ports
<1>3. down' \in 0 .. MaxPorts
  BY <1>1 DEF NextPort
<1>. QED  BY <1>2, <1>3 DEF NextPort

(***************************************************************************)
(* The engine that is being set up is one of the port that is being set up.*)
(***************************************************************************)
LEMMA SetupEngine ==
    ASSUME IInv, pc \in {"tx", "rx"}, NEW dir \in {"H2C", "C2H"}
    PROVE  <<port, dir, x>> \in EnginesOf(port)
<1>1. port \in Ports
  BY LifecycleAssumption DEF IInv, PhaseInv, SettingUp, AppPorts, Ports
<1>2. x \in 0 .. NumQueues - 1
  BY LifecycleAssumption DEF IInv, TypeOK, EngineInv
<1>. QED  BY <1>1, <1>2 DEF EnginesOf, Engines

(***************************************************************************)
(* A port that a burst can reach has its queue arrays, its engines and     *)
(* what the probe allocated, for as long as main() waits for the threads.  *)
(***************************************************************************)
LEMMA FastPathReady ==
    ASSUME IInv, pc = "join", NEW p \in fp_ops, NEW dir \in {"H2C", "C2H"}
    PROVE  /\ p \in arrays
           /\ <<p, dir, 0>> \in engines
           /\ "hw_access" \in held[p]
<1>1. p \in arrays /\ p \in Ports
  BY DEF IInv, RunInv, TypeOK
<1>2. <<p, dir, 0>> \in EnginesOf(p)
  BY <1>1, LifecycleAssumption DEF EnginesOf, Engines
<1>3. EnginesOf(p) \subseteq engines
  BY <1>1 DEF IInv, EngineInv
<1>4. held[p] = Probe
  BY <1>1 DEF IInv, PortsInv, QueueInv
<1>. QED  BY <1>1, <1>2, <1>3, <1>4 DEF Probe

(***************************************************************************)
(* A thread is at work only while main() waits for it.                     *)
(***************************************************************************)
LEMMA ThreadsInJoin ==
    ASSUME IInv, NEW t \in AppPorts, NEW from \in {"recv", "xmit", "wait"},
           NEW to, ThreadStep(t, from, to)
    PROVE  pc = "join"
BY DEF IInv, RunInv, ThreadStep

(***************************************************************************)
(* The invariant holds when main() begins: nothing is set up.              *)
(***************************************************************************)
LEMMA InitIInv ==
    ASSUME Init  PROVE IInv
<1>. USE LifecycleAssumption DEF Init, NicPorts
<1>1. TypeOK
  <2>1. present \subseteq Ports /\ port \in Ports \cup {-1}
    BY DEF Ports
  <2>2. /\ held \in [Ports -> SUBSET Probe]
        /\ num_queues \in [Ports -> 0 .. NumQueues]
        /\ nb_queues \in [Ports -> 0 .. NumQueues]
    OBVIOUS
  <2>3. fault \in BOOLEAN
    OBVIOUS
  <2>4. tpc \in [AppPorts -> {"new", "recv", "xmit", "wait", "done"}]
    OBVIOUS
  <2>. QED  BY <2>1, <2>2, <2>3, <2>4 DEF TypeOK
<1>2. PortsInv
  BY DEF PortsInv, TakingDown
<1>3. PhaseInv
  BY DEF PhaseInv, AppPorts
<1>4. PoolsInv /\ QueueInv /\ EngineInv /\ RunInv
  BY DEF PoolsInv, QueueInv, EngineInv, RunInv
<1>. QED  BY <1>1, <1>2, <1>3, <1>4 DEF IInv

(***************************************************************************)
(* A port that does not exist is not set up.                               *)
(***************************************************************************)
LEMMA InitNoDeviceStep ==
    ASSUME IInv, InitNoDevice
    PROVE  IInv'
<1>. USE LifecycleAssumption
     DEF IInv, env, data, memory, NicPorts, Ports, AppPorts, BufferPool,
         SettingUp, TakingDown, Other
<1>1. TypeOK'
  <2>. HIDE DEF IInv, NicPorts, Ports, SettingUp, TakingDown, BufferPool, Other
  <2>0. TypeOK
    BY DEF IInv
  <2>1. InitReturns
    BY DEF InitNoDevice
  <2>2. /\ port' \in Ports \cup {-1}
        /\ pc' \in {"pool", "join"}
        /\ tpc' \in [AppPorts -> {"new", "recv", "xmit", "wait", "done"}]
    BY <2>0, <2>1, InitReturnsTyped
  <2>. QED  BY <2>0, <2>2 DEF InitNoDevice, TypeOK
<1>2. PortsInv'
  BY DEF InitNoDevice, InitReturns, PortsInv
<1>3. PhaseInv'
  BY DEF InitNoDevice, InitReturns, TypeOK, PortsInv, PhaseInv
<1>4. PoolsInv'
  BY DEF InitNoDevice, InitReturns, PoolsInv
<1>5. QueueInv'
  BY DEF InitNoDevice, QueueInv
<1>6. EngineInv'
  BY DEF InitNoDevice, InitReturns, EngineInv
<1>7. RunInv'
  BY DEF InitNoDevice, InitReturns, RunInv
<1>. QED  BY <1>1, <1>2, <1>3, <1>4, <1>5, <1>6, <1>7

(***************************************************************************)
(* The program ends when there is no memory.                               *)
(***************************************************************************)
LEMMA InitExitStep ==
    ASSUME IInv, InitExit
    PROVE  IInv'
<1>. USE LifecycleAssumption
     DEF IInv, env, data, memory, NicPorts, Ports, AppPorts, BufferPool,
         SettingUp, TakingDown, Other
<1>1. TypeOK'
  BY DEF InitExit, TypeOK
<1>2. PortsInv'
  BY DEF InitExit, PortsInv
<1>3. PhaseInv'
  BY DEF InitExit, PhaseInv
<1>4. PoolsInv'
  BY DEF InitExit, PoolsInv
<1>5. QueueInv'
  BY DEF InitExit, QueueInv
<1>6. EngineInv'
  BY DEF InitExit, EngineInv
<1>7. RunInv'
  BY DEF InitExit, RunInv
<1>. QED  BY <1>1, <1>2, <1>3, <1>4, <1>5, <1>6, <1>7

(***************************************************************************)
(* The NIC is set up by its own driver; its pool is the one of all         *)
(* buffers.                                                                *)
(***************************************************************************)
LEMMA PortInitNicStep ==
    ASSUME IInv, port_init_nic
    PROVE  IInv'
<1>. USE LifecycleAssumption
     DEF IInv, env, data, memory, NicPorts, Ports, AppPorts, BufferPool,
         SettingUp, TakingDown, Other
<1>1. TypeOK'
  <2>. HIDE DEF IInv, NicPorts, Ports, SettingUp, TakingDown, BufferPool, Other
  <2>0. TypeOK
    BY DEF IInv
  <2>p. port \in Ports
    BY LifecycleAssumption DEF port_init_nic, NicPorts, Ports
  <2>1. InitReturns
    BY DEF port_init_nic
  <2>2. /\ port' \in Ports \cup {-1}
        /\ pc' \in {"pool", "join"}
        /\ tpc' \in [AppPorts -> {"new", "recv", "xmit", "wait", "done"}]
    BY <2>0, <2>1, InitReturnsTyped
  <2>3. pools' \subseteq Ports
    BY <2>0, <2>p DEF port_init_nic, TypeOK
  <2>. QED  BY <2>0, <2>2, <2>3 DEF port_init_nic, TypeOK
<1>2. PortsInv'
  BY DEF port_init_nic, InitReturns, PortsInv
<1>3. PhaseInv'
  BY DEF port_init_nic, InitReturns, PhaseInv, RunInv
<1>4. PoolsInv'
  BY DEF port_init_nic, InitReturns, PoolsInv
<1>5. QueueInv'
  BY DEF port_init_nic, QueueInv
<1>6. EngineInv'
  BY DEF port_init_nic, InitReturns, EngineInv
<1>7. RunInv'
  BY DEF port_init_nic, InitReturns, RunInv
<1>. QED  BY <1>1, <1>2, <1>3, <1>4, <1>5, <1>6, <1>7

(***************************************************************************)
(* The pool of the port is created.                                        *)
(***************************************************************************)
LEMMA CreatePoolStep ==
    ASSUME IInv, CreatePool
    PROVE  IInv'
<1>. USE LifecycleAssumption
     DEF IInv, env, data, memory, NicPorts, Ports, AppPorts, BufferPool,
         SettingUp, TakingDown, Other
<1>1. TypeOK'
  BY DEF CreatePool, TypeOK
<1>2. PortsInv'
  BY DEF CreatePool, PortsInv
<1>3. PhaseInv'
  BY DEF CreatePool, PhaseInv
<1>4. PoolsInv'
  BY DEF CreatePool, PoolsInv
<1>5. QueueInv'
  BY DEF CreatePool, QueueInv
<1>6. EngineInv'
  BY DEF CreatePool, EngineInv
<1>7. RunInv'
  BY DEF CreatePool, RunInv
<1>. QED  BY <1>1, <1>2, <1>3, <1>4, <1>5, <1>6, <1>7

(***************************************************************************)
(* The queue arrays are allocated, with no engines yet.                    *)
(***************************************************************************)
LEMMA XdmaDevConfigureStep ==
    ASSUME IInv, xdma_dev_configure
    PROVE  IInv'
<1>. USE LifecycleAssumption
     DEF IInv, env, data, memory, NicPorts, Ports, AppPorts, BufferPool,
         SettingUp, TakingDown, Other
<1>1. TypeOK'
  <2>. HIDE DEF IInv, NicPorts, Ports, SettingUp, TakingDown, BufferPool, Other
  <2>0. TypeOK /\ NumQueues \in Nat
    BY LifecycleAssumption DEF IInv
  <2>1. port \in Ports
    BY DEF IInv, TypeOK, PhaseInv, xdma_dev_configure
  <2>2. /\ nb_queues' \in [Ports -> 0 .. NumQueues]
        /\ num_queues' \in [Ports -> 0 .. NumQueues]
    BY <2>0, <2>1 DEF xdma_dev_configure, TypeOK
  <2>3. arrays' \subseteq Ports /\ dev_configured' \subseteq Ports
    BY <2>0, <2>1 DEF xdma_dev_configure, TypeOK
  <2>4. x' \in 0 .. NumQueues
    BY <2>0 DEF xdma_dev_configure
  <2>. QED  BY <2>0, <2>2, <2>3, <2>4 DEF xdma_dev_configure, TypeOK
<1>2. PortsInv'
  BY DEF xdma_dev_configure, PortsInv
<1>3. PhaseInv'
  BY DEF xdma_dev_configure, PhaseInv
<1>4. PoolsInv'
  BY DEF xdma_dev_configure, PoolsInv
<1>5. QueueInv'
  <2>1. port \in Ports /\ NumQueues # 0
    BY DEF TypeOK, PhaseInv, xdma_dev_configure
  <2>2. \A p \in Ports : nb_queues'[p] = IF p \in arrays' THEN NumQueues ELSE 0
    BY <2>1 DEF xdma_dev_configure, TypeOK, QueueInv
  <2>3. app = "count" => \A p \in Ports : num_queues'[p] # 0 <=> p \in arrays'
    BY <2>1 DEF xdma_dev_configure, TypeOK, QueueInv
  <2>4. /\ arrays' \subseteq dev_configured'
        /\ arrays' \subseteq present \ NicPorts
    BY <2>1 DEF xdma_dev_configure, PhaseInv, QueueInv
  <2>. QED  BY <2>2, <2>3, <2>4 DEF xdma_dev_configure, QueueInv
<1>6. EngineInv'
  BY DEF xdma_dev_configure, PhaseInv, EngineInv, Engines, EnginesOf
<1>7. RunInv'
  BY DEF xdma_dev_configure, RunInv
<1>. QED  BY <1>1, <1>2, <1>3, <1>4, <1>5, <1>6, <1>7

(***************************************************************************)
(* The program crashes for want of memory.                                 *)
(***************************************************************************)
LEMMA SetupCrashStep ==
    ASSUME IInv, SetupCrash
    PROVE  IInv'
<1>. USE LifecycleAssumption
     DEF IInv, env, data, memory, NicPorts, Ports, AppPorts, BufferPool,
         SettingUp, TakingDown, Other
<1>1. TypeOK'
  BY DEF SetupCrash, TypeOK
<1>2. PortsInv'
  BY DEF SetupCrash, PortsInv
<1>3. PhaseInv'
  BY DEF SetupCrash, PhaseInv
<1>4. PoolsInv'
  BY DEF SetupCrash, PoolsInv
<1>5. QueueInv'
  BY DEF SetupCrash, QueueInv
<1>6. EngineInv'
  BY DEF SetupCrash, EngineInv
<1>7. RunInv'
  BY DEF SetupCrash, RunInv
<1>. QED  BY <1>1, <1>2, <1>3, <1>4, <1>5, <1>6, <1>7

(***************************************************************************)
(* The transmit engine of a queue is set up; no other has its name.        *)
(***************************************************************************)
LEMMA XdmaTxEngineSetupStep ==
    ASSUME IInv, xdma_tx_engine_setup
    PROVE  IInv'
<1>. USE LifecycleAssumption
     DEF IInv, env, data, memory, NicPorts, Ports, AppPorts, BufferPool,
         SettingUp, TakingDown, Other
<1>1. TypeOK'
  <2>1. <<port, "H2C", x>> \in Engines
    BY SetupEngine DEF xdma_tx_engine_setup, EnginesOf
  <2>2. x < NumQueues
    BY DEF xdma_tx_engine_setup, EngineInv
  <2>3. x' \in 0 .. NumQueues /\ pc' \in {"tx", "rx", "start"}
    BY <2>2 DEF xdma_tx_engine_setup, TypeOK
  <2>. QED  BY <2>1, <2>3 DEF xdma_tx_engine_setup, Setup, TypeOK
<1>2. PortsInv'
  BY DEF xdma_tx_engine_setup, PortsInv
<1>3. PhaseInv'
  BY DEF xdma_tx_engine_setup, PhaseInv
<1>4. PoolsInv'
  BY DEF xdma_tx_engine_setup, PoolsInv
<1>5. QueueInv'
  BY DEF xdma_tx_engine_setup, QueueInv
<1>6. EngineInv'
  BY DEF xdma_tx_engine_setup, Setup, PhaseInv, EngineInv, Engines, EnginesOf
<1>7. RunInv'
  BY DEF xdma_tx_engine_setup, Setup, TypeOK, EngineInv, RunInv, EnginesOf
<1>. QED  BY <1>1, <1>2, <1>3, <1>4, <1>5, <1>6, <1>7

(***************************************************************************)
(* The receive engine of a queue is set up; with the last one the port has *)
(* all its engines.                                                        *)
(***************************************************************************)
LEMMA XdmaRxEngineSetupStep ==
    ASSUME IInv, xdma_rx_engine_setup
    PROVE  IInv'
<1>. USE LifecycleAssumption
     DEF IInv, env, data, memory, NicPorts, Ports, AppPorts, BufferPool,
         SettingUp, TakingDown, Other
<1>1. TypeOK'
  <2>1. <<port, "C2H", x>> \in Engines
    BY SetupEngine DEF xdma_rx_engine_setup, EnginesOf
  <2>2. x < NumQueues
    BY DEF xdma_rx_engine_setup, EngineInv
  <2>3. x' \in 0 .. NumQueues /\ pc' \in {"tx", "rx", "start"}
    BY <2>2 DEF xdma_rx_engine_setup, TypeOK
  <2>. QED  BY <2>1, <2>3 DEF xdma_rx_engine_setup, Setup, TypeOK
<1>2. PortsInv'
  BY DEF xdma_rx_engine_setup, PortsInv
<1>3. PhaseInv'
  BY DEF xdma_rx_engine_setup, PhaseInv
<1>4. PoolsInv'
  BY DEF xdma_rx_engine_setup, PoolsInv
<1>5. QueueInv'
  BY DEF xdma_rx_engine_setup, QueueInv
<1>6. EngineInv'
  <2>1. x \in Nat /\ x < NumQueues /\ port \in arrays /\ port \in Ports
    BY DEF xdma_rx_engine_setup, TypeOK, PhaseInv, EngineInv
  <2>2. \A e \in EnginesOf(port) : e \in engines' <=> e[3] < x + 1
    <3>1. TAKE e \in EnginesOf(port)
    <3>2. /\ e = <<port, e[2], e[3]>> /\ e[2] \in {"H2C", "C2H"}
          /\ e[3] \in 0 .. NumQueues - 1
      BY DEF EnginesOf, Engines
    <3>3. e \in engines <=> e[3] < x \/ (e[2] = "H2C" /\ e[3] = x)
      BY DEF xdma_rx_engine_setup, EngineInv
    <3>4. e = <<port, "C2H", x>> <=> e[2] = "C2H" /\ e[3] = x
      BY <3>2
    <3>. QED  BY <2>1, <3>2, <3>3, <3>4 DEF xdma_rx_engine_setup, Setup
  <2>3. MoreQueues(x + 1) \/ EnginesOf(port) \subseteq engines'
    <3>1. ASSUME ~MoreQueues(x + 1)  PROVE  x + 1 = NumQueues
      BY <2>1, <3>1 DEF MoreQueues
    <3>2. \A e \in EnginesOf(port) : e[3] < NumQueues
      BY DEF EnginesOf, Engines
    <3>. QED  BY <2>2, <3>1, <3>2
  <2>4. \A e \in engines' : e[1] \in arrays
    BY <2>1 DEF xdma_rx_engine_setup, Setup, EngineInv
  <2>5. \A p \in arrays \ {port} : EnginesOf(p) \subseteq engines'
    BY DEF xdma_rx_engine_setup, Setup, EngineInv
  <2>6. port \notin fp_ops
    BY DEF xdma_rx_engine_setup, PhaseInv
  <2>7. /\ pc' = IF MoreQueues(x + 1) THEN "tx" ELSE "start"
        /\ x' = x + 1 /\ UNCHANGED <<port, arrays, fp_ops>>
    BY DEF xdma_rx_engine_setup
  <2>. QED  BY <2>1, <2>2, <2>3, <2>4, <2>5, <2>6, <2>7
            DEF EngineInv, MoreQueues
<1>7. RunInv'
  <2>. DEFINE e == <<port, "C2H", x>>
  <2>1. e \in EnginesOf(port)
    BY SetupEngine DEF xdma_rx_engine_setup
  <2>2. e[2] = "C2H" /\ e[3] = x /\ x \in Nat
    BY DEF TypeOK
  <2>. HIDE DEF e
  <2>3. e \notin engines
    BY <2>1, <2>2 DEF xdma_rx_engine_setup, EngineInv
  <2>. QED  BY <2>3 DEF xdma_rx_engine_setup, Setup, MoreQueues, RunInv, e
<1>. QED  BY <1>1, <1>2, <1>3, <1>4, <1>5, <1>6, <1>7

(***************************************************************************)
(* A port is started once it has all its engines.                          *)
(***************************************************************************)
LEMMA XdmaDevStartStep ==
    ASSUME IInv, xdma_dev_start
    PROVE  IInv'
<1>. USE LifecycleAssumption
     DEF IInv, env, data, memory, NicPorts, Ports, AppPorts, BufferPool,
         SettingUp, TakingDown, Other
<1>1. TypeOK'
  <2>. HIDE DEF IInv, NicPorts, Ports, SettingUp, TakingDown, BufferPool, Other
  <2>0. TypeOK
    BY DEF IInv
  <2>p. port \in Ports
    BY DEF IInv, TypeOK, xdma_dev_start, PhaseInv, QueueInv
  <2>1. InitReturns
    BY DEF xdma_dev_start
  <2>2. /\ port' \in Ports \cup {-1}
        /\ pc' \in {"pool", "join"}
        /\ tpc' \in [AppPorts -> {"new", "recv", "xmit", "wait", "done"}]
    BY <2>0, <2>1, InitReturnsTyped
  <2>3. dev_started' \subseteq Ports /\ fp_ops' \subseteq Ports
    BY <2>0, <2>p DEF xdma_dev_start, TypeOK
  <2>. QED  BY <2>0, <2>2, <2>3 DEF xdma_dev_start, TypeOK
<1>2. PortsInv'
  BY DEF xdma_dev_start, InitReturns, PortsInv
<1>3. PhaseInv'
  BY DEF xdma_dev_start, InitReturns, PhaseInv, RunInv
<1>4. PoolsInv'
  BY DEF xdma_dev_start, InitReturns, PoolsInv
<1>5. QueueInv'
  BY DEF xdma_dev_start, QueueInv
<1>6. EngineInv'
  BY DEF xdma_dev_start, InitReturns, EngineInv
<1>7. RunInv'
  BY DEF xdma_dev_start, InitReturns, PhaseInv, RunInv
<1>. QED  BY <1>1, <1>2, <1>3, <1>4, <1>5, <1>6, <1>7

(***************************************************************************)
(* Both threads have ended; some receive engines may still be running.     *)
(***************************************************************************)
LEMMA JoinStep ==
    ASSUME IInv, Join
    PROVE  IInv'
<1>. USE LifecycleAssumption
     DEF IInv, env, data, memory, NicPorts, Ports, AppPorts, BufferPool,
         SettingUp, TakingDown, Other
<1>1. TypeOK'
  <2>. HIDE DEF IInv, NicPorts, Ports, SettingUp, TakingDown, BufferPool, Other
  <2>0. TypeOK /\ 0 \in 0 .. num_ports
    BY LifecycleAssumption DEF IInv, TypeOK
  <2>1. /\ port' \in Ports \cup {-1} /\ down' \in 0 .. MaxPorts
        /\ pc' \in {"ports", "end", "cleanup"}
    <3>1. CASE NextPort(0)
      BY <2>0, <3>1, NextPortTyped
    <3>2. CASE pc' = "cleanup" /\ UNCHANGED <<down, port>>
      BY <2>0, <3>2 DEF TypeOK
    <3>. QED  BY <3>1, <3>2 DEF Join
  <2>. QED  BY <2>0, <2>1 DEF Join, TypeOK
<1>2. PortsInv'
  <2>. HIDE DEF IInv, NicPorts, Ports, AppPorts, BufferPool, Other
  <2>1. /\ present = 0 .. num_ports - 1 /\ num_ports \in 1 .. MaxPorts
        /\ UNCHANGED <<app, num_ports, present, held>>
    BY DEF Join, IInv, PortsInv, TypeOK
  <2>2. CASE app = "count" /\ NextPort(0)
    <3>1. /\ down' = 0 /\ port' = num_ports - 1 /\ pc' = "ports"
      BY <2>1, <2>2 DEF NextPort, CloseOrder
    <3>. QED  BY <2>1, <2>2, <3>1 DEF IInv, PortsInv, NicPorts
  <2>3. CASE app = "inter" /\ pc' = "cleanup"
    BY <2>1, <2>3 DEF IInv, PortsInv, NicPorts
  <2>. QED  BY <2>2, <2>3 DEF Join
<1>3. PhaseInv'
  BY DEF Join, NextPort, PhaseInv
<1>4. PoolsInv'
  BY DEF Join, NextPort, TypeOK, PoolsInv
<1>5. QueueInv'
  BY DEF Join, QueueInv
<1>6. EngineInv'
  BY DEF Join, NextPort, EngineInv
<1>7. RunInv'
  BY DEF Join, Joined, RunInv
<1>. QED  BY <1>1, <1>2, <1>3, <1>4, <1>5, <1>6, <1>7

(***************************************************************************)
(* The next port is looked at: the last one that is left.                  *)
(***************************************************************************)
LEMMA TakeDownStep ==
    ASSUME IInv, TakeDown
    PROVE  IInv'
<1>. USE LifecycleAssumption
     DEF IInv, env, data, memory, NicPorts, Ports, AppPorts, BufferPool,
         SettingUp, TakingDown, Other
<1>0. port \in present
  <2>1. /\ down \in 0 .. num_ports - 1 /\ num_ports \in Nat
        /\ port = num_ports - 1 - down /\ present = 0 .. port
    BY DEF TakeDown, TypeOK, PortsInv
  <2>. QED  BY <2>1
<1>1. TypeOK'
  <2>. HIDE DEF IInv, NicPorts, Ports, SettingUp, TakingDown, BufferPool, Other
  <2>0. TypeOK
    BY DEF IInv
  <2>1. pc' \in {"stop", "remove"} /\ UNCHANGED <<down, port>>
    BY <1>0 DEF TakeDown, CloseFirst
  <2>. QED  BY <2>0, <2>1 DEF TakeDown, TypeOK
<1>2. PortsInv'
  <2>1. /\ app = "count" /\ down \in 0 .. num_ports - 1
        /\ port = num_ports - 1 - down /\ present = 0 .. port
        /\ num_ports \in Nat
    BY DEF TakeDown, TypeOK, PortsInv
  <2>2. /\ UNCHANGED <<app, num_ports, present, held, port, down>>
        /\ pc' \in {"stop", "remove"}
    BY <1>0 DEF TakeDown, CloseFirst
  <2>. QED  BY <2>1, <2>2 DEF PortsInv
<1>3. PhaseInv'
  <2>. HIDE DEF NicPorts, Ports, AppPorts, BufferPool, Other
  <2>1. /\ pc' = IF num_queues[port] # 0 THEN "stop" ELSE "remove"
        /\ UNCHANGED <<port, arrays, fp_ops>>
    BY <1>0 DEF TakeDown, CloseFirst
  <2>2. num_queues[port] # 0 <=> port \in arrays
    BY <1>0 DEF TakeDown, TypeOK, PortsInv, QueueInv
  <2>. QED  BY <2>1, <2>2 DEF PhaseInv
<1>4. PoolsInv'
  BY <1>0 DEF TakeDown, CloseFirst, PoolsInv
<1>5. QueueInv'
  BY DEF TakeDown, QueueInv
<1>6. EngineInv'
  BY <1>0 DEF TakeDown, CloseFirst, EngineInv
<1>7. RunInv'
  BY <1>0 DEF TakeDown, CloseFirst, RunInv
<1>. QED  BY <1>1, <1>2, <1>3, <1>4, <1>5, <1>6, <1>7

(***************************************************************************)
(* Stopping a port stops all its engines, those that threads have left     *)
(* running among them.                                                     *)
(***************************************************************************)
LEMMA XdmaDevStopStep ==
    ASSUME IInv, xdma_dev_stop
    PROVE  IInv'
<1>. USE LifecycleAssumption
     DEF IInv, env, data, memory, NicPorts, Ports, AppPorts, BufferPool,
         SettingUp, TakingDown, Other
<1>0. \A p \in Ports :
         Owned(p) = IF p \in arrays THEN EnginesOf(p) ELSE {}
  BY OwnedAll
<1>1. TypeOK'
  BY DEF xdma_dev_stop, Walks, TypeOK
<1>2. PortsInv'
  BY DEF xdma_dev_stop, PortsInv
<1>3. PhaseInv'
  BY DEF xdma_dev_stop, PhaseInv, RunInv
<1>4. PoolsInv'
  BY DEF xdma_dev_stop, PoolsInv
<1>5. QueueInv'
  BY DEF xdma_dev_stop, QueueInv
<1>6. EngineInv'
  BY DEF xdma_dev_stop, EngineInv
<1>7. RunInv'
  <2>1. port \in arrays /\ port \in Ports
    BY DEF xdma_dev_stop, PhaseInv, TypeOK
  <2>2. EnginesOf(port) \subseteq engines
    BY <2>1 DEF xdma_dev_stop, EngineInv
  <2>3. Owned(port) = EnginesOf(port)
    BY <1>0, <2>1
  <2>4. ~fault'
    BY <2>1, <2>2, <2>3 DEF xdma_dev_stop, Walks, RunInv
  <2>5. \A e \in running' : e \in engines /\ e[1] \in fp_ops'
    BY <2>3 DEF xdma_dev_stop, RunInv, EnginesOf, TypeOK
  <2>. QED  BY <2>4, <2>5 DEF xdma_dev_stop, RunInv
<1>. QED  BY <1>1, <1>2, <1>3, <1>4, <1>5, <1>6, <1>7

(***************************************************************************)
(* Closing frees the engines of a port that has been stopped.              *)
(***************************************************************************)
LEMMA RtePmdXdmaDevCloseStep ==
    ASSUME IInv, rte_pmd_xdma_dev_close
    PROVE  IInv'
<1>. USE LifecycleAssumption
     DEF IInv, env, data, memory, NicPorts, Ports, AppPorts, BufferPool,
         SettingUp, TakingDown, Other
<1>0. \A p \in Ports :
         Owned(p) = IF p \in arrays THEN EnginesOf(p) ELSE {}
  BY OwnedAll
<1>1. TypeOK'
  <2>. HIDE DEF IInv, NicPorts, Ports, SettingUp, TakingDown, BufferPool, Other
  <2>0. TypeOK /\ NumQueues \in Nat
    BY LifecycleAssumption DEF IInv
  <2>1. port \in Ports
    BY DEF IInv, TypeOK, PhaseInv, rte_pmd_xdma_dev_close
  <2>2. /\ nb_queues' \in [Ports -> 0 .. NumQueues]
        /\ num_queues' \in [Ports -> 0 .. NumQueues]
    BY <2>0, <2>1 DEF rte_pmd_xdma_dev_close, NoQueues, TypeOK
  <2>3. fault' \in BOOLEAN
    BY DEF rte_pmd_xdma_dev_close, Walks
  <2>. QED  BY <2>0, <2>2, <2>3 DEF rte_pmd_xdma_dev_close, TypeOK
<1>2. PortsInv'
  BY DEF rte_pmd_xdma_dev_close, PortsInv
<1>3. PhaseInv'
  BY DEF rte_pmd_xdma_dev_close, PhaseInv
<1>4. PoolsInv'
  BY DEF rte_pmd_xdma_dev_close, PhaseInv, PoolsInv
<1>5. QueueInv'
  BY DEF rte_pmd_xdma_dev_close, NoQueues, TypeOK, QueueInv
<1>6. EngineInv'
  <2>. HIDE DEF IInv, NicPorts, Ports, AppPorts, BufferPool, Other
  <2>0. port \in arrays /\ port \in Ports
    BY DEF IInv, TypeOK, PhaseInv, rte_pmd_xdma_dev_close
  <2>1. /\ engines' = engines \ EnginesOf(port)
        /\ arrays' = arrays \ {port}
        /\ pc = "close" /\ pc' = "unpool"
        /\ UNCHANGED <<port, x, fp_ops>>
    BY <1>0, <2>0 DEF rte_pmd_xdma_dev_close
  <2>2. \A e \in engines : e[1] \in arrays /\ e \in Engines
    BY DEF IInv, TypeOK, EngineInv
  <2>3. \A p \in arrays : EnginesOf(p) \subseteq engines
    BY <2>1 DEF IInv, EngineInv
  <2>4. \A e \in engines' : e[1] \in arrays'
    BY <2>1, <2>2 DEF EnginesOf
  <2>5. \A p \in arrays' : EnginesOf(p) \subseteq engines'
    BY <2>1, <2>3 DEF EnginesOf
  <2>. QED  BY <2>1, <2>4, <2>5 DEF EngineInv
<1>7. RunInv'
  BY <1>0
  DEF rte_pmd_xdma_dev_close, Walks, TypeOK, PhaseInv, EngineInv, RunInv,
      EnginesOf
<1>. QED  BY <1>1, <1>2, <1>3, <1>4, <1>5, <1>6, <1>7

(***************************************************************************)
(* The pool is freed.  If it is the pool of port 0, which all engines use, *)
(* no port is left that could have one running.                            *)
(***************************************************************************)
LEMMA FreePoolStep ==
    ASSUME IInv, FreePool
    PROVE  IInv'
<1>. USE LifecycleAssumption
     DEF IInv, env, data, memory, NicPorts, Ports, AppPorts, BufferPool,
         SettingUp, TakingDown, Other
<1>1. TypeOK'
  BY DEF FreePool, TypeOK
<1>2. PortsInv'
  BY DEF FreePool, PortsInv
<1>3. PhaseInv'
  BY DEF FreePool, PhaseInv
<1>4. PoolsInv'
  BY DEF FreePool, PortsInv, PhaseInv, PoolsInv, QueueInv, RunInv, Engines
<1>5. QueueInv'
  BY DEF FreePool, QueueInv
<1>6. EngineInv'
  BY DEF FreePool, EngineInv
<1>7. RunInv'
  BY DEF FreePool, RunInv
<1>. QED  BY <1>1, <1>2, <1>3, <1>4, <1>5, <1>6, <1>7

(***************************************************************************)
(* A port is removed by testapp_count, whether it was ever set up or not.  *)
(***************************************************************************)
LEMMA RtePmdXdmaDevRemoveStep ==
    ASSUME IInv, rte_pmd_xdma_dev_remove
    PROVE  IInv'
<1>. USE LifecycleAssumption
     DEF IInv, env, data, memory, NicPorts, Ports, AppPorts, BufferPool,
         SettingUp, TakingDown, Other
<1>0. \A p \in Ports :
         Owned(p) = IF p \in arrays THEN EnginesOf(p) ELSE {}
  BY OwnedAll
<1>p. port \in Ports /\ pc = "remove" /\ xdma_eth_dev_uninit(port)
  BY DEF rte_pmd_xdma_dev_remove, PortsInv, TypeOK
<1>u. UninitEffect(port)
  BY <1>p, UninitWorks
<1>1. TypeOK'
  <2>. HIDE DEF IInv, NicPorts, Ports, AppPorts, BufferPool, Other
  <2>0. TypeOK /\ NumQueues \in Nat
    BY LifecycleAssumption DEF IInv
  <2>1. down + 1 \in 0 .. num_ports /\ NextPort(down + 1)
    BY DEF rte_pmd_xdma_dev_remove, IInv, TypeOK, PortsInv
  <2>2. /\ port' \in Ports \cup {-1} /\ down' \in 0 .. MaxPorts
        /\ pc' \in {"ports", "end"}
    BY <2>0, <2>1, NextPortTyped
  <2>3. /\ held' \in [Ports -> SUBSET Probe]
        /\ nb_queues' \in [Ports -> 0 .. NumQueues]
    BY <1>p, <1>u, <2>0 DEF UninitEffect, xdma_eth_dev_uninit, TypeOK
  <2>. QED  BY <1>u, <2>0, <2>2, <2>3
            DEF UninitEffect, rte_pmd_xdma_dev_remove, xdma_eth_dev_uninit,
                TypeOK
<1>2. PortsInv'
  <2>1. /\ port = num_ports - 1 - down /\ down \in 0 .. num_ports - 1
        /\ app = "count" /\ present = 0 .. port
    BY DEF rte_pmd_xdma_dev_remove, PortsInv
  <2>. HIDE DEF IInv, NicPorts, Ports, AppPorts, BufferPool, Other
  <2>n. down \in Nat /\ num_ports \in Nat /\ port \in Nat
    BY <2>1 DEF IInv, TypeOK
  <2>a. 0 .. port - 1 = (0 .. port) \ {port}
    BY <2>n
  <2>b. IF down + 1 < num_ports
          THEN num_ports - 1 - (down + 1) = port - 1
          ELSE port = 0
    BY <2>1, <2>n
  <2>2. /\ present' = 0 .. port - 1 /\ UNCHANGED <<app, num_ports>>
        /\ IF down + 1 < num_ports
             THEN port' = port - 1 /\ down' = down + 1 /\ pc' = "ports"
             ELSE pc' = "end" /\ port = 0
    <3>1. /\ present' = present \ {port} /\ UNCHANGED <<app, num_ports>>
          /\ NextPort(down + 1)
      BY DEF rte_pmd_xdma_dev_remove, xdma_eth_dev_uninit
    <3>. QED  BY <2>1, <2>a, <2>b, <3>1 DEF NextPort, CloseOrder
  <2>3. \A q \in Ports :
            held'[q] = IF q \in present' \ NicPorts THEN Probe ELSE {}
    <3>2. \A q \in Ports : q \in present' <=> q \in present /\ q # port
      BY <2>1, <2>2, <2>a
    <3>3. \A q \in Ports : held'[q] = IF q = port THEN {} ELSE held[q]
      BY <1>p, <1>u DEF UninitEffect, IInv, TypeOK
    <3>4. \A q \in Ports : held[q] = IF q \in present THEN Probe ELSE {}
      BY <2>1 DEF IInv, PortsInv, NicPorts
    <3>5. app = "count"
      BY <2>1
    <3>. QED  BY <3>2, <3>3, <3>4, <3>5, <2>2 DEF NicPorts
  <2>4. pc' = "ports" => /\ down' \in 0 .. num_ports - 1
                         /\ port' = num_ports - 1 - down'
                         /\ present' = 0 .. port'
    <3>. HAVE pc' = "ports"
    <3>1. /\ down + 1 < num_ports /\ port' = port - 1 /\ down' = down + 1
          /\ present' = 0 .. port - 1
      BY <2>2
    <3>2. /\ down + 1 \in 0 .. num_ports - 1
          /\ port - 1 = num_ports - 1 - (down + 1)
      BY <2>1, <2>n, <3>1
    <3>. QED  BY <3>1, <3>2
  <2>5. pc' = "end" => present' = {}
    BY <2>2, <2>a
  <2>6. pc' \in {"ports", "end"}
    BY <2>2
  <2>. QED  BY <2>1, <2>2, <2>3, <2>4, <2>5, <2>6 DEF PortsInv, NicPorts
<1>3. PhaseInv'
  BY DEF rte_pmd_xdma_dev_remove, NextPort, PhaseInv
<1>4. PoolsInv'
  BY <1>u
  DEF rte_pmd_xdma_dev_remove, UninitEffect, NextPort, xdma_eth_dev_uninit,
      TypeOK, PortsInv, PhaseInv, PoolsInv, QueueInv
<1>5. QueueInv'
  BY DEF rte_pmd_xdma_dev_remove, xdma_eth_dev_uninit, PhaseInv, QueueInv
<1>6. EngineInv'
  <2>. HIDE DEF IInv, NicPorts, Ports, AppPorts, BufferPool, Other
  <2>1. /\ engines' = engines \ EnginesOf(port)
        /\ arrays' = arrays \ {port}
        /\ pc = "remove" /\ pc' \in {"ports", "end"}
    BY <1>p, <1>u
    DEF UninitEffect, rte_pmd_xdma_dev_remove, xdma_eth_dev_uninit, NextPort
  <2>2. \A e \in engines : e[1] \in arrays /\ e \in Engines
    BY DEF IInv, TypeOK, EngineInv
  <2>3. \A p \in arrays : EnginesOf(p) \subseteq engines
    BY <2>1 DEF IInv, EngineInv
  <2>4. \A e \in engines' : e[1] \in arrays'
    BY <2>1, <2>2 DEF EnginesOf
  <2>5. \A p \in arrays' : EnginesOf(p) \subseteq engines'
    BY <2>1, <2>3 DEF EnginesOf
  <2>. QED  BY <2>1, <2>4, <2>5 DEF EngineInv
<1>7. RunInv'
  BY <1>u
  DEF rte_pmd_xdma_dev_remove, UninitEffect, NextPort, xdma_eth_dev_uninit,
      PhaseInv, RunInv
<1>. QED  BY <1>1, <1>2, <1>3, <1>4, <1>5, <1>6, <1>7

(***************************************************************************)
(* A port is removed by rte_eal_cleanup, which has not stopped it before.  *)
(***************************************************************************)
LEMMA CleanupDeviceStep ==
    ASSUME IInv, CleanupDevice
    PROVE  IInv'
<1>. USE LifecycleAssumption
     DEF IInv, env, data, memory, NicPorts, Ports, AppPorts, BufferPool,
         SettingUp, TakingDown, Other
<1>. PICK p \in present : xdma_eth_dev_uninit(p)
  BY DEF CleanupDevice
<1>u. p \in Ports /\ UninitEffect(p)
  BY UninitWorks DEF CleanupDevice, TypeOK
<1>1. TypeOK'
  <2>. HIDE DEF IInv, NicPorts, Ports, SettingUp, TakingDown, BufferPool, Other
  <2>0. TypeOK /\ NumQueues \in Nat
    BY LifecycleAssumption DEF IInv
  <2>1. /\ held' \in [Ports -> SUBSET Probe]
        /\ nb_queues' \in [Ports -> 0 .. NumQueues]
    BY <1>u, <2>0 DEF UninitEffect, xdma_eth_dev_uninit, TypeOK
  <2>. QED  BY <1>u, <2>0, <2>1
            DEF UninitEffect, CleanupDevice, xdma_eth_dev_uninit, TypeOK
<1>2. PortsInv'
  <2>1. \A q \in Ports :
            held'[q] = IF q \in present' \ NicPorts THEN Probe ELSE {}
    BY <1>u
    DEF UninitEffect, CleanupDevice, xdma_eth_dev_uninit, PortsInv, TypeOK
  <2>. QED  BY <2>1 DEF CleanupDevice, xdma_eth_dev_uninit, PortsInv
<1>3. PhaseInv'
  BY DEF CleanupDevice, PhaseInv
<1>4. PoolsInv'
  BY <1>u
  DEF CleanupDevice, UninitEffect, xdma_eth_dev_uninit, PortsInv, PoolsInv
<1>5. QueueInv'
  BY DEF CleanupDevice, xdma_eth_dev_uninit, TypeOK, PortsInv, QueueInv
<1>6. EngineInv'
  BY <1>u
  DEF CleanupDevice, UninitEffect, xdma_eth_dev_uninit, TypeOK, EngineInv,
      EnginesOf
<1>7. RunInv'
  BY <1>u
  DEF CleanupDevice, UninitEffect, xdma_eth_dev_uninit, TypeOK, RunInv,
      EnginesOf
<1>. QED  BY <1>1, <1>2, <1>3, <1>4, <1>5, <1>6, <1>7

(***************************************************************************)
(* rte_eal_cleanup gives back all memory, after all ports have been        *)
(* removed.                                                                *)
(***************************************************************************)
LEMMA CleanupMemoryStep ==
    ASSUME IInv, CleanupMemory
    PROVE  IInv'
<1>. USE LifecycleAssumption
     DEF IInv, env, data, memory, NicPorts, Ports, AppPorts, BufferPool,
         SettingUp, TakingDown, Other
<1>1. TypeOK'
  BY DEF CleanupMemory, TypeOK
<1>2. PortsInv'
  BY DEF CleanupMemory, PortsInv
<1>3. PhaseInv'
  BY DEF CleanupMemory, PhaseInv
<1>4. PoolsInv'
  BY DEF CleanupMemory, PoolsInv, QueueInv, RunInv
<1>5. QueueInv'
  BY DEF CleanupMemory, QueueInv
<1>6. EngineInv'
  BY DEF CleanupMemory, EngineInv
<1>7. RunInv'
  BY DEF CleanupMemory, RunInv
<1>. QED  BY <1>1, <1>2, <1>3, <1>4, <1>5, <1>6, <1>7

(***************************************************************************)
(* switch_start crashes if there is no XDMA port.                          *)
(***************************************************************************)
LEMMA SwitchCrashStep ==
    ASSUME IInv, SwitchCrash
    PROVE  IInv'
<1>. USE LifecycleAssumption
     DEF IInv, env, data, memory, NicPorts, Ports, AppPorts, BufferPool,
         SettingUp, TakingDown, Other
<1>1. TypeOK'
  BY DEF SwitchCrash, TypeOK
<1>2. PortsInv'
  BY DEF SwitchCrash, PortsInv
<1>3. PhaseInv'
  BY DEF SwitchCrash, PhaseInv
<1>4. PoolsInv'
  BY DEF SwitchCrash, PoolsInv
<1>5. QueueInv'
  BY DEF SwitchCrash, QueueInv
<1>6. EngineInv'
  BY DEF SwitchCrash, EngineInv
<1>7. RunInv'
  BY DEF SwitchCrash, RunInv
<1>. QED  BY <1>1, <1>2, <1>3, <1>4, <1>5, <1>6, <1>7

(***************************************************************************)
(* A receive burst uses an engine that is there.                           *)
(***************************************************************************)
LEMMA RecvBurstStep ==
    ASSUME IInv, NEW t \in AppPorts, NEW to \in {"recv", "xmit", "done"},
           RecvBurst(t, to)
    PROVE  IInv'
<1>. USE LifecycleAssumption
     DEF IInv, env, data, memory, NicPorts, Ports, AppPorts, BufferPool,
         SettingUp, TakingDown, Other
<1>j. pc = "join"
  BY ThreadsInJoin DEF RecvBurst
<1>1. TypeOK'
  <2>1. <<t, "C2H", 0>> \in Engines
    BY DEF Engines
  <2>. QED  BY <1>j, <2>1 DEF RecvBurst, ThreadStep, Uses, TypeOK
<1>2. PortsInv'
  BY <1>j DEF RecvBurst, ThreadStep, PortsInv
<1>3. PhaseInv'
  BY <1>j DEF RecvBurst, ThreadStep, PhaseInv
<1>4. PoolsInv'
  BY <1>j DEF RecvBurst, ThreadStep, PoolsInv
<1>5. QueueInv'
  BY <1>j DEF RecvBurst, ThreadStep, QueueInv
<1>6. EngineInv'
  BY <1>j DEF RecvBurst, ThreadStep, EngineInv
<1>7. RunInv'
  <2>. DEFINE e == <<t, "C2H", 0>>
  <2>1. e \in Engines /\ e[1] = t
    BY DEF Engines
  <2>2. t \in fp_ops
            => t \in arrays /\ e \in engines /\ "hw_access" \in held[t]
    <3>. HIDE DEF IInv, NicPorts, Ports, AppPorts, BufferPool, Other
    <3>. QED  BY <1>j, FastPathReady
  <2>. HIDE DEF e
  <2>3. \A f \in running' : f \in running \/ (f = e /\ t \in fp_ops)
    BY <1>j, <2>1 DEF RecvBurst, ThreadStep, RunInv, e
  <2>4. ~fault'
    BY <1>j, <2>1, <2>2 DEF RecvBurst, ThreadStep, RunInv, Uses, e
  <2>5. \A s \in AppPorts : pc' = "join" /\ tpc'[s] = "wait"
            => Other(s) \in fp_ops
    BY <1>j DEF RecvBurst, ThreadStep, RunInv, TypeOK
  <2>. QED  BY <1>j, <2>1, <2>2, <2>3, <2>4, <2>5
            DEF RecvBurst, ThreadStep, RunInv
<1>. QED  BY <1>1, <1>2, <1>3, <1>4, <1>5, <1>6, <1>7

(***************************************************************************)
(* A transmit burst starts an engine that is there ...                     *)
(***************************************************************************)
LEMMA XmitBurstStep ==
    ASSUME IInv, NEW t \in AppPorts, XmitBurst(t)
    PROVE  IInv'
<1>. USE LifecycleAssumption
     DEF IInv, env, data, memory, NicPorts, Ports, AppPorts, BufferPool,
         SettingUp, TakingDown, Other
<1>j. pc = "join"
  BY ThreadsInJoin DEF XmitBurst
<1>1. TypeOK'
  <2>1. <<1 - t, "H2C", 0>> \in Engines
    BY DEF Engines
  <2>. QED  BY <1>j, <2>1 DEF XmitBurst, ThreadStep, Uses, TypeOK
<1>2. PortsInv'
  BY <1>j DEF XmitBurst, ThreadStep, PortsInv
<1>3. PhaseInv'
  BY <1>j DEF XmitBurst, ThreadStep, PhaseInv
<1>4. PoolsInv'
  BY <1>j DEF XmitBurst, ThreadStep, PoolsInv
<1>5. QueueInv'
  BY <1>j DEF XmitBurst, ThreadStep, QueueInv
<1>6. EngineInv'
  BY <1>j DEF XmitBurst, ThreadStep, EngineInv
<1>7. RunInv'
  <2>. DEFINE e == <<1 - t, "H2C", 0>>
  <2>1. e \in Engines /\ e[1] = 1 - t
    BY DEF Engines
  <2>2. 1 - t \in fp_ops
            => 1 - t \in arrays /\ e \in engines /\ "hw_access" \in held[1 - t]
    <3>. HIDE DEF IInv, NicPorts, Ports, AppPorts, BufferPool, Other
    <3>. QED  BY <1>j, FastPathReady
  <2>. HIDE DEF e
  <2>3. \A f \in running' : f \in running \/ (f = e /\ 1 - t \in fp_ops)
    BY <1>j, <2>1 DEF XmitBurst, ThreadStep, RunInv, e
  <2>4. ~fault'
    BY <1>j, <2>1, <2>2 DEF XmitBurst, ThreadStep, RunInv, Uses, e
  <2>5. \A s \in AppPorts : pc' = "join" /\ tpc'[s] = "wait"
            => Other(s) \in fp_ops
    BY <1>j DEF XmitBurst, ThreadStep, RunInv, TypeOK
  <2>. QED  BY <1>j, <2>1, <2>2, <2>3, <2>4, <2>5
            DEF XmitBurst, ThreadStep, RunInv
<1>. QED  BY <1>1, <1>2, <1>3, <1>4, <1>5, <1>6, <1>7

(***************************************************************************)
(* ... and stops it; the port has not gone away in between, since main()   *)
(* waits for the threads.                                                  *)
(***************************************************************************)
LEMMA XmitReturnStep ==
    ASSUME IInv, NEW t \in AppPorts, NEW to \in {"recv", "done"}, XmitReturn(t,
           to)
    PROVE  IInv'
<1>. USE LifecycleAssumption
     DEF IInv, env, data, memory, NicPorts, Ports, AppPorts, BufferPool,
         SettingUp, TakingDown, Other
<1>j. pc = "join"
  BY ThreadsInJoin DEF XmitReturn
<1>1. TypeOK'
  <2>1. <<1 - t, "H2C", 0>> \in Engines
    BY DEF Engines
  <2>. QED  BY <1>j, <2>1 DEF XmitReturn, ThreadStep, Uses, TypeOK
<1>2. PortsInv'
  BY <1>j DEF XmitReturn, ThreadStep, PortsInv
<1>3. PhaseInv'
  BY <1>j DEF XmitReturn, ThreadStep, PhaseInv
<1>4. PoolsInv'
  BY <1>j DEF XmitReturn, ThreadStep, PoolsInv
<1>5. QueueInv'
  BY <1>j DEF XmitReturn, ThreadStep, QueueInv
<1>6. EngineInv'
  BY <1>j DEF XmitReturn, ThreadStep, EngineInv
<1>7. RunInv'
  <2>. DEFINE e == <<1 - t, "H2C", 0>>
  <2>1. e \in Engines /\ e[1] = 1 - t
    BY DEF Engines
  <2>2. 1 - t \in fp_ops
            => 1 - t \in arrays /\ e \in engines /\ "hw_access" \in held[1 - t]
    <3>. HIDE DEF IInv, NicPorts, Ports, AppPorts, BufferPool, Other
    <3>. QED  BY <1>j, FastPathReady
  <2>. HIDE DEF e
  <2>3. \A f \in running' : f \in running \/ (f = e /\ 1 - t \in fp_ops)
    BY <1>j, <2>1 DEF XmitReturn, ThreadStep, RunInv, e
  <2>4. ~fault'
    BY <1>j, <2>1, <2>2 DEF XmitReturn, ThreadStep, RunInv, Uses, e
  <2>5. \A s \in AppPorts : pc' = "join" /\ tpc'[s] = "wait"
            => Other(s) \in fp_ops
    BY <1>j DEF XmitReturn, ThreadStep, RunInv, TypeOK
  <2>. QED  BY <1>j, <2>1, <2>2, <2>3, <2>4, <2>5
            DEF XmitReturn, ThreadStep, RunInv
<1>. QED  BY <1>1, <1>2, <1>3, <1>4, <1>5, <1>6, <1>7

(***************************************************************************)
(* A burst to the NIC, or to a port that is not there.                     *)
(***************************************************************************)
LEMMA XmitElsewhereStep ==
    ASSUME IInv, NEW t \in AppPorts, NEW to \in {"recv", "done"},
           XmitElsewhere(t, to)
    PROVE  IInv'
<1>. USE LifecycleAssumption
     DEF IInv, env, data, memory, NicPorts, Ports, AppPorts, BufferPool,
         SettingUp, TakingDown, Other
<1>j. pc = "join"
  BY ThreadsInJoin DEF XmitElsewhere
<1>1. TypeOK'
  BY <1>j DEF XmitElsewhere, ThreadStep, TypeOK
<1>2. PortsInv'
  BY <1>j DEF XmitElsewhere, ThreadStep, PortsInv
<1>3. PhaseInv'
  BY <1>j DEF XmitElsewhere, ThreadStep, PhaseInv
<1>4. PoolsInv'
  BY <1>j DEF XmitElsewhere, ThreadStep, PoolsInv
<1>5. QueueInv'
  BY <1>j DEF XmitElsewhere, ThreadStep, QueueInv
<1>6. EngineInv'
  BY <1>j DEF XmitElsewhere, ThreadStep, EngineInv
<1>7. RunInv'
  BY <1>j DEF XmitElsewhere, ThreadStep, RunInv
<1>. QED  BY <1>1, <1>2, <1>3, <1>4, <1>5, <1>6, <1>7

-----------------------------------------------------------------------------
(***************************************************************************)
(* Every step of main() and of the threads preserves the invariant.        *)
(***************************************************************************)
LEMMA Inductive ==
    ASSUME IInv, [Next]_vars  PROVE IInv'
<1>1. CASE Main
  BY <1>1, InitNoDeviceStep, InitExitStep, PortInitNicStep, CreatePoolStep,
     XdmaDevConfigureStep, SetupCrashStep, XdmaTxEngineSetupStep,
     XdmaRxEngineSetupStep, XdmaDevStartStep, JoinStep, TakeDownStep,
     XdmaDevStopStep, RtePmdXdmaDevCloseStep, FreePoolStep,
     RtePmdXdmaDevRemoveStep, CleanupDeviceStep, CleanupMemoryStep,
     SwitchCrashStep
  DEF Main
<1>2. ASSUME NEW t \in AppPorts, Thread(t)  PROVE IInv'
  BY <1>2, RecvBurstStep, XmitBurstStep, XmitReturnStep, XmitElsewhereStep
  DEF Thread
<1>3. CASE UNCHANGED vars
  BY <1>3
  DEF vars, IInv, TypeOK, PortsInv, PhaseInv, PoolsInv, QueueInv, EngineInv,
      RunInv, NicPorts
<1>. QED  BY <1>1, <1>2, <1>3 DEF Next

(***************************************************************************)
(* The invariant holds throughout.                                         *)
(***************************************************************************)
LEMMA InvariantHolds == Spec => []IInv
<1>1. Init => IInv
  BY InitIInv
<1>2. IInv /\ [Next]_vars => IInv'
  BY Inductive
<1>. QED  BY <1>1, <1>2, PTL DEF Spec

(***************************************************************************)
(* The life cycle is well typed.                                           *)
(***************************************************************************)
THEOREM LifecycleTyped == Spec => []TypeOK
<1>1. IInv => TypeOK
  BY DEF IInv
<1>. QED  BY <1>1, InvariantHolds, PTL

(***************************************************************************)
(* For any number of ports and queues, the hardware runs only engines      *)
(* whose memory is there, together with the pool that all buffers come     *)
(* from: also after the threads have ended, while ports are taken down one *)
(* by one, and inside rte_eal_cleanup.                                     *)
(***************************************************************************)
THEOREM LifecycleDma == Spec => []DmaIntoLiveMemory
<1>1. IInv => DmaIntoLiveMemory
  BY DEF IInv, PoolsInv, RunInv, DmaIntoLiveMemory
<1>. QED  BY <1>1, InvariantHolds, PTL

(***************************************************************************)
(* Whatever a burst can reach through the fast path is there.              *)
(***************************************************************************)
THEOREM LifecycleFastPath == Spec => []FastPathLive
<1>1. ASSUME IInv, NEW p \in fp_ops
      PROVE  /\ p \in arrays
             /\ \A e \in Engines : e[1] = p => e \in engines
             /\ "hw_access" \in held[p]
  <2>1. p \in arrays /\ p \in present \ NicPorts /\ p \in Ports
    BY <1>1 DEF IInv, RunInv, QueueInv, TypeOK
  <2>2. EnginesOf(p) \subseteq engines
    BY <1>1, <2>1 DEF IInv, EngineInv
  <2>3. held[p] = Probe
    BY <1>1, <2>1 DEF IInv, PortsInv
  <2>. QED  BY <2>1, <2>2, <2>3 DEF EnginesOf, Probe
<1>2. IInv => FastPathLive
  BY <1>1 DEF FastPathLive
<1>. QED  BY <1>2, InvariantHolds, PTL

(***************************************************************************)
(* Nothing of a port is used or freed once it is freed, neither by main()  *)
(* nor by a thread, and no queue is set up over another, although ports    *)
(* are closed twice and threads are kept out by the join alone.  Of the    *)
(* NULL pointers of SetupCrash and SwitchCrash this says nothing.          *)
(***************************************************************************)
THEOREM LifecycleNoFault == Spec => []NoFault
<1>1. IInv => NoFault
  BY DEF IInv, RunInv, NoFault
<1>. QED  BY <1>1, InvariantHolds, PTL

(***************************************************************************)
(* When main() returns nothing is left, in either application.             *)
(***************************************************************************)
THEOREM LifecycleNothingLeft == Spec => []NothingLeftBehind
<1>1. ASSUME IInv, pc = "end"
      PROVE  /\ present = {} /\ running = {} /\ engines = {}
             /\ pools = {} /\ arrays = {}
             /\ \A p \in Ports : held[p] = {}
  <2>1. present = {} /\ pools = {}
    BY <1>1 DEF IInv, PortsInv, PoolsInv
  <2>2. arrays = {} /\ fp_ops = {}
    BY <1>1, <2>1 DEF IInv, QueueInv, RunInv
  <2>3. engines = {} /\ running = {}
    BY <1>1, <2>2 DEF IInv, EngineInv, RunInv
  <2>4. \A p \in Ports : held[p] = {}
    BY <1>1, <2>1 DEF IInv, PortsInv
  <2>. QED  BY <2>1, <2>2, <2>3, <2>4
<1>2. IInv => NothingLeftBehind
  BY <1>1 DEF NothingLeftBehind
<1>. QED  BY <1>2, InvariantHolds, PTL
=============================================================================

