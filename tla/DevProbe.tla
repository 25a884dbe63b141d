------------------------------ MODULE DevProbe ------------------------------
(***************************************************************************)
(* Probing a device: xdma_eth_dev_init (xdma_ethdev.c), which reads the    *)
(* device arguments, works out which PCIe BAR is which (xdma_common.c,     *)
(* xdma_get_user_bar) and stores the BAR addresses through which every     *)
(* register access (xdma_platform.c) goes.                                 *)
(*                                                                         *)
(* A device is given by the set of BARs it has enabled.  A device argument *)
(* config_bar=v is given by the int its text converts to; text that is no  *)
(* number converts to 0.                                                   *)
(***************************************************************************)
EXTENDS Integers, Sequences

CONSTANTS BarNum,      \* XDMA_BAR_NUM (6)
          DevArgs      \* device argument lists: sequences of config_bar values

ASSUME ProbeAssumption ==
    /\ BarNum \in Nat /\ BarNum >= 3
    /\ DevArgs \subseteq Seq(Int)

Bars == 0 .. BarNum - 1

BAR_ID_INVALID == -1
DEFAULT_CONFIG_BAR == 1

VARIABLES
    enabled,      \* BARs whose mem_resource has a length
    devargs,      \* config_bar arguments not yet processed
    primary,      \* TRUE in the primary process
    pc,
    config_bar_idx, user_bar_idx, bypass_bar_idx,
    bar,          \* bar[i]: dma_priv->bar[i] is a mapped address
    held          \* memory allocated by the probe and not freed

vars == <<enabled, devargs, primary, pc, config_bar_idx, user_bar_idx,
          bypass_bar_idx, bar, held>>

BarIdx == Bars \cup {BAR_ID_INVALID}

TypeOK ==
    /\ enabled \subseteq Bars
    /\ devargs \in Seq(Int)
    /\ primary \in BOOLEAN
    /\ pc \in {"start", "args", "config", "access", "identify", "store",
               "ready", "failed"}
    /\ config_bar_idx \in Int
    /\ pc \in {"config", "access", "identify", "store"} => config_bar_idx \in Bars
    /\ user_bar_idx \in BarIdx
    /\ bypass_bar_idx \in BarIdx
    /\ bar \in [Bars -> BOOLEAN]
    /\ held \subseteq {"mac_addrs", "hw_access"}

Init ==
    /\ enabled \in SUBSET Bars
    /\ devargs \in DevArgs
    /\ primary \in BOOLEAN
    /\ pc = "start"
    /\ config_bar_idx = 0
    /\ user_bar_idx = 0
    /\ bypass_bar_idx = 0
    /\ bar = [i \in Bars |-> FALSE]
    /\ held = {}

-----------------------------------------------------------------------------
\* Wrong variant: hw_access is forgotten.
FailKeepsAccess(frees) ==
    /\ pc' = "failed"
    /\ held' = held \ (frees \ {"hw_access"})

\* An error path that frees some of the allocations.
Fail(frees) ==
    /\ pc' = "failed"
    /\ held' = held \ frees

\* A secondary process only sets its function pointers.
SecondaryInit ==
    /\ pc = "start"
    /\ ~primary
    /\ pc' = "ready"
    /\ UNCHANGED <<enabled, devargs, primary, config_bar_idx, user_bar_idx,
                   bypass_bar_idx, bar, held>>

\* The MAC address is allocated and the indices get their defaults.
AllocMac ==
    /\ pc = "start"
    /\ primary
    /\ \/ Fail({}) /\ UNCHANGED <<config_bar_idx, user_bar_idx, bypass_bar_idx>>
       \/ /\ pc' = "args"
          /\ held' = held \cup {"mac_addrs"}
          /\ config_bar_idx' = DEFAULT_CONFIG_BAR
          /\ bypass_bar_idx' = BAR_ID_INVALID
          /\ user_bar_idx' = BAR_ID_INVALID
    /\ UNCHANGED <<enabled, devargs, primary, bar>>

\* Wrong variant: BarNum itself is taken for a BAR.
BarIdxUpTo(v) == v \in 0 .. BarNum

ValidBarIdx(v) == v \in Bars

\* xdma_check_kvargs: config_bar_idx_handler is called for each argument, and
\* sets the index before it looks whether it is valid.
CheckKvargs ==
    /\ pc = "args"
    /\ devargs # <<>>
    /\ config_bar_idx' = Head(devargs)
    /\ devargs' = Tail(devargs)
    /\ IF ValidBarIdx(Head(devargs)) THEN UNCHANGED <<pc, held>>
       ELSE Fail({"mac_addrs"})
    /\ UNCHANGED <<enabled, primary, user_bar_idx, bypass_bar_idx, bar>>

KvargsDone ==
    /\ pc = "args"
    /\ devargs = <<>>
    /\ pc' = "config"
    /\ UNCHANGED <<enabled, devargs, primary, config_bar_idx, user_bar_idx,
                   bypass_bar_idx, bar, held>>

\* dma_priv->bar[i] = mem_resource[i].addr, which is NULL for a BAR that is
\* not enabled; nothing is stored for an invalid index.
StoreBar(b, i) == IF i \in Bars THEN [b EXCEPT ![i] = i \in enabled] ELSE b

StoreConfigBar ==
    /\ pc = "config"
    /\ pc' = "access"
    /\ bar' = StoreBar(bar, config_bar_idx)
    /\ UNCHANGED <<enabled, devargs, primary, config_bar_idx, user_bar_idx,
                   bypass_bar_idx, held>>

\* hw_access is allocated; xdma_hw_access_init only fills it in.
AllocHwAccess ==
    /\ pc = "access"
    /\ \/ Fail({"mac_addrs"})
       \/ pc' = "identify" /\ held' = held \cup {"hw_access"}
    /\ UNCHANGED <<enabled, devargs, primary, config_bar_idx, user_bar_idx,
                   bypass_bar_idx, bar>>

\* xdma_get_user_bar: the lowest bit of the constant 1.
xdma_get_user_bar == 0

\* The user BAR is BAR 0; if that is not enabled it is BAR 1, or else BAR 2,
\* whatever the configuration BAR is.
UserBar ==
    CASE xdma_get_user_bar \in enabled -> xdma_get_user_bar
      [] xdma_get_user_bar \notin enabled /\ 1 \notin enabled -> 2
      [] OTHER -> 1

\* Wrong variant: the configuration BAR is not excluded.
NotUser(user) == enabled \ {user}

BypassCandidates(user) == enabled \ {user, config_bar_idx}

\* The first enabled BAR that is neither; none leaves the index invalid.
BypassBar(user) ==
    LET candidates == BypassCandidates(user)
    IN  IF candidates = {} THEN bypass_bar_idx
        ELSE CHOOSE i \in candidates : \A j \in candidates : i <= j

\* Wrong variant: the configuration BAR is used unchecked.
ConfigUnchecked == TRUE

ConfigEnabled == config_bar_idx \in enabled

xdma_identify_bars ==
    /\ pc = "identify"
    /\ IF ConfigEnabled
       THEN /\ user_bar_idx' = UserBar
            /\ bypass_bar_idx' = BypassBar(UserBar)
            /\ pc' = "store"
            /\ UNCHANGED held
       ELSE /\ Fail({"hw_access", "mac_addrs"})
            /\ UNCHANGED <<user_bar_idx, bypass_bar_idx>>
    /\ UNCHANGED <<enabled, devargs, primary, config_bar_idx, bar>>

\* The addresses of the other two BARs are stored.
StoreBars ==
    /\ pc = "store"
    /\ pc' = "ready"
    /\ bar' = StoreBar(StoreBar(bar, user_bar_idx), bypass_bar_idx)
    /\ UNCHANGED <<enabled, devargs, primary, config_bar_idx, user_bar_idx,
                   bypass_bar_idx, held>>

Next == \/ SecondaryInit \/ AllocMac \/ CheckKvargs \/ KvargsDone
        \/ StoreConfigBar \/ AllocHwAccess \/ xdma_identify_bars \/ StoreBars

Spec == Init /\ [][Next]_vars

-----------------------------------------------------------------------------
Probed == pc = "ready" /\ primary

(***************************************************************************)
(* A probe that fails, wherever it does, leaves nothing allocated, and one *)
(* that succeeds has both its allocations.                                 *)
(***************************************************************************)
ProbeOwnsMemory ==
    /\ pc = "failed" => held = {}
    /\ Probed => held = {"mac_addrs", "hw_access"}

(***************************************************************************)
(* After a successful probe xdma_reg_read and xdma_reg_write go to a       *)
(* mapped BAR, whatever the device arguments were.                         *)
(***************************************************************************)
ConfigRegistersMapped ==
    Probed => config_bar_idx \in enabled /\ bar[config_bar_idx]

(***************************************************************************)
(* The bypass BAR, if there is one, is an enabled and mapped BAR that is   *)
(* neither the configuration BAR nor the user BAR.                         *)
(***************************************************************************)
BypassSeparate ==
    Probed /\ bypass_bar_idx # BAR_ID_INVALID =>
        /\ bypass_bar_idx \in enabled \ {config_bar_idx, user_bar_idx}
        /\ bar[bypass_bar_idx]

(***************************************************************************)
(* xdma.h:121-122: one index is the BAR of the user logic and another the  *)
(* BAR of the XDMA configuration logic, so xdma_user_write does not write  *)
(* to the DMA engine's registers.                                          *)
(***************************************************************************)
UserBarIsNotConfig == Probed => user_bar_idx # config_bar_idx
=============================================================================
