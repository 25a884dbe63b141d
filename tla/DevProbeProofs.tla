--------------------------- MODULE DevProbeProofs ---------------------------
(***************************************************************************)
(* Proofs about DevProbe: for any number of BARs, any set of them enabled  *)
(* and any list of device arguments, a probe leaves nothing behind when it *)
(* fails, and the BARs it has chosen are mapped when it succeeds.          *)
(***************************************************************************)
EXTENDS DevProbe, WellFoundedInduction, TLAPS

\* What has been allocated by the time the probe is where it is.
HeldInv ==
    /\ pc \in {"start", "failed"} => held = {}
    /\ pc \in {"args", "config", "access"} => held = {"mac_addrs"}
    /\ pc \in {"identify", "store"} \/ Probed =>
          held = {"mac_addrs", "hw_access"}
    /\ ~primary => pc \in {"start", "ready"}

\* What is known of the configuration BAR: that it is a BAR as soon as the
\* arguments are processed, and that it is mapped only in the end.
ConfigInv ==
    /\ pc \in {"args", "config", "access", "identify", "store"} \/ Probed =>
          config_bar_idx \in Bars
    /\ pc \in {"access", "identify", "store"} \/ Probed =>
          bar[config_bar_idx] = (config_bar_idx \in enabled)
    /\ pc = "store" \/ Probed => config_bar_idx \in enabled

\* The bypass BAR is invalid until it is chosen among the enabled BARs.
BypassInv ==
    /\ pc \in {"args", "config", "access", "identify"} =>
          bypass_bar_idx = BAR_ID_INVALID
    /\ pc = "store" \/ Probed =>
          \/ bypass_bar_idx = BAR_ID_INVALID
          \/ bypass_bar_idx \in enabled \ {config_bar_idx, user_bar_idx}
    /\ Probed /\ bypass_bar_idx # BAR_ID_INVALID => bar[bypass_bar_idx]

IInv == TypeOK /\ HeldInv /\ ConfigInv /\ BypassInv

-----------------------------------------------------------------------------
(***************************************************************************)
(* A non-empty set of BARs has a first one.                                *)
(***************************************************************************)
LEMMA FirstBar ==
    ASSUME NEW S \in SUBSET Bars, S # {}
    PROVE  \E i \in S : \A j \in S : i <= j
<1>1. S \subseteq Nat
  BY DEF Bars
<1>2. PICK i \in S : \A j \in S : ~ (<<j, i>> \in OpToRel(<, Nat))
  BY <1>1, WFMin, NatLessThanWellFounded, Zenon
<1>3. \A j, k \in Nat : <<j, k>> \in OpToRel(<, Nat) <=> j < k
  BY Zenon DEF OpToRel
<1>4. \A j \in S : ~ (j < i)
  BY <1>1, <1>2, <1>3, Zenon
<1>. QED  BY <1>1, <1>4

(***************************************************************************)
(* What xdma_identify_bars takes for the bypass BAR.                       *)
(***************************************************************************)
LEMMA BypassChoice ==
    ASSUME TypeOK, NEW user
    PROVE  \/ BypassBar(user) = bypass_bar_idx
           \/ BypassBar(user) \in enabled \ {user, config_bar_idx}
<1>1. CASE BypassCandidates(user) = {}
  BY <1>1 DEF BypassBar
<1>2. CASE BypassCandidates(user) # {}
  <2>1. BypassCandidates(user) \in SUBSET Bars
    BY DEF BypassCandidates, TypeOK
  <2>2. \E i \in BypassCandidates(user) :
           \A j \in BypassCandidates(user) : i <= j
    BY <1>2, <2>1, FirstBar
  <2>3. BypassBar(user) \in BypassCandidates(user)
    BY <1>2, <2>2 DEF BypassBar
  <2>. QED  BY <2>3 DEF BypassCandidates
<1>. QED  BY <1>1, <1>2

(***************************************************************************)
(* Storing an address changes only the entry of the BAR it is that of.     *)
(***************************************************************************)
LEMMA StoreBarMaps ==
    ASSUME NEW b \in [Bars -> BOOLEAN], NEW i
    PROVE  /\ StoreBar(b, i) \in [Bars -> BOOLEAN]
           /\ \A j \in Bars :
                 StoreBar(b, i)[j] = IF j = i THEN j \in enabled ELSE b[j]
BY DEF StoreBar

(***************************************************************************)
(* The invariant holds when the probe begins.                              *)
(***************************************************************************)
LEMMA InitIInv == Init => IInv
<1>1. Init => TypeOK
  BY ProbeAssumption DEF Init, TypeOK, BarIdx, Bars
<1>2. Init => HeldInv /\ ConfigInv /\ BypassInv
  BY DEF Init, HeldInv, ConfigInv, BypassInv, Probed
<1>. QED  BY <1>1, <1>2 DEF IInv

(***************************************************************************)
(* The steps up to the check of the arguments.                             *)
(***************************************************************************)
LEMMA ArgumentSteps ==
    IInv /\ (SecondaryInit \/ AllocMac \/ CheckKvargs \/ KvargsDone) => IInv'
<1>. USE DEF IInv
<1>1. ASSUME IInv, SecondaryInit  PROVE IInv'
  BY <1>1 DEF SecondaryInit, TypeOK, HeldInv, ConfigInv, BypassInv, Probed
<1>2. ASSUME IInv, AllocMac  PROVE IInv'
  <2>. USE <1>2 DEF AllocMac, Fail
  <2>1. DEFAULT_CONFIG_BAR \in Bars
    BY ProbeAssumption DEF Bars, DEFAULT_CONFIG_BAR
  <2>2. TypeOK'
    <3>1. user_bar_idx' \in BarIdx /\ bypass_bar_idx' \in BarIdx
      BY DEF TypeOK, BarIdx
    <3>2. config_bar_idx' \in Int
      BY DEF TypeOK, DEFAULT_CONFIG_BAR
    <3>. QED  BY <3>1, <3>2 DEF TypeOK
  <2>3. HeldInv' /\ ConfigInv' /\ BypassInv'
    BY <2>1 DEF HeldInv, ConfigInv, BypassInv, Probed
  <2>. QED  BY <2>2, <2>3
<1>3. ASSUME IInv, CheckKvargs  PROVE IInv'
  <2>. USE <1>3 DEF CheckKvargs, Fail, ValidBarIdx
  <2>1. Head(devargs) \in Int /\ Tail(devargs) \in Seq(Int)
    BY DEF TypeOK
  <2>2. TypeOK'
    BY <2>1 DEF TypeOK
  <2>3. HeldInv' /\ ConfigInv' /\ BypassInv'
    BY DEF HeldInv, ConfigInv, BypassInv, Probed
  <2>. QED  BY <2>2, <2>3
<1>4. ASSUME IInv, KvargsDone  PROVE IInv'
  BY <1>4 DEF KvargsDone, TypeOK, HeldInv, ConfigInv, BypassInv, Probed
<1>. QED  BY <1>1, <1>2, <1>3, <1>4

(***************************************************************************)
(* The steps that choose and store the BARs.                               *)
(***************************************************************************)
LEMMA BarSteps ==
    IInv /\ (\/ StoreConfigBar \/ AllocHwAccess \/ xdma_identify_bars
             \/ StoreBars) => IInv'
<1>. USE DEF IInv
<1>1. ASSUME IInv, StoreConfigBar  PROVE IInv'
  <2>1. bar' \in [Bars -> BOOLEAN] /\ config_bar_idx \in Bars
    BY <1>1, StoreBarMaps DEF StoreConfigBar, TypeOK
  <2>2. bar'[config_bar_idx] = (config_bar_idx \in enabled)
    BY <1>1, <2>1, StoreBarMaps DEF StoreConfigBar, TypeOK
  <2>. QED
    BY <1>1, <2>1, <2>2
    DEF StoreConfigBar, TypeOK, HeldInv, ConfigInv, BypassInv, Probed
<1>2. ASSUME IInv, AllocHwAccess  PROVE IInv'
  BY <1>2
  DEF AllocHwAccess, Fail, TypeOK, HeldInv, ConfigInv, BypassInv, Probed
<1>3. ASSUME IInv, xdma_identify_bars  PROVE IInv'
  <2>. USE <1>3 DEF xdma_identify_bars, Fail, ConfigEnabled
  <2>1. UserBar \in Bars
    BY ProbeAssumption DEF UserBar, xdma_get_user_bar, Bars
  <2>2. \/ BypassBar(UserBar) = BAR_ID_INVALID
        \/ BypassBar(UserBar) \in enabled \ {UserBar, config_bar_idx}
    BY BypassChoice DEF BypassInv
  <2>3. TypeOK'
    BY <2>1, <2>2 DEF TypeOK, BarIdx
  <2>4. HeldInv' /\ ConfigInv' /\ BypassInv'
    BY <2>2 DEF HeldInv, ConfigInv, BypassInv, Probed
  <2>. QED  BY <2>3, <2>4
<1>4. ASSUME IInv, StoreBars  PROVE IInv'
  <2>. USE <1>4 DEF StoreBars
  <2>. DEFINE b == StoreBar(bar, user_bar_idx)
  <2>1. b \in [Bars -> BOOLEAN] /\ bar' \in [Bars -> BOOLEAN]
    BY StoreBarMaps DEF TypeOK
  <2>2. \A j \in Bars : bar'[j] = IF j \in {user_bar_idx, bypass_bar_idx}
                                  THEN j \in enabled ELSE bar[j]
    BY <2>1, StoreBarMaps DEF TypeOK
  <2>3. TypeOK'
    BY <2>1 DEF TypeOK
  <2>4. HeldInv'
    BY DEF HeldInv, Probed
  <2>5. ConfigInv'
    BY <2>2 DEF ConfigInv, Probed, TypeOK
  <2>6. BypassInv'
    BY <2>2 DEF BypassInv, Probed, TypeOK
  <2>. QED  BY <2>3, <2>4, <2>5, <2>6
<1>. QED  BY <1>1, <1>2, <1>3, <1>4

(***************************************************************************)
(* The invariant holds throughout.                                         *)
(***************************************************************************)
LEMMA InvariantHolds == Spec => []IInv
<1>1. IInv /\ [Next]_vars => IInv'
  <2>1. IInv /\ UNCHANGED vars => IInv'
    BY DEF IInv, vars, TypeOK, HeldInv, ConfigInv, BypassInv, Probed
  <2>. QED  BY <2>1, ArgumentSteps, BarSteps DEF Next
<1>. QED  BY <1>1, InitIInv, PTL DEF Spec

(***************************************************************************)
(* The probe is well typed: in particular the configuration BAR is a BAR   *)
(* whenever its address is looked up.                                      *)
(***************************************************************************)
THEOREM ProbeTyped == Spec => []TypeOK
<1>1. IInv => TypeOK
  BY DEF IInv
<1>. QED  BY <1>1, InvariantHolds, PTL

(***************************************************************************)
(* Every error path frees what has been allocated before it, and nothing   *)
(* is missing after a success.                                             *)
(***************************************************************************)
THEOREM ProbeMemory == Spec => []ProbeOwnsMemory
<1>1. IInv => ProbeOwnsMemory
  BY DEF IInv, HeldInv, ProbeOwnsMemory
<1>. QED  BY <1>1, InvariantHolds, PTL

(***************************************************************************)
(* Register accesses go to a mapped BAR, whatever the arguments were.      *)
(***************************************************************************)
THEOREM ProbeConfigMapped == Spec => []ConfigRegistersMapped
<1>1. IInv => ConfigRegistersMapped
  BY DEF IInv, ConfigInv, ConfigRegistersMapped
<1>. QED  BY <1>1, InvariantHolds, PTL

(***************************************************************************)
(* A bypass BAR is enabled, mapped and neither of the other two.           *)
(***************************************************************************)
THEOREM ProbeBypassSeparate == Spec => []BypassSeparate
<1>1. IInv => BypassSeparate
  BY DEF IInv, BypassInv, BypassSeparate
<1>. QED  BY <1>1, InvariantHolds, PTL
=============================================================================
