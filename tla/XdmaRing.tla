------------------------------ MODULE XdmaRing ------------------------------
(***************************************************************************)
(* The descriptor ring of one DMA engine (drivers/net/xdma):               *)
(* xdma_access_common.c builds and clears it, xdma_rxtx.c fills it.        *)
(*                                                                         *)
(* A descriptor keeps the control bits the driver sets (flags), the buffer *)
(* its address fields point at (buf; NoBuf once length and addresses are   *)
(* zeroed, which the hardware sees as a zero-length descriptor) and the    *)
(* Nxt_adj field of the control word (adj).                                *)
(***************************************************************************)
EXTENDS Integers

CONSTANT DescMax   \* engine->desc_max (XDMA_DESC_MAX = 32)

ASSUME DescMaxAssumption == DescMax \in Nat \ {0}

\* Values of the Nxt_adj field, which has 6 bits (XDMA_DESC_NXT_ADJ_MASK).
AdjValues == 64

\* xdma_desc_adjacent_set does not mask what it puts into that field: in a
\* longer ring it would reach reserved bits and the magic number.
ASSUME AdjAssumption == DescMax <= AdjValues

Idx == 0 .. DescMax - 1

\* XDMA_DESC_STOPPED, XDMA_DESC_COMPLETED, XDMA_DESC_EOP
Flags == {"STOPPED", "COMPLETED", "EOP"}

\* Buffers are numbered from 0 upwards.
NoBuf == -1

Desc == [flags : SUBSET Flags, buf : Nat \cup {NoBuf},
         adj : 0 .. AdjValues - 1]

BlankDesc == [flags |-> {}, buf |-> NoBuf, adj |-> 0]

\* Control is the magic number alone, except in the last descriptor, which
\* also gets 0x13 = STOPPED, COMPLETED and EOP.
xdma_desc_ring_init ==
    [i \in Idx |-> IF i = DescMax - 1
                   THEN [BlankDesc EXCEPT !.flags = Flags]
                   ELSE BlankDesc]

\* Wrong variant: the control word is reset in both directions.
ClearControlToo(ring, dir) == [i \in Idx |-> BlankDesc]

\* Wrong variant: only the control word is reset.
ClearControlOnly(ring, dir) ==
    [i \in Idx |-> [ring[i] EXCEPT !.flags = {}, !.adj = 0]]

\* Length and addresses are zeroed in both directions; the control word is
\* reset in an H2C ring only, so a C2H ring keeps the flags it has.
xdma_desc_ring_clear(ring, dir) ==
    [i \in Idx |-> IF dir = "H2C"
                   THEN BlankDesc
                   ELSE [ring[i] EXCEPT !.buf = NoBuf]]

\* The control bits are or-ed into the descriptor's.
xdma_desc_control_set(desc, control_field) ==
    [desc EXCEPT !.flags = @ \cup control_field]

\* The Nxt_adj field is replaced by a value that TypeOK shows to fit into it.
xdma_desc_adjacent_set(desc, nxt_adj) ==
    [desc EXCEPT !.adj = nxt_adj]

\* engine->desc_used after get_desc() has handed out n descriptors.
get_desc(desc_used, n) == (desc_used + n) % DescMax

\* The chain the next pointers form, as the hardware follows it; DescMax is
\* where the next pointer of the last descriptor (address 0) leads.
NextDesc(i) == i + 1
=============================================================================
