------------------------------ MODULE XdmaPoll ------------------------------
(***************************************************************************)
(* rte_poll_complete for a receive queue: between its receive calls a      *)
(* thread may call xdma_poll_rx_complete, which looks at the writeback     *)
(* word through a copy of the engine that was taken at its setup.  The     *)
(* copy points at the same word, but its desc_used is never updated.       *)
(***************************************************************************)
EXTENDS XdmaRx

CONSTANT PollRounds   \* polling rounds after which it gives up (1000)

ASSUME PollAssumption == PollRounds \in Nat

VARIABLES
    ppc,         \* where xdma_poll_rx_complete is
    poll_time,   \* its tran_time
    poll_old     \* its old_wb_status_count, the value it returns

pollVars == <<ppc, poll_time, poll_old>>

PollInit ==
    /\ Init
    /\ ppc = "none" /\ poll_time = 0 /\ poll_old = 0

\* xdma_dev->engine_c2h[channel].desc_used
CopyDescUsed == 0

PollCall ==
    /\ ppc = "none"
    /\ pc = "idle"
    /\ ppc' = "first"
    /\ poll_time' = 0
    /\ UNCHANGED poll_old

\* First load of the word.
PollFirst ==
    /\ ppc = "first"
    /\ ppc' = "second"
    /\ poll_old' = wb
    /\ UNCHANGED poll_time

PollAgain == poll_time < PollRounds

\* The second load, which an optimised build may leave out, agrees.
PollFound ==
    /\ ppc = "second"
    /\ poll_old # CopyDescUsed
    /\ ppc' = "returned"
    /\ UNCHANGED <<poll_time, poll_old>>

\* It disagrees, or the count is that of the copy.  An optimised build may
\* leave the loop after any round.
PollMissed ==
    /\ ppc = "second"
    /\ poll_old # wb \/ poll_old = CopyDescUsed
    /\ \/ PollAgain /\ poll_time' = poll_time + 1 /\ ppc' = "first"
       \/ ppc' = "returned" /\ UNCHANGED poll_time
    /\ UNCHANGED poll_old

\* The caller has taken the count.
PollDone ==
    /\ ppc = "returned"
    /\ ppc' = "none"
    /\ UNCHANGED <<poll_time, poll_old>>

xdma_poll_rx_complete ==
    PollCall \/ PollFirst \/ PollFound \/ PollMissed \/ PollDone

-----------------------------------------------------------------------------
\* One thread makes all calls on a queue.
Thread ==
    \/ ppc = "none" /\ Driver /\ UNCHANGED pollVars
    \/ xdma_poll_rx_complete /\ UNCHANGED vars

PollNext == Thread \/ (Hardware /\ UNCHANGED pollVars)

PollSpec == PollInit /\ [][PollNext]_<<vars, pollVars>>

\* The application goes on to receive and does not only poll.
PollFairSpec ==
    /\ PollSpec
    /\ WF_<<vars, pollVars>>(Thread)
    /\ SF_<<vars, pollVars>>(ppc = "none" /\ Driver /\ UNCHANGED pollVars)
    /\ WF_<<vars, pollVars>>(HwReport /\ UNCHANGED pollVars)

-----------------------------------------------------------------------------
(***************************************************************************)
(* The count that a poll returns is one of this run of the engine: at      *)
(* least what has been handed to the caller and at most what the hardware  *)
(* has completed, and 0 when the engine is stopped, though the copy knows  *)
(* neither desc_used nor whether the engine runs.                          *)
(***************************************************************************)
PollWithinRun ==
    ppc = "returned" => IF running THEN poll_old \in desc_used .. done
                                   ELSE poll_old = 0
=============================================================================
