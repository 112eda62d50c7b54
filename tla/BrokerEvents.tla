----------------------------- MODULE BrokerEvents -----------------------------
(***************************************************************************)
(* execution/order_event_simulator.py: what the broker may say about one    *)
(* order of one contract, in any order, and the state the order is left in. *)
(* A step is one turn of the loop; "stopped" is its break.                  *)
(***************************************************************************)
EXTENDS Integers

CONSTANT MaxEvents     \* bound: events of a history

VARIABLES sim,         \* [status, filled, blocked, cancel, stopped]
          heard        \* number of events taken from the tuple

simVars == <<sim, heard>>

Halted == "HALTED_UNKNOWN_STATE"
Working == {"ACKNOWLEDGED", "PARTIALLY_FILLED", "CANCEL_PENDING"}

SimInit ==
    /\ heard = 0
    /\ sim = [status |-> "SUBMITTING", filled |-> 0, blocked |-> FALSE,
              cancel |-> FALSE, stopped |-> FALSE]

\* A contradiction ends the loop with the order halted and entries blocked.
Stop == [sim EXCEPT !.status = Halted, !.blocked = TRUE, !.stopped = TRUE]

Disconnect == sim' = Stop     \* DISCONNECT or UNKNOWN

\* REJECT does not end the loop, whatever it finds.
Reject ==
    sim' = IF sim.filled > 0
           THEN [sim EXCEPT !.status = Halted, !.blocked = TRUE]
           ELSE [sim EXCEPT !.status = "REJECTED"]

SubmitAck ==
    sim' = IF sim.status = "SUBMITTING"
           THEN [sim EXCEPT !.status = "ACKNOWLEDGED"] ELSE Stop

CancelRequested ==
    sim' = IF sim.status \in {"ACKNOWLEDGED", "PARTIALLY_FILLED"}
           THEN [sim EXCEPT !.status = "CANCEL_PENDING", !.cancel = TRUE]
           ELSE Stop

\* max(filled, 0) of a partial fill: one contract cannot be filled in part.
Fill(full) ==
    sim' = IF sim.status \notin Working THEN Stop
           ELSE LET filled == IF full THEN 1 ELSE sim.filled
                IN  [sim EXCEPT !.filled = filled,
                       !.status = IF filled = 1 THEN "FILLED"
                                  ELSE "PARTIALLY_FILLED"]

MutantCancelAck ==
    sim' = IF ~sim.cancel THEN Stop
           ELSE [sim EXCEPT !.status = "CANCELLED"]

CancelAck ==
    sim' = IF ~sim.cancel THEN Stop
           ELSE [sim EXCEPT !.status = IF sim.filled = 1 THEN "FILLED"
                                       ELSE "CANCELLED"]

SimNext ==
    /\ ~sim.stopped
    /\ heard < MaxEvents
    /\ heard' = heard + 1
    /\ \/ Disconnect \/ Reject \/ SubmitAck \/ CancelRequested
       \/ Fill(TRUE) \/ Fill(FALSE) \/ CancelAck

SimSpec == SimInit /\ [][SimNext]_simVars

-----------------------------------------------------------------------------
\* A fill wins every race: once the contract is filled no later event leaves
\* the order cancelled, rejected or working, and a halt always blocks new
\* entries (lines 41-89; REJECT and CANCEL_ACK keep the loop running).
FillWins ==
    /\ sim.filled = 1 => sim.status \in {"FILLED", Halted}
    /\ sim.status = "FILLED" => sim.filled = 1
    /\ sim.status = Halted => sim.blocked
=============================================================================
