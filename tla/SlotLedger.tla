----------------------------- MODULE SlotLedger -----------------------------
(***************************************************************************)
(* What the slot scheduler promises, without workers, files or a reaper:   *)
(* one slot at a time collects, a slot gets at most one outcome and keeps  *)
(* it, only the collecting slot reports, a slot declared lost is not       *)
(* collecting, and collecting always ends.                                 *)
(***************************************************************************)
CONSTANTS Slots, Nobody

VARIABLES
    collecting,   \* the slot that is collecting, or Nobody
    outcome       \* outcome[s], "open" until the slot is settled

Outcomes == {"open", "reported", "skipped", "lost"}

LedgerTypeOK ==
    /\ collecting \in Slots \union {Nobody}
    /\ outcome \in [Slots -> Outcomes]

Init ==
    /\ collecting = Nobody
    /\ outcome = [s \in Slots |-> "open"]

Settle(s, result) ==
    /\ outcome[s] = "open"
    /\ outcome' = [outcome EXCEPT ![s] = result]

Begin(s) ==
    /\ collecting = Nobody
    /\ outcome[s] = "open"
    /\ collecting' = s
    /\ UNCHANGED outcome

Report(s) == collecting = s /\ Settle(s, "reported") /\ UNCHANGED collecting

\* The slot found another one still collecting.
Skip(s) ==
    /\ collecting \notin {s, Nobody}
    /\ Settle(s, "skipped")
    /\ UNCHANGED collecting

\* The slot is declared lost: it does not collect, and never will again.
Lose(s) == collecting # s /\ Settle(s, "lost") /\ UNCHANGED collecting

\* Collecting ends, whether or not a report was made.
End(s) == collecting = s /\ collecting' = Nobody /\ UNCHANGED outcome

Next == \E s \in Slots : Begin(s) \/ Report(s) \/ Skip(s) \/ Lose(s) \/ End(s)

Steps == Init /\ [][Next]_<<collecting, outcome>>

Spec ==
    /\ Steps
    /\ \A s \in Slots : WF_<<collecting, outcome>>(End(s))

-----------------------------------------------------------------------------
\* A slot that has an outcome keeps it: no later tick, late fire or second
\* worker replaces a report by a loss or a loss by a report
\* (worker_reaper.py:166-178, launchd_shadow_worker.py:555).
OutcomesAreFinal ==
    [][\A s \in Slots : outcome[s] # "open" => outcome'[s] = outcome[s]]_<<collecting, outcome>>

\* A slot declared lost or skipped holds nothing that another slot waits for.
LostIsNotCollecting ==
    \A s \in Slots : outcome[s] \in {"lost", "skipped"} => collecting # s
=============================================================================
