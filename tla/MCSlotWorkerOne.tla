--------------------------- MODULE MCSlotWorkerOne --------------------------
(* One MARKET_GATE slot with one fire, which may come a tick early, on     *)
(* time, late but fresh, or too late.                                      *)
EXTENDS SlotWorker, TLC

CONSTANTS gate, fireGate

MCSlotOf == fireGate :> gate
MCSched == gate :> 1
MCDeadline == gate :> 2
=============================================================================
