---------------------------- MODULE MCSlotWorker ----------------------------
(* Two slots with one fire each: a MARKET_GATE slot whose collector is a   *)
(* CLI process, and a slot collected inside the worker.                    *)
EXTENDS SlotWorker, TLC

CONSTANTS gate, pilot, fireGate, firePilot

MCFires == {fireGate, firePilot}
MCSlotOf == (fireGate :> gate) @@ (firePilot :> pilot)
MCSched == (gate :> 0) @@ (pilot :> 2)
MCDeadline == (gate :> 1) @@ (pilot :> 1)
=============================================================================
