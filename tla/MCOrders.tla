------------------------------- MODULE MCOrders -------------------------------
(***************************************************************************)
(* The order store with the restart gate, the cash ledger, the broker       *)
(* events and the shadow session share no state: each behaviour exercises   *)
(* one of them ("desk"), the others stay as they start.                     *)
(***************************************************************************)
EXTENDS RestartGate, BrokerEvents, ShadowSession, TLC

CONSTANTS i1, i2, k1, k2, c1, a, b

VARIABLE desk

\* At a restart the store holds whatever earlier calls left in it.
Restart ==
    /\ order \in [Intents -> {NoOrder} \cup Orders]
    /\ DistinctKeys
    /\ FilledInFull
    /\ call = [c \in Callers |-> NoCall]

MCInit ==
    /\ desk \in {"store", "gate", "cash", "events", "session"}
    /\ IF desk = "gate" THEN Restart ELSE StoreInit
    /\ CashInit /\ BrokerInit /\ SimInit
    /\ desk # "cash" => ledger.settled = Capital /\ ledger.lots[0] = 0
    /\ Init /\ (desk # "session" => caller = "oneshot" /\ ~pilot)

\* Bound: what the broker holds at once.
BrokerBound == Cardinality(brokerOrders) + Cardinality(brokerPositions) <= 2
Symmetry == Permutations(Intents) \cup Permutations(Keys) \cup Permutations(SampleIds)

MCNext ==
    /\ UNCHANGED desk
    /\ \/ /\ desk = "store" /\ StoreNext
          /\ UNCHANGED <<cashVars, brokerVars, simVars, vars>>
       \/ /\ desk = "gate" /\ BrokerNext
          /\ UNCHANGED <<storeVars, cashVars, simVars, vars>>
       \/ /\ desk = "cash" /\ CashNext
          /\ UNCHANGED <<storeVars, brokerVars, simVars, vars>>
       \/ /\ desk = "events" /\ SimNext
          /\ UNCHANGED <<storeVars, cashVars, brokerVars, vars>>
       \/ /\ desk = "session" /\ Next
          /\ UNCHANGED <<storeVars, cashVars, brokerVars, simVars>>

MCSpec == MCInit /\ [][MCNext]_<<desk, storeVars, cashVars, brokerVars, simVars, vars>>
=============================================================================
