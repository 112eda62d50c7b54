------------------------------ MODULE RestartGate ------------------------------
(***************************************************************************)
(* The checks a restart makes before anything may be entered: the local     *)
(* orders against the broker's orders and positions, the local ledger       *)
(* against the official cash view, the safety flags and the kill switch.    *)
(* broker_reconciliation.py, cash_reconciliation.py, execution_guard.py,    *)
(* startup_reconciliation.py, kill_switch.py.  Nothing here calls a broker: *)
(* the views are arguments.  The broker and the owner are external; a view  *)
(* that could not be read, and a field that it lacks, is Unknown.           *)
(***************************************************************************)
EXTENDS OrderStore, CashLedger

CONSTANTS Unknown, Tolerance

ASSUME UnknownAssumption ==
    Unknown \notin Keys /\ (\A K \in SUBSET Keys : Unknown # K) /\ Unknown \notin Nat
ASSUME ToleranceAssumption == Tolerance \in Nat

VARIABLES brokerOrders,      \* subset of BrokerOrders
          brokerPositions,   \* subset of BrokerPositions
          armed              \* state/trading_armed exists

brokerVars == <<brokerOrders, brokerPositions, armed>>

BrokerOrders == [key : Keys \cup {Unknown}, quantity : {1, 2, Unknown}]
\* A position without instrument, type or quantity has quantity Unknown.
BrokerPositions == [slot : 1..2, quantity : {1, 2, Unknown}]

BrokerInit == brokerOrders = {} /\ brokerPositions = {} /\ armed = FALSE

\* An order of ours reaches the broker, or one appears that we did not place.
BrokerOpens(o) ==
    /\ \A p \in brokerOrders : p.key # o.key
    /\ brokerOrders' = brokerOrders \cup {o}
    /\ UNCHANGED <<brokerPositions, armed>>

BrokerFills(o, p) ==
    /\ \A q \in brokerPositions : q.slot # p.slot
    /\ brokerOrders' = brokerOrders \ {o}
    /\ brokerPositions' = brokerPositions \cup {p}
    /\ UNCHANGED armed

BrokerDropsOrder(o) ==
    /\ brokerOrders' = brokerOrders \ {o}
    /\ UNCHANGED <<brokerPositions, armed>>

BrokerClosesPosition(p) ==
    /\ brokerPositions' = brokerPositions \ {p}
    /\ UNCHANGED <<brokerOrders, armed>>

\* The owner arms by hand: no code creates the marker.
Arm == armed' = TRUE /\ UNCHANGED <<brokerOrders, brokerPositions>>

\* KillSwitch.engage: unlink the marker, missing or not.
EngageKillSwitch == armed' = FALSE /\ UNCHANGED <<brokerOrders, brokerPositions>>

BrokerNext ==
    \/ \E o \in BrokerOrders : BrokerOpens(o)
    \/ \E o \in brokerOrders, p \in BrokerPositions : BrokerFills(o, p)
    \/ \E o \in brokerOrders : BrokerDropsOrder(o)
    \/ \E p \in brokerPositions : BrokerClosesPosition(p)
    \/ Arm
    \/ EngageKillSwitch

BrokerSpec == BrokerInit /\ [][BrokerNext]_brokerVars

-----------------------------------------------------------------------------
Absolute(n) == IF n < 0 THEN -n ELSE n

MutantReconcileOnStartup(orders, positions) ==
    IF Unknown \in {orders, positions} THEN {"BROKER_STATE_UNKNOWN"} ELSE
    {reason \in {"OPEN_ORDER_MISMATCH", "POSITION_MISMATCH"} :
        CASE reason = "OPEN_ORDER_MISMATCH" ->
                LocalActive # {o.key : o \in orders} \ {Unknown}
          [] reason = "POSITION_MISMATCH" ->
                LocalPositions # Cardinality(positions)}

\* reconcile_on_startup: the reasons; none means READ_ONLY_SAFE.
ReconcileOnStartup(orders, positions) ==
    IF Unknown \in {orders, positions} THEN {"BROKER_STATE_UNKNOWN"} ELSE
    {reason \in {"ORDER_IDENTITY", "POSITION_IDENTITY", "ORDER_QUANTITY",
                 "POSITION_QUANTITY", "MORE_THAN_ONE_POSITION",
                 "OPEN_ORDER_MISMATCH", "POSITION_MISMATCH"} :
        CASE reason = "ORDER_IDENTITY" ->
                \E o \in orders : Unknown \in {o.key, o.quantity}
          [] reason = "POSITION_IDENTITY" ->
                \E p \in positions : p.quantity = Unknown
          [] reason = "ORDER_QUANTITY" ->
                \E o \in orders : o.quantity \notin {1, Unknown}
          [] reason = "POSITION_QUANTITY" ->
                \E p \in positions : p.quantity \notin {1, Unknown}
          [] reason = "MORE_THAN_ONE_POSITION" -> Cardinality(positions) > 1
          [] reason = "OPEN_ORDER_MISMATCH" ->
                LocalActive # {o.key : o \in orders} \ {Unknown}
          [] reason = "POSITION_MISMATCH" ->
                LocalPositions # Cardinality(positions)}

\* reconcile_order_state, the check of the execution boundary: keys and a count.
ReconcileOrderState(keys, count) ==
    /\ Unknown \notin {keys, count}
    /\ LocalActive = keys
    /\ LocalPositions = count
    /\ count <= 1

\* reconcile_cash_ledger
ReconcileCash(view) ==
    /\ \A f \in DOMAIN view : view[f] # Unknown
    /\ Absolute(ledger.settled - view.settled) <= Tolerance
    /\ Absolute(Unsettled(ledger) - view.unsettled) <= Tolerance
    /\ Absolute(ledger.reserved - view.reserved) <= Tolerance
    /\ view.power + Tolerance >= Available(ledger)

\* evaluate_startup_gate, on the two reconciliations it makes.  Whether the
\* kill switch is engaged is what the caller has read, not read here.
StartupGate(reasons, cashSafe, flags) ==
    LET observe == reasons = {} /\ cashSafe
    IN  [observe |-> observe,
         entry |-> /\ observe
                   /\ ~flags.readOnly /\ flags.live /\ flags.tools
                   /\ ~flags.kill]

\* evaluate_execution_boundary
ExecutionBoundary(keys, count) == armed /\ ReconcileOrderState(keys, count)

-----------------------------------------------------------------------------
Flags == [readOnly : BOOLEAN, live : BOOLEAN, tools : BOOLEAN, kill : BOOLEAN]
Amounts == (0..Capital) \cup {Unknown}
ExactView == [settled |-> ledger.settled, unsettled |-> Unsettled(ledger),
              power |-> Available(ledger), reserved |-> ledger.reserved]
\* What the official page shows: the truth, or the truth with one field off.
CashViews == {ExactView} \cup
    {[ExactView EXCEPT ![f] = v] : f \in DOMAIN ExactView, v \in Amounts}
Views(set) == {set, Unknown}

\* Every contract at the broker is the contract of a local order.
ExposureIsLocal ==
    /\ Cardinality(brokerOrders) = Cardinality(LocalActive)
    /\ \A o \in brokerOrders : o.quantity = 1 /\ o.key \in LocalActive
    /\ \A p \in brokerPositions : p.quantity = 1
    /\ Cardinality(brokerPositions) = LocalPositions
    /\ LocalPositions <= 1

\* A gate that lets the system run has seen every exposure: each order open at
\* the broker is one contract of a local order, the contracts held are the
\* contracts filled locally and never two, and the system believes in no more
\* free money than the broker offers.  With any of the views unread, or the
\* switch engaged when the caller read it, nothing may be entered; and after a
\* gate that opened the execution boundary turns on the switch alone, which it
\* reads itself (startup_reconciliation.py:26-75, execution_guard.py).
GateSeesEveryExposure ==
    /\ \A cash \in CashViews :
          ReconcileCash(cash) => Available(ledger) <= cash.power + Tolerance
    /\ \A orders \in Views(brokerOrders), positions \in Views(brokerPositions) :
          LET reasons == ReconcileOnStartup(orders, positions)
          IN \A cashSafe \in BOOLEAN, flags \in Flags :
               LET gate == StartupGate(reasons, cashSafe, flags)
               IN  /\ gate.observe => ExposureIsLocal /\ cashSafe
                   /\ gate.entry =>
                         /\ gate.observe /\ flags.live /\ ~flags.kill
                         /\ ExecutionBoundary({o.key : o \in brokerOrders},
                                              Cardinality(brokerPositions)) <=> armed
=============================================================================
