------------------------------ MODULE OrderStore ------------------------------
(***************************************************************************)
(* execution/order_state.py: one file per order under state/orders, written *)
(* to <intent>.tmp and renamed over <intent>.json.  A caller checks its     *)
(* request against the files, writes the temporary file and renames it; it  *)
(* may die between the two, and nothing ever reads a .tmp file.             *)
(* The broker's side (its open orders and positions) is external: orders    *)
(* reach it, fill, are cancelled, and the owner may trade by hand.          *)
(***************************************************************************)
EXTENDS Integers, FiniteSets

CONSTANTS Intents,   \* names of the order files
          Keys,      \* idempotency keys
          Callers,   \* processes that use the store
          NoCall,    \* a caller with nothing in hand
          NoOrder    \* an intent without a file

VARIABLES order,     \* [Intents -> NoOrder or the order on disk]
          call       \* [Callers -> NoCall or the order in its .tmp file]

storeVars == <<order, call>>

Quantity == 1

TerminalStates == {"CANCELLED", "REJECTED", "CLOSED"}
States == TerminalStates \cup
    {"INTENT_CREATED", "VALIDATED", "SUBMITTING", "ACKNOWLEDGED",
     "PARTIALLY_FILLED", "FILLED", "CANCEL_PENDING", "HALTED_UNKNOWN_STATE"}

\* ALLOWED_TRANSITIONS
Allowed ==
    LET Step == [INTENT_CREATED   |-> {"VALIDATED", "REJECTED"},
                 VALIDATED        |-> {"SUBMITTING", "REJECTED"},
                 SUBMITTING       |-> {"ACKNOWLEDGED", "REJECTED"},
                 ACKNOWLEDGED     |-> {"PARTIALLY_FILLED", "FILLED",
                                       "CANCEL_PENDING", "REJECTED"},
                 PARTIALLY_FILLED |-> {"PARTIALLY_FILLED", "FILLED",
                                       "CANCEL_PENDING"},
                 FILLED           |-> {"CLOSED"},
                 CANCEL_PENDING   |-> {"CANCELLED", "PARTIALLY_FILLED",
                                       "FILLED"}]
        Halt == {"HALTED_UNKNOWN_STATE"}
    IN  [s \in States |-> IF s \in DOMAIN Step THEN Step[s] \cup Halt ELSE {}]

Orders == [key : Keys, state : States, filled : 0..Quantity]
Calls == [intent : Intents, order : Orders]

ASSUME StoreAssumption == NoOrder \notin Orders /\ NoCall \notin Calls

Stored == {i \in Intents : order[i] # NoOrder}

\* An order that reconciliation expects to find open at the broker.
LocalActive == {order[i].key : i \in {j \in Stored :
                   order[j].state \notin TerminalStates \cup {"FILLED"}}}
LocalPositions == Cardinality({i \in Stored : order[i].state = "FILLED"})

StoreInit ==
    /\ order = [i \in Intents |-> NoOrder]
    /\ call = [c \in Callers |-> NoCall]

MutantCreate(c, i, k) ==
    /\ call[c] = NoCall
    /\ i \notin Stored
    /\ call' = [call EXCEPT ![c] =
          [intent |-> i,
           order |-> [key |-> k, state |-> "INTENT_CREATED", filled |-> 0]]]
    /\ UNCHANGED order

\* create: the intent has no file and no file has the key.
Create(c, i, k) ==
    /\ call[c] = NoCall
    /\ i \notin Stored
    /\ \A j \in Stored : order[j].key # k
    /\ call' = [call EXCEPT ![c] =
          [intent |-> i,
           order |-> [key |-> k, state |-> "INTENT_CREATED", filled |-> 0]]]
    /\ UNCHANGED order

\* transition: the table allows the move, and FILLED needs the full quantity.
Transition(c, i, s, fill) ==
    /\ call[c] = NoCall
    /\ i \in Stored
    /\ s \in Allowed[order[i].state]
    /\ fill \in 0..Quantity
    /\ s = "FILLED" => fill = Quantity
    /\ call' = [call EXCEPT ![c] =
          [intent |-> i,
           order |-> [order[i] EXCEPT !.state = s, !.filled = fill]]]
    /\ UNCHANGED order

\* _write: the temporary file replaces the order's file.
Replace(c) ==
    /\ call[c] # NoCall
    /\ order' = [order EXCEPT ![call[c].intent] = call[c].order]
    /\ call' = [call EXCEPT ![c] = NoCall]

\* The caller ends between writing the temporary file and renaming it.
Die(c) ==
    /\ call[c] # NoCall
    /\ call' = [call EXCEPT ![c] = NoCall]
    /\ UNCHANGED order

StoreNext ==
    \E c \in Callers :
        \/ \E i \in Intents, k \in Keys : Create(c, i, k)
        \/ \E i \in Intents, s \in States, fill \in 0..Quantity :
              Transition(c, i, s, fill)
        \/ Replace(c)
        \/ Die(c)

StoreSpec == StoreInit /\ [][StoreNext]_storeVars

-----------------------------------------------------------------------------
StoreTypeOK ==
    /\ order \in [Intents -> {NoOrder} \cup Orders]
    /\ call \in [Callers -> {NoCall} \cup Calls]

\* What the files agree on, and what a caller that checked its request may
\* still rely on when it renames: its key is its own file's, and no other's.
DistinctKeys == \A i, j \in Stored : i # j => order[i].key # order[j].key

FilledInFull ==
    \A i \in Stored : order[i].state = "FILLED" => order[i].filled = Quantity

CallIsCurrent ==
    \A c \in Callers : call[c] # NoCall =>
        LET new == call[c] IN
        /\ new.order.state = "FILLED" => new.order.filled = Quantity
        /\ \A j \in Stored : j = new.intent <=> order[j].key = new.order.key

StoreInv == StoreTypeOK /\ DistinctKeys /\ FilledInFull /\ CallIsCurrent

\* The store has no lock: two callers could both find a key unused.
OneCaller == \A c, d \in Callers : c = d

\* A key names one order for good: two files never carry the same key and a
\* file keeps its key, whatever calls are cut short (create, lines 78-88).
KeyNamesOneOrder ==
    [][\A i \in Stored :
          /\ order'[i] # NoOrder
          /\ order'[i].key = order[i].key
          /\ \A j \in Intents \ {i} :
                order'[j] # NoOrder => order'[j].key # order[i].key]_storeVars
=============================================================================
