------------------------------ MODULE CashLedger ------------------------------
(***************************************************************************)
(* risk/cash_ledger.py.  A ledger is a value: each operation returns a new  *)
(* one or refuses.  Sale proceeds are lots that settle on a later day.      *)
(***************************************************************************)
EXTENDS Integers, FiniteSetsExt

CONSTANTS Capital,     \* all the money the account starts with
          LastDay      \* bound: the last day of a history

ASSUME CapitalAssumption == Capital \in Nat
ASSUME LastDayAssumption == LastDay \in Nat

VARIABLES ledger,      \* [settled, reserved, lots]: a lot is what settles on a day
          today

cashVars == <<ledger, today>>

Days == 0..LastDay
Ledgers == [settled : 0..Capital, reserved : 0..Capital,
            lots : [Days -> 0..Capital]]

Available(l) == l.settled - l.reserved
LotsOf(l, days) == MapThenSumSet(LAMBDA d : l.lots[d], days)
Unsettled(l) == LotsOf(l, Days)

\* A ledger starts with settled cash and the proceeds of earlier sales.
CashInit ==
    /\ today = 0
    /\ \E s \in 0..Capital, d \in Days :
          ledger = [settled |-> s, reserved |-> 0,
                    lots |-> [e \in Days |-> IF e = d THEN Capital - s ELSE 0]]

MutantReserve(amount) ==
    /\ amount > 0
    /\ ledger.settled + Unsettled(ledger) - ledger.reserved >= amount
    /\ ledger' = [ledger EXCEPT !.reserved = @ + amount]
    /\ UNCHANGED today

Reserve(amount) ==
    /\ amount > 0
    /\ Available(ledger) >= amount
    /\ ledger' = [ledger EXCEPT !.reserved = @ + amount]
    /\ UNCHANGED today

Release(amount) ==
    /\ amount > 0
    /\ amount <= ledger.reserved
    /\ ledger' = [ledger EXCEPT !.reserved = @ - amount]
    /\ UNCHANGED today

\* settle_through: every lot that has matured moves into settled cash.
SettleThrough(day) ==
    LET matured == {d \in Days : d <= day}
    IN  /\ ledger' = [ledger EXCEPT
              !.settled = @ + LotsOf(ledger, matured),
              !.lots = [d \in Days |-> IF d \in matured THEN 0 ELSE @[d]]]
        /\ UNCHANGED today

Tomorrow ==
    /\ today < LastDay
    /\ today' = today + 1
    /\ UNCHANGED ledger

CashNext ==
    \/ \E amount \in 1..Capital : Reserve(amount) \/ Release(amount)
    \/ SettleThrough(today)
    \/ Tomorrow

CashSpec == CashInit /\ [][CashNext]_cashVars

-----------------------------------------------------------------------------
\* Money is neither made nor lost, and a reservation is always covered by
\* settled cash: what unsettled lots will bring can never be promised to an
\* order (reserve, release, settle_through).
CashCovered ==
    /\ ledger \in Ledgers
    /\ today \in Days
    /\ ledger.reserved <= ledger.settled
    /\ ledger.settled + Unsettled(ledger) = Capital
=============================================================================
