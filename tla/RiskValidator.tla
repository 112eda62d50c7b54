------------------------------ MODULE RiskValidator ------------------------------
(***************************************************************************)
(* The hard limits (risk/startup_guard.py), the validator of an opening     *)
(* order (risk/validator.py), and a cash account that trades only what the  *)
(* validator approved.  The repository has no executor: the account is      *)
(* external, as AccountSnapshot describes it.  Money is in dollars of       *)
(* premium, which are cents of an option's price.                           *)
(***************************************************************************)
EXTENDS Integers, Sequences, SequencesExt

CONSTANTS Unknown,       \* None
          Configs,       \* safety configurations the owner may have written
          History,       \* trades completed before
          MaxTrades      \* bound on completed trades

SafetyConfigs ==   \* the typed document, config/safety.toml
    [mode : STRING, live : BOOLEAN, tools : BOOLEAN, verified : BOOLEAN,
     deployable : Int, first : Int, second : Int, absolute : Int, daily : Int,
     kill : Int, losses : Int, dteMin : Int, dteMax : Int, switches : BOOLEAN,
     positions : SUBSET STRING, delay : Int, stop : Int, force : Int, emergency : Int,
     stage : Int, stageApproved : BOOLEAN]

ASSUME RiskAssumption ==
    /\ Unknown \notin Int /\ Unknown \notin BOOLEAN /\ Unknown # "cash"
    /\ Configs \subseteq SafetyConfigs
    /\ History \subseteq Nat /\ MaxTrades \in Nat

HardMaxDeployable == 300
HardFirstStage == 75
HardAbsolute == 120
HardEquityKill == 225
HardConsecutiveLosses == 3

-----------------------------------------------------------------------------
(* validate_safety_config.  switches are the settings with one legal value. *)

ValidLimits(c) ==
    /\ c.deployable <= HardMaxDeployable
    /\ c.first <= HardFirstStage
    /\ c.second <= HardAbsolute /\ c.absolute <= HardAbsolute
    /\ c.daily = 1
    /\ c.kill >= HardEquityKill
    /\ c.losses <= HardConsecutiveLosses
    /\ c.dteMin >= 7 /\ c.dteMax <= 21

ValidSwitches(c) ==
    /\ c.switches
    /\ c.positions \subseteq {"LONG_CALL", "LONG_PUT"} /\ c.positions # {}

ValidCutoffs(c) ==
    /\ c.delay >= 30
    /\ c.stop \in 60..90
    /\ c.force >= 30 /\ c.emergency >= 15
    /\ c.stop > c.force /\ c.force > c.emergency

ValidStage(c) == c.stage \in {1, 2} /\ (c.stage = 2 => c.stageApproved)

ValidCapabilities(c) == c.live \/ c.tools => c.mode = "LIVE" /\ c.verified

ValidSafetyConfig(c) ==
    ValidLimits(c) /\ ValidSwitches(c) /\ ValidCutoffs(c) /\ ValidStage(c) /\ ValidCapabilities(c)

-----------------------------------------------------------------------------
(* evaluate_instrument_session and completed_bar_scan_times, in minutes.    *)

Session(session, c, now) ==
    LET open == session.open <= now /\ now < session.close IN
    [open |-> open,
     entry |-> open /\ session.open + c.delay <= now /\ now <= session.close - c.stop,
     force |-> open /\ now >= session.close - c.force,
     emergency |-> open /\ now >= session.close - c.emergency]

ScanTimes(session, c) ==
    {t \in (session.open + c.delay)..(session.close - c.stop) :
       (t - session.open - c.delay) % 5 = 0}

-----------------------------------------------------------------------------
(* evaluate_opening_order: every part may not be violated.  a is the        *)
(* account, i the intent, s the session, p the thresholds of the policy.    *)

Known(x) == x # Unknown

ModeOk(c, kill) ==
    /\ kill = FALSE
    /\ ValidSafetyConfig(c)
    /\ c.mode \in {"SHADOW", "LIVE"}
    /\ c.mode = "LIVE" => c.live /\ c.tools /\ c.verified

MutantAccountOk(c, a) ==   \* a further entry on the day of the limit
    /\ a.type = "cash"
    /\ Known(a.equity) /\ a.equity >= c.kill
    /\ Known(a.buying) /\ Known(a.settled)
    /\ Known(a.reserved) /\ a.reserved >= 0
    /\ a.optionPositions = 0 /\ a.equityPositions = 0
    /\ a.optionOrders = 0 /\ a.equityOrders = 0
    /\ Known(a.streak) /\ a.streak < c.losses
    /\ Known(a.entries) /\ a.entries <= c.daily

AccountOk(c, a) ==
    /\ a.type = "cash"
    /\ Known(a.equity) /\ a.equity >= c.kill
    /\ Known(a.buying) /\ Known(a.settled)
    /\ Known(a.reserved) /\ a.reserved >= 0
    /\ a.optionPositions = 0 /\ a.equityPositions = 0
    /\ a.optionOrders = 0 /\ a.equityOrders = 0
    /\ Known(a.streak) /\ a.streak < c.losses
    /\ Known(a.entries) /\ a.entries < c.daily

SessionOk(s) == s.open = TRUE /\ s.entry = TRUE /\ s.force = FALSE

IntentOk(c, i) ==
    /\ Known(i.instrument) /\ Known(i.strike) /\ i.strike > 0
    /\ i.order = <<"BUY", "OPEN", "LIMIT">> /\ i.quantity = 1
    /\ i.position \in c.positions
    /\ Known(i.limit) /\ i.limit > 0

StageLimit(c, done) ==
    IF c.stage = 1 \/ done < 5 THEN c.first ELSE c.second

PremiumOk(c, a, i, done) ==
    /\ Known(done) /\ done >= 0
    /\ c.stage = 1 \/ done >= 5
    /\ i.limit <= c.absolute /\ i.limit <= StageLimit(c, done) /\ i.limit <= c.deployable
    /\ i.limit <= a.buying
    /\ i.limit <= a.settled - a.reserved

QuoteOk(c, i, p, now) ==
    /\ i.dte \in c.dteMin..c.dteMax
    /\ Known(i.bid) /\ Known(i.ask)
    /\ i.bid >= 0 /\ i.ask > 0 /\ i.ask >= i.bid
    /\ 200 * (i.ask - i.bid) <= p.spread * (i.ask + i.bid)
    /\ Known(i.updated) /\ now - i.updated \in -5..p.quoteAge
    /\ Known(i.volume) /\ i.volume >= p.volume
    /\ Known(i.interest) /\ i.interest >= p.interest

\* What the decision chain makes of the configuration: simulation only.
ShadowConfig(c) == [c EXCEPT !.mode = "SHADOW", !.live = FALSE, !.tools = FALSE]

Approved(c, a, i, s, p, kill, done, now) ==
    /\ ModeOk(c, kill)
    /\ AccountOk(c, a)
    /\ SessionOk(s)
    /\ IntentOk(c, i)
    /\ PremiumOk(c, a, i, done)
    /\ QuoteOk(c, i, p, now)

-----------------------------------------------------------------------------
(* The account.                                                             *)

VARIABLES safety,       \* the configuration in force
          settled, unsettled,
          working,      \* the limits of opening orders at the broker
          held,         \* the premiums paid of open positions
          entries, streak, completed,
          lastEntry     \* what the last approval was given, or {}

riskVars == <<safety, settled, unsettled, working, held, entries, streak, completed, lastEntry>>

RiskInit ==
    /\ safety \in Configs
    /\ settled = 300 /\ unsettled = 0
    /\ working = <<>> /\ held = <<>>
    /\ entries = 0 /\ streak = 0 /\ completed \in History
    /\ lastEntry = {}

Total(s) == FoldSeq(LAMBDA x, y : x + y, 0, s)
Equity == settled + unsettled + Total(held)

AccountNow ==
    [type |-> "cash", equity |-> Equity, buying |-> settled + unsettled - Total(working),
     settled |-> settled, reserved |-> Total(working),
     optionPositions |-> Len(held), equityPositions |-> 0,
     optionOrders |-> Len(working), equityOrders |-> 0,
     streak |-> streak, entries |-> entries]

Blanked(r, field) == [f \in DOMAIN r |-> IF f = field THEN Unknown ELSE r[f]]

\* An order is evaluated, one of the inputs possibly unknown; what is approved
\* is placed.
Propose(i, p, blank, session, now, kill) ==
    /\ Approved(ShadowConfig(safety), Blanked(AccountNow, blank), Blanked(i, blank),
                Blanked(Session(session, safety, now), blank), p, kill,
                IF blank = "completed" THEN Unknown ELSE completed, 0)
    /\ working' = Append(working, i.limit)
    /\ lastEntry' = {[blank |-> blank, kill |-> kill, left |-> session.close - now,
                      since |-> now - session.open, limit |-> i.limit]}
    /\ UNCHANGED <<safety, settled, unsettled, held, entries, streak, completed>>

Filled ==
    /\ working # <<>>
    /\ settled' = settled - Head(working)
    /\ held' = Append(held, Head(working))
    /\ working' = Tail(working)
    /\ entries' = entries + 1
    /\ UNCHANGED <<safety, unsettled, streak, completed, lastEntry>>

Unfilled ==
    /\ working # <<>>
    /\ working' = Tail(working)
    /\ UNCHANGED <<safety, settled, unsettled, held, entries, streak, completed, lastEntry>>

\* The position is sold; the proceeds settle on the next day.
Sold(proceeds) ==
    /\ held # <<>> /\ completed < MaxTrades
    /\ unsettled' = unsettled + proceeds
    /\ streak' = IF proceeds < Head(held) THEN streak + 1 ELSE 0
    /\ held' = Tail(held)
    /\ completed' = completed + 1
    /\ UNCHANGED <<safety, settled, working, entries, lastEntry>>

\* Nothing is held overnight.
NextDay ==
    /\ held = <<>> /\ working = <<>>
    /\ settled' = settled + unsettled /\ unsettled' = 0
    /\ entries' = 0 /\ lastEntry' = {}
    /\ UNCHANGED <<safety, working, held, streak, completed>>

\* The owner edits the configuration.
Reconfigure(c) ==
    /\ safety # c
    /\ safety' = c
    /\ UNCHANGED <<settled, unsettled, working, held, entries, streak, completed, lastEntry>>

-----------------------------------------------------------------------------
(* Whatever is asked for, known and proceeded.                              *)

OrUnknown(S) == S \cup {Unknown}

Asks ==
    [instrument : STRING, strike : Int, order : Seq(STRING), quantity : Int,
     position : STRING, limit : Int, dte : Int, bid : Int, ask : Int, updated : Int,
     volume : Int, interest : Int]
Policies ==
    [quoteAge : Int, spread : Int, volume : Int, interest : Int, lag : Int, confirmation : Int]
TradingSessions == [open : Int, close : Int]

\* What may be unknown (unsettled cash is not asked for).
Blanks ==
    {"none", "completed", "type", "equity", "buying", "settled", "reserved", "optionPositions",
     "equityPositions", "optionOrders", "equityOrders", "streak", "entries", "open", "entry",
     "force", "instrument", "strike", "limit", "bid", "ask", "updated", "volume", "interest"}

RiskSteps ==
    \/ \E i \in Asks, p \in Policies, blank \in Blanks, session \in TradingSessions,
          now \in Int, kill \in OrUnknown(BOOLEAN) :
          Propose(i, p, blank, session, now, kill)
    \/ Filled \/ Unfilled
    \/ \E proceeds \in Nat : Sold(proceeds)
    \/ NextDay
    \/ \E c \in Configs : Reconfigure(c)

RiskSpec == RiskInit /\ [][RiskSteps]_riskVars

-----------------------------------------------------------------------------
\* An account that trades only what the validator approves keeps within the
\* hard limits, whatever the configuration says and however its trades end
\* (startup_guard.py:8-18, validator.py): at most one premium at risk and one
\* entry a day, paid from settled cash; the small first stage for five trades;
\* no trade after the third loss in a row or below the equity threshold, so
\* that what is left is at least the threshold less one premium.  And
\* "every unknown required value is treated as a violation" (validator.py:49).
LossIsBounded ==
    /\ Equity >= HardEquityKill - HardAbsolute
    /\ Len(working) + Len(held) <= 1 /\ entries <= 1
    /\ Total(working) <= settled
    /\ completed < 5 => Total(working) + Total(held) <= HardFirstStage
    /\ streak <= HardConsecutiveLosses
    /\ \A e \in lastEntry :
         /\ e.blank = "none" /\ e.kill = FALSE
         /\ e.limit <= HardAbsolute
         /\ e.left >= 60 /\ e.since >= 30

\* In every session every scan falls where an entry is allowed and no exit is
\* forced (session_schedule.py:24-84 under validate_safety_config).
ScansPrecedeExits(sessions) ==
    \A c \in Configs, s \in sessions :
        ValidSafetyConfig(c) =>
            \A t \in ScanTimes(s, c) :
                Session(s, c, t).entry /\ ~Session(s, c, t).force /\ ~Session(s, c, t).emergency
=============================================================================
