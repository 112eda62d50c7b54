------------------------------ MODULE DecisionChain ------------------------------
(***************************************************************************)
(* One decision of the Shadow pipeline on an input file: loading            *)
(* (execution/shadow_input.py), the sample gate, the bars and the market    *)
(* regime (market_regime.py), the underlying signal (underlying_signal.py), *)
(* the contract and the validator (shadow_pipeline.py), for a pilot or,     *)
(* with an authorization, formally (main.py shadow-evaluate,                *)
(* execution/shadow_pilot.py).  The time of the decision is the receipt     *)
(* time the file states.  Times are seconds, prices cents.                  *)
(***************************************************************************)
EXTENDS RiskValidator

CONSTANTS Inputs,         \* files the collecting agent may write
          Null,           \* JSON null as the text of a field
          References,     \* reference_symbols
          Policy          \* the frozen strategy policy

VARIABLES input, formal, decision

chainVars == <<input, formal, decision>>

Outcome(status, limit) == [status |-> status, limit |-> limit, pilot |-> FALSE]
NoDecision == Outcome("NONE", Unknown)

-----------------------------------------------------------------------------
(* The file, as the schema types it; an absent or null number is Unknown.    *)

ReferenceBars ==   \* what a reference symbol's bars say
    [dir : OrUnknown({"BULLISH", "BEARISH", "FLAT"}), start : OrUnknown(Int),
     end : OrUnknown(Int), received : OrUnknown(Int), completed : OrUnknown(BOOLEAN)]
ShadowInputs ==
    [received : Int, source : Int, symbol : STRING \cup {Null}, completed : OrUnknown(Int),
     market : [open : OrUnknown(BOOLEAN), entry : OrUnknown(BOOLEAN), force : OrUnknown(BOOLEAN)],
     bars : [References -> Seq(ReferenceBars)],
     underlying : [close : OrUnknown(Int), vwap : OrUnknown(Int), fast : OrUnknown(Int),
                   slow : OrUnknown(Int), high : OrUnknown(Int), low : OrUnknown(Int),
                   volume : OrUnknown(Int), average : OrUnknown(Int)],
     option : [underlying : STRING \cup {Null}, type : {"CALL", "PUT"}, instrument : STRING \cup {Null},
               strike : OrUnknown(Int), dte : Int, bid : OrUnknown(Int), ask : OrUnknown(Int),
               delta : OrUnknown(Int), updated : OrUnknown(Int), quoted : OrUnknown(Int),
               earnings : OrUnknown(Int), volume : OrUnknown(Int), interest : OrUnknown(Int)],
     account : [type : STRING, equity : OrUnknown(Int), buying : OrUnknown(Int),
                settled : OrUnknown(Int), reserved : OrUnknown(Int),
                optionPositions : OrUnknown(Int), equityPositions : OrUnknown(Int),
                optionOrders : OrUnknown(Int), equityOrders : OrUnknown(Int),
                streak : OrUnknown(Int), entries : OrUnknown(Int)]]

\* A valid policy confirms a trend with two bars (strategy/policy.py:104).
ASSUME ChainAssumption ==
    Inputs \subseteq ShadowInputs /\ Policy \in Policies /\ Policy.confirmation = 2

-----------------------------------------------------------------------------
(* Loading.  A required field that is missing, or a value of the wrong type, *)
(* makes the file unreadable; a null is None for a number or a time, but a   *)
(* text field takes str() of it, so a null name becomes the text None.       *)

Text(value) == IF value = Null THEN "None" ELSE value

LoadShadowInput(f) ==
    [f EXCEPT !.option.instrument = IF Text(@) = "" THEN Unknown ELSE Text(@),
              !.option.underlying = Text(@),
              !.symbol = Text(@),
              !.option.strike = IF @ = Unknown THEN -1 ELSE @]

\* ReadOnlySampleGate of a fresh session.
SampleAccepted(f) == f.received - f.source \in -2..10

-----------------------------------------------------------------------------
(* Bars: per reference symbol a sequence of                                  *)
(* [dir, start, end, received, completed]; dir is what close against VWAP    *)
(* and the two averages say, Unknown when one is missing.                    *)

BarSound(b, now) ==
    /\ Unknown \notin {b.start, b.end, b.received}
    /\ b.completed = TRUE
    /\ b.end - b.start = 300 /\ b.end <= b.received
    /\ b.end <= now

BarSetSound(bars, now) ==
    \A s \in References :
        /\ \A k \in 1..Len(bars[s]) : BarSound(bars[s][k], now)
        /\ \A k \in 2..Len(bars[s]) : bars[s][k].end > bars[s][k - 1].end
        /\ bars[s] # <<>> => now - Last(bars[s]).end <= Policy.lag

MutantRegime(bars) ==   \* any two bars confirm
    LET agree(d) == \A s \in References :
            Cardinality({k \in 1..Len(bars[s]) : bars[s][k].dir = d}) >= Policy.confirmation IN
    IF agree("BULLISH") THEN "BULLISH" ELSE IF agree("BEARISH") THEN "BEARISH" ELSE "NO_TRADE"

\* The last bars of every reference symbol point one way.
Regime(bars) ==
    LET confirmed(s, d) ==
            /\ Len(bars[s]) >= Policy.confirmation
            /\ \A k \in (Len(bars[s]) - Policy.confirmation + 1)..Len(bars[s]) : bars[s][k].dir = d
        agree(d) == \A s \in References : confirmed(s, d) IN
    IF agree("BULLISH") THEN "BULLISH" ELSE IF agree("BEARISH") THEN "BEARISH" ELSE "NO_TRADE"

\* A volume breakout of the underlying in the direction of the market.
Signal(u, regime) ==
    IF \/ \E x \in DOMAIN u : u[x] = Unknown
       \/ u.average <= 0 \/ u.volume < 0
       \/ 2 * u.volume < 3 * u.average
    THEN "NO_TRADE"
    ELSE IF regime = "BULLISH" /\ u.close > u.vwap /\ u.fast > u.slow /\ u.close > u.high THEN "CALL"
    ELSE IF regime = "BEARISH" /\ u.close < u.vwap /\ u.fast < u.slow /\ u.close < u.low THEN "PUT"
    ELSE "NO_TRADE"

-----------------------------------------------------------------------------
\* Midpoint plus a quarter of the spread, rounded down to the cent.
EntryLimit(bid, ask) == Min({ask, (bid + 3 * ask) \div 4})

QuoteValid(o) == Known(o.bid) /\ Known(o.ask) /\ o.bid >= 0 /\ o.ask > 0 /\ o.ask >= o.bid

ContractOk(f, direction) ==
    LET o == f.option IN
    /\ o.underlying = f.symbol /\ o.type = direction
    /\ Known(o.quoted) /\ f.received - o.quoted \in 0..Policy.quoteAge
    /\ Known(o.instrument)
    /\ o.strike > 0
    /\ 10 * o.strike \in (7 * f.underlying.close)..(13 * f.underlying.close)
    /\ Known(o.delta) /\ o.delta \in 30..65
    /\ Known(o.earnings) /\ o.earnings \notin 0..3
    /\ QuoteValid(o)

Intent(o) ==
    [instrument |-> o.instrument, strike |-> o.strike, order |-> <<"BUY", "OPEN", "LIMIT">>,
     quantity |-> 1, position |-> IF o.type = "CALL" THEN "LONG_CALL" ELSE "LONG_PUT",
     limit |-> EntryLimit(o.bid, o.ask), dte |-> o.dte, bid |-> o.bid, ask |-> o.ask,
     updated |-> o.updated, volume |-> o.volume, interest |-> o.interest]

\* evaluate_shadow_candidate
Decide(f, c, pilot, authorized) ==
    LET regime == Regime(f.bars)
        signal == Signal(f.underlying, regime)
        limit == EntryLimit(f.option.bid, f.option.ask) IN
    IF ~BarSetSound(f.bars, f.received) THEN Outcome("REJECTED", Unknown)
    ELSE IF regime = "NO_TRADE" \/ signal = "NO_TRADE" THEN Outcome("NO_TRADE", Unknown)
    ELSE IF ~ContractOk(f, signal) THEN Outcome("REJECTED", Unknown)
    ELSE IF ~Approved(ShadowConfig(c), f.account, Intent(f.option), f.market, Policy, FALSE,
                      f.completed, f.received)
         THEN Outcome("REJECTED", limit)
    ELSE IF ~pilot /\ ~authorized THEN Outcome("REJECTED", limit)
    ELSE Outcome("PILOT_SIMULATED_ENTRY", limit)

-----------------------------------------------------------------------------
ChainInit ==
    /\ input \in Inputs
    /\ formal \in BOOLEAN          \* a valid authorization record exists
    /\ decision = NoDecision

\* main.py shadow-evaluate, run_one_shot_pilot.  An invalid configuration
\* raises.
ShadowEvaluate(c, pilot) ==
    /\ decision.status = "NONE"
    /\ pilot \/ formal
    /\ ValidSafetyConfig(c)
    /\ LET f == LoadShadowInput(input) IN
       decision' = [(IF SampleAccepted(f) THEN Decide(f, c, pilot, formal)
                     ELSE Outcome("DATA_REJECTED", Unknown)) EXCEPT !.pilot = pilot]
    /\ UNCHANGED <<input, formal>>

ChainSpec ==
    ChainInit /\ [][\E c \in Configs, pilot \in BOOLEAN : ShadowEvaluate(c, pilot)]_chainVars

-----------------------------------------------------------------------------
\* A simulated entry rests on the whole chain (shadow_pipeline.py:63-287): the
\* newest two bars of both reference symbols are complete and point the way of
\* the option, and no bar is of the future; the underlying broke out that way;
\* the limit lies between bid and ask and within the stage of the trades
\* completed, the quote was received before the decision; and without the pilot flag the owner had
\* authorized it.
EntryIsEarned ==
    decision.status = "PILOT_SIMULATED_ENTRY" =>
        LET o == input.option
            way == IF o.type = "CALL" THEN "BULLISH" ELSE "BEARISH" IN
        /\ \A s \in References :
             LET bars == input.bars[s]
                 newest == {k \in 1..Len(bars) :
                              Cardinality({j \in 1..Len(bars) : bars[j].end > bars[k].end}) < 2} IN
             /\ Cardinality(newest) >= 2
             /\ \A k \in newest : bars[k].dir = way /\ bars[k].completed
             /\ \A k \in 1..Len(bars) : bars[k].end <= input.received
        /\ IF o.type = "CALL" THEN input.underlying.close > input.underlying.high
           ELSE input.underlying.close < input.underlying.low
        /\ o.bid <= decision.limit /\ decision.limit <= o.ask /\ decision.limit > 0
        /\ decision.limit <= IF input.completed < 5 THEN HardFirstStage ELSE HardAbsolute
        /\ o.quoted <= input.received
        /\ decision.pilot \/ formal
=============================================================================
