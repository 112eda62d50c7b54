--------------------------------- MODULE MCGate ---------------------------------
(***************************************************************************)
(* The market gate, the watch over the governed files, the checks of the    *)
(* morning, the bar audit, the calendar, the decision chain and the account *)
(* share no state: each behaviour exercises one of them ("desk").           *)
(***************************************************************************)
EXTENDS MarketGate, GovernedFiles, HostChecks, BarTimes, MarketCalendar, DecisionChain

CONSTANT Desks

VARIABLE desk

allVars == <<desk, gateVars, watchVars, hostVars, barVars, year, chainVars, riskVars>>

\* What the collector may vault at time t: a good snapshot, or one with one
\* thing wrong.
Row(symbol, t) == [symbol |-> symbol, active |-> TRUE, traded |-> TRUE, lastTrade |-> t]
Good(symbol, t) ==
    [verified |-> TRUE, official |-> TRUE, complete |-> TRUE, probe |-> FALSE,
     received |-> t, symbol |-> symbol, stamps |-> {t}, rows |-> {Row(symbol, t)}]

Taken(t) ==
    LET s == CHOOSE s \in Symbols : TRUE
        other == CHOOSE o \in Symbols : o # s
        g == Good(s, t) IN
    {g, [g EXCEPT !.verified = FALSE], [g EXCEPT !.official = FALSE],
     [g EXCEPT !.complete = FALSE], [g EXCEPT !.received = NoTime],
     [g EXCEPT !.symbol = NoSymbol], [g EXCEPT !.rows = {}],
     [g EXCEPT !.rows = {Row(other, t)}],
     [g EXCEPT !.rows = {Row(s, t), [Row(other, t) EXCEPT !.active = FALSE]}],
     [g EXCEPT !.rows = {[Row(s, t) EXCEPT !.active = FALSE]}],
     [g EXCEPT !.rows = {[Row(s, t) EXCEPT !.traded = FALSE]}],
     [g EXCEPT !.rows = {[Row(s, t) EXCEPT !.lastTrade = NoTime]}],
     [g EXCEPT !.rows = {Row(s, t + 1)}], [g EXCEPT !.rows = {Row(s, t - TradeAge - 1)}],
     [g EXCEPT !.stamps = {}], [g EXCEPT !.stamps = {t + 1}],
     [g EXCEPT !.stamps = {t - QuoteAge, t + 1}], [g EXCEPT !.stamps = {t - QuoteAge - 1}]}

Probed(t) ==
    LET g == [Good(CHOOSE s \in Symbols : TRUE, t) EXCEPT !.probe = TRUE, !.rows = {}] IN
    {g, [g EXCEPT !.verified = FALSE], [g EXCEPT !.probe = FALSE],
     [g EXCEPT !.received = t + ClockSlack + 1], [g EXCEPT !.received = NoTime],
     [g EXCEPT !.stamps = {t - ProbeAge}], [g EXCEPT !.stamps = {t - ProbeAge - 1}]}

SessionClaims ==
    {{}} \cup {{[symbol |-> s, active |-> TRUE, evidenced |-> TRUE]} : s \in Symbols}
DomainClaims == {{}, {[reconciled |-> TRUE, evidenced |-> TRUE]},
                 {[reconciled |-> TRUE, evidenced |-> FALSE]}}

Hosts ==
    LET h == [config |-> "READ_ONLY", armed |-> FALSE, policy |-> "DESIGN", files |-> TRUE] IN
    {h, [h EXCEPT !.config = "LIVE"], [h EXCEPT !.armed = TRUE],
     [h EXCEPT !.policy = "ACTIVE"], [h EXCEPT !.files = FALSE]}

Qualifications ==
    {[version |-> "strategy_v1.0", checks |-> c] : c \in [P0Checks -> {"passed", "bare", "open"}]}
        \cup {[version |-> "strategy_v0.9", checks |-> [c \in P0Checks |-> "passed"]]}

\* Bound: one verification, after which nothing more is vaulted; the owner and
\* the report act after it.
GateNext ==
    \/ GateTick
    \/ evidence = {} /\ \E e \in Taken(gateNow) : TakeSnapshot(e)
    \/ evidence = {} /\ \E e \in Probed(gateNow) : TakeProbe(e)
    \/ /\ evidence = {}
       /\ \E p \in {NoEnvelope, probe}, s \in SessionClaims, a \in DomainClaims :
             MarketCheckVerify(p, s, a, {[reconciled |-> TRUE, evidenced |-> TRUE]})
    \/ /\ evidence # {} /\ authorization = {}
       /\ \E tty, phrase, approved \in BOOLEAN, q \in Qualifications :
             ShadowAuthorize(tty, phrase, approved, q)
    \/ evidence # {} /\ \E h \in Hosts : ShadowReadiness(h)

-----------------------------------------------------------------------------
GoodConfig ==
    [mode |-> "READ_ONLY", live |-> FALSE, tools |-> FALSE, verified |-> TRUE,
     deployable |-> 300, first |-> 75, second |-> 100, absolute |-> 120, daily |-> 1,
     kill |-> 225, losses |-> 3, dteMin |-> 7, dteMax |-> 21, switches |-> TRUE,
     positions |-> {"LONG_CALL", "LONG_PUT"}, delay |-> 30, stop |-> 90, force |-> 30,
     emergency |-> 15, stage |-> 1, stageApproved |-> FALSE]
StageTwo == [GoodConfig EXCEPT !.stage = 2, !.stageApproved = TRUE, !.second = 120]

MCConfigs ==
    {GoodConfig, StageTwo, [StageTwo EXCEPT !.stop = 60, !.force = 59]} \cup
    {[StageTwo EXCEPT !.stageApproved = FALSE], [StageTwo EXCEPT !.second = 130],
     [GoodConfig EXCEPT !.first = 80], [GoodConfig EXCEPT !.kill = 200],
     [GoodConfig EXCEPT !.losses = 4], [GoodConfig EXCEPT !.daily = 2],
     [GoodConfig EXCEPT !.stop = 30], [GoodConfig EXCEPT !.live = TRUE],
     [GoodConfig EXCEPT !.switches = FALSE], [GoodConfig EXCEPT !.dteMin = 0],
     [GoodConfig EXCEPT !.positions = {"SHORT_CALL"}]}

Sessions == {[open |-> 0, close |-> 390], [open |-> 0, close |-> 210]}

MCPolicy == [quoteAge |-> 10, spread |-> 5, volume |-> 500, interest |-> 500, lag |-> 420,
             confirmation |-> 2]

Ask(limit) ==
    [instrument |-> "id", strike |-> 500, order |-> <<"BUY", "OPEN", "LIMIT">>, quantity |-> 1,
     position |-> "LONG_CALL", limit |-> limit, dte |-> 7, bid |-> limit, ask |-> limit,
     updated |-> 0, volume |-> 500, interest |-> 500]

AccountNext ==
    \/ Len(working) + Len(held) < 2 /\
       \/ \E limit \in {75, 76, 100, 120, 121}, s \in Sessions,
              now \in {29, 30, 120, 151, 300, 331}, kill \in {TRUE, FALSE, Unknown} :
             Propose(Ask(limit), MCPolicy, "none", s, now, kill)
       \/ \E blank \in Blanks :
             Propose(Ask(75), MCPolicy, blank, [open |-> 0, close |-> 390], 60, FALSE)
    \/ Filled \/ Unfilled
    \/ \E proceeds \in {0, 75, 130} : Sold(proceeds)
    \/ NextDay
    \/ Reconfigure(StageTwo)

Bar(dir, end) ==
    [dir |-> dir, start |-> end - 300, end |-> end, received |-> end, completed |-> TRUE]
Up(end) == Bar("BULLISH", end)
Down(end) == Bar("BEARISH", end)

\* The decision is at 1000, the last interval ended at 900.
Paths ==
    {<<Up(600), Up(900)>>, <<Down(600), Down(900)>>, <<Down(300), Up(600), Up(900)>>,
     <<Up(300), Up(600), Down(900)>>, <<Up(300), Down(600), Up(900)>>, <<Up(900)>>}
Faulty ==
    {<<Up(600), Bar("FLAT", 900)>>, <<Up(600), Bar(Unknown, 900)>>, <<Up(900), Up(900)>>,
     <<Up(900), Up(600)>>, <<Up(900), Up(1200)>>, <<Up(270), Up(570)>>, <<Up(300), Up(900)>>,
     <<Up(600), [Up(900) EXCEPT !.completed = FALSE]>>,
     <<Up(600), [Up(900) EXCEPT !.received = Unknown]>>,
     <<Up(600), [Up(900) EXCEPT !.start = 800]>>, <<>>}

Underlying(close) ==
    [close |-> close, vwap |-> 500, fast |-> close, slow |-> 500, high |-> 505, low |-> 495,
     volume |-> 150, average |-> 100]
Underlyings ==
    {Underlying(510), Underlying(490), Underlying(503), [Underlying(510) EXCEPT !.volume = 149],
     [Underlying(510) EXCEPT !.high = Unknown]}

Option(type) ==
    [underlying |-> "SPY", type |-> type, instrument |-> "id", strike |-> 500, dte |-> 7,
     bid |-> 72, ask |-> 75, delta |-> 50, updated |-> 995, quoted |-> 996, earnings |-> 10,
     volume |-> 500, interest |-> 500]
Options ==
    LET o == Option("CALL") IN
    {o, Option("PUT"), [o EXCEPT !.underlying = "QQQ"], [o EXCEPT !.instrument = ""],
     [o EXCEPT !.instrument = Null], [o EXCEPT !.strike = Unknown], [o EXCEPT !.strike = 9999],
     [o EXCEPT !.dte = 3], [o EXCEPT !.bid = 60], [o EXCEPT !.bid = 76], [o EXCEPT !.ask = Unknown],
     [o EXCEPT !.bid = 75, !.ask = 78], [o EXCEPT !.delta = 80], [o EXCEPT !.updated = 980],
     [o EXCEPT !.quoted = 980], [o EXCEPT !.quoted = 1001], [o EXCEPT !.earnings = 2],
     [o EXCEPT !.volume = 1]}

Account ==
    [type |-> "cash", equity |-> 300, buying |-> 300, settled |-> 300, reserved |-> 0,
     optionPositions |-> 0, equityPositions |-> 0, optionOrders |-> 0, equityOrders |-> 0,
     streak |-> 0, entries |-> 0]

MCInputs ==
    LET market == [open |-> TRUE, entry |-> TRUE, force |-> FALSE]
        pairs == (Paths \X Paths) \cup ({<<Up(600), Up(900)>>} \X Faulty)
                     \cup (Faulty \X {<<Up(600), Up(900)>>}) IN
    {[received |-> 1000, source |-> 995, symbol |-> "SPY", completed |-> 0, market |-> market,
      bars |-> [s \in References |-> IF s = "SPY" THEN p[1] ELSE p[2]],
      underlying |-> u, option |-> o, account |-> Account] :
       p \in pairs, u \in Underlyings, o \in Options}
    \cup
    {[received |-> 1000, source |-> source, symbol |-> "SPY", completed |-> done, market |-> m,
      bars |-> [s \in References |-> <<Up(600), Up(900)>>],
      underlying |-> Underlying(510), option |-> Option("CALL"), account |-> a] :
       source \in {980, 995, 1003}, done \in {0, 5, Unknown},
       m \in {market, [market EXCEPT !.entry = Unknown], [market EXCEPT !.force = TRUE]},
       a \in {Account, [Account EXCEPT !.equity = 220], [Account EXCEPT !.settled = 70]}}

MCInit ==
    /\ desk \in Desks
    /\ GateInit
    /\ WatchInit /\ (desk # "governed" => baseline = NoBaseline)
    /\ IF desk = "host" THEN HostInit
       ELSE HostInit /\ broken = {} /\ marketDay
    /\ BarsInit /\ (desk # "bars" => barsReceived = 0)
    /\ CalendarInit
    /\ RiskInit /\ (desk # "account" => safety = GoodConfig /\ completed = 0)
    /\ IF desk = "decision" THEN ChainInit
       ELSE input = {} /\ formal = FALSE /\ decision = NoDecision

MCNext ==
    /\ UNCHANGED desk
    /\ \/ /\ desk = "gate" /\ GateNext
          /\ UNCHANGED <<watchVars, hostVars, barVars, year, chainVars, riskVars>>
       \/ /\ desk = "governed" /\ WatchNext
          /\ UNCHANGED <<gateVars, hostVars, barVars, year, chainVars, riskVars>>
       \/ /\ desk = "host" /\ HostNext
          /\ UNCHANGED <<gateVars, watchVars, barVars, year, chainVars, riskVars>>
       \/ /\ desk = "bars" /\ BarsNext
          /\ UNCHANGED <<gateVars, watchVars, hostVars, year, chainVars, riskVars>>
       \/ /\ desk = "decision" /\ \E pilot \in BOOLEAN : ShadowEvaluate(safety, pilot)
          /\ UNCHANGED <<gateVars, watchVars, hostVars, barVars, year, riskVars>>
       \/ /\ desk = "account" /\ AccountNext
          /\ UNCHANGED <<gateVars, watchVars, hostVars, barVars, year, chainVars>>
       \/ /\ desk = "calendar" /\ CalendarNext
          /\ UNCHANGED <<gateVars, watchVars, hostVars, barVars, chainVars, riskVars>>

MCSpec ==
    /\ MCInit /\ [][MCNext]_allVars
    /\ WF_watchVars(desk = "governed" /\ Watch /\ 
                  UNCHANGED <<desk, gateVars, hostVars, barVars, year, chainVars,
                            riskVars>>)

=================================================================================
