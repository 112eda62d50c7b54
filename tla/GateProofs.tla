------------------------------ MODULE GateProofs ------------------------------
(***************************************************************************)
(* The market gate, the watch over the governed files, the morning checks,  *)
(* the bar audit, the account, the decision chain and the calendar, for any *)
(* envelopes, claims, files, hosts, bars, configurations, orders, input     *)
(* files and years.                                                         *)
(***************************************************************************)
EXTENDS MarketGate, GovernedFiles, HostChecks, BarTimes, DecisionChain, MarketCalendar,
        FiniteSetTheorems, WellFoundedInduction, TLAPS

-----------------------------------------------------------------------------
(* GO is earned.  A document of evidence says what verification says of the *)
(* envelopes it names, at the time it names; the report keeps the documents *)
(* and the authorization it was made from.                                  *)

IsDocument(d) ==
    /\ d.snapshot \in Envelopes /\ d.probe \in Envelopes \cup {NoEnvelope} /\ d.at \in Nat
    /\ \E session, account, orders :
         d.results = VerifyMarketChecks(d.snapshot, d.probe, session, account, orders, d.at)

Evidenced(a) == \A c \in P0Checks : a.from.checks[c] = "passed"

GateInv ==
    /\ gateNow \in Nat
    /\ snapshot \in Envelopes \cup {NoEnvelope}
    /\ probe \in Envelopes \cup {NoEnvelope}
    /\ \A d \in evidence : IsDocument(d)
    /\ \A d \in report.evidence : IsDocument(d)
    /\ \A a \in authorization : Evidenced(a)
    /\ \A a \in report.authorization : Evidenced(a)
    /\ report.go =>
         /\ report.evidence # {} /\ report.authorization # {}
         /\ \A d \in report.evidence, c \in MarketChecks : d.results[c] = "PASS"
         /\ \A h \in report.host : h.config = "READ_ONLY" /\ ~h.armed

LEMMA VerdictPasses ==
  ASSUME NEW pass
  PROVE  Verdict(pass) = "PASS" => pass
  BY DEF Verdict

\* What a probe that passes shows: a quote young at the time of the verification.
LEMMA ProbeIsPresent ==
  ASSUME NEW p \in Envelopes, NEW now \in Nat, NEW since,
         FreshQuoteProbe(p, now, since) = "PASS"
  PROVE  \E t \in p.stamps : now - t <= Contemporary + ProbeAge
<1>1. /\ p.received # NoTime /\ now - p.received <= Contemporary
      /\ YoungerThan(p, ProbeAge)
  BY VerdictPasses DEF FreshQuoteProbe
<1>2. p.received \in Int /\ p.stamps \subseteq Int
  BY <1>1 DEF Envelopes
<1>3. PICK t \in QuoteTimes(p) : p.received - t <= ProbeAge
  BY <1>1 DEF YoungerThan
<1>4. t \in p.stamps /\ t \in Int
  BY <1>2, <1>3 DEF QuoteTimes
<1>5. Contemporary \in Int /\ ProbeAge \in Int
  BY GateAssumption
<1>6. now - t <= Contemporary + ProbeAge
  BY <1>1, <1>2, <1>3, <1>4, <1>5
<1>7. QED
  BY <1>4, <1>6

\* Where the snapshot carries equity quotes, only its own symbol's can pass.
LEMMA RowsDecide ==
  ASSUME NEW e, NEW claims, RawOk(e), e.rows # {}, InstrumentSession(e, claims) = "PASS"
  PROVE  \E r \in e.rows : r.symbol = e.symbol /\ r.active /\ r.traded
<1>1. SessionFromQuotes(e) \in {"PASS", "FAIL"}
  BY DEF SessionFromQuotes, Verdict
<1>2. SessionFromQuotes(e) = "PASS"
  BY <1>1 DEF InstrumentSession
<1> DEFINE row == CHOOSE r \in e.rows : r.symbol = e.symbol
<1>3. (\E r \in e.rows : r.symbol = e.symbol) /\ row.active /\ row.traded
  BY <1>2, VerdictPasses DEF SessionFromQuotes
<1>4. row \in e.rows /\ row.symbol = e.symbol
  BY <1>3
<1>5. QED
  BY <1>3, <1>4

LEMMA DocumentIsProof ==
  ASSUME NEW d, IsDocument(d), \A c \in MarketChecks : d.results[c] = "PASS"
  PROVE  /\ d.snapshot.verified /\ d.snapshot.official /\ d.snapshot.complete
         /\ d.probe # NoEnvelope =>
              \E t \in d.probe.stamps : d.at - t <= Contemporary + ProbeAge
         /\ d.snapshot.rows # {} =>
              \E r \in d.snapshot.rows : r.symbol = d.snapshot.symbol /\ r.active /\ r.traded
<1> DEFINE e == d.snapshot
<1>1. PICK session, account, orders :
        d.results = VerifyMarketChecks(e, d.probe, session, account, orders, d.at)
  BY DEF IsDocument
<1>2. /\ RawSnapshot(e) = "PASS"
      /\ InstrumentSession(e, session) = "PASS"
      /\ d.probe # NoEnvelope =>
           FreshQuoteProbe(d.probe, d.at, IF RawOk(e) THEN e.received ELSE NoTime) = "PASS"
  BY <1>1 DEF MarketChecks, VerifyMarketChecks
<1>3. e.verified /\ e.official /\ e.complete
  BY <1>2, VerdictPasses DEF RawSnapshot
<1>4. e.rows # {} => \E r \in e.rows : r.symbol = e.symbol /\ r.active /\ r.traded
  BY <1>2, RowsDecide DEF RawOk
<1>5. ASSUME d.probe # NoEnvelope
      PROVE  \E t \in d.probe.stamps : d.at - t <= Contemporary + ProbeAge
  <2>1. d.probe \in Envelopes /\ d.at \in Nat
    BY <1>5 DEF IsDocument
  <2>2. QED
    BY <1>2, <1>5, <2>1, ProbeIsPresent
<1>6. QED
  BY <1>3, <1>4, <1>5

LEMMA GateInitInv == GateInit => GateInv
  BY DEF GateInit, GateInv

LEMMA VerifyKeepsGate ==
  ASSUME GateInv, NEW p \in {NoEnvelope, probe}, NEW session, NEW account, NEW orders,
         MarketCheckVerify(p, session, account, orders)
  PROVE  GateInv'
<1> DEFINE d == [results |-> VerifyMarketChecks(snapshot, p, session, account, orders, gateNow),
                 at |-> gateNow, snapshot |-> snapshot, probe |-> p]
<1>1. snapshot \in Envelopes /\ p \in Envelopes \cup {NoEnvelope} /\ gateNow \in Nat
  BY DEF GateInv, MarketCheckVerify
<1>2. IsDocument(d)
  BY <1>1 DEF IsDocument
<1>3. evidence' = {d}
  BY DEF MarketCheckVerify
<1>4. QED
  BY <1>2, <1>3 DEF GateInv, MarketCheckVerify

LEMMA ReportKeepsGate ==
  ASSUME GateInv, NEW h, ShadowReadiness(h)
  PROVE  GateInv'
<1>1. report' = [go |-> MondayGo(h), host |-> {h},
                 evidence |-> evidence, authorization |-> authorization]
  BY DEF ShadowReadiness
<1>2. ASSUME MondayGo(h)
      PROVE  /\ evidence # {} /\ authorization # {}
             /\ \A d \in evidence, c \in MarketChecks : d.results[c] = "PASS"
             /\ h.config = "READ_ONLY" /\ ~h.armed
  <2>1. \A c \in MarketChecks : MarketCheckPassed(c)
    BY <1>2 DEF MondayGo
  <2>2. "fresh_option_quote" \in MarketChecks
    BY DEF MarketChecks
  <2>3. evidence # {} /\ \A d \in evidence, c \in MarketChecks : d.results[c] = "PASS"
    BY <2>1, <2>2 DEF MarketCheckPassed
  <2>4. QED
    BY <1>2, <2>3 DEF MondayGo, OfflineReady, Authorized
<1>3. QED
  BY <1>1, <1>2 DEF GateInv, ShadowReadiness

LEMMA GateStepInv == GateInv /\ [GateSteps]_gateVars => GateInv'
<1> SUFFICES ASSUME GateInv, [GateSteps]_gateVars PROVE GateInv'
  OBVIOUS
<1>1. CASE GateTick
  BY <1>1 DEF GateInv, GateTick
<1>2. ASSUME NEW e \in Envelopes, TakeSnapshot(e) \/ TakeProbe(e) PROVE GateInv'
  BY <1>2 DEF GateInv, TakeSnapshot, TakeProbe
<1>3. ASSUME NEW p \in {NoEnvelope, probe}, NEW session, NEW account, NEW orders,
             MarketCheckVerify(p, session, account, orders)
      PROVE  GateInv'
  BY <1>3, VerifyKeepsGate
<1>4. ASSUME NEW tty, NEW phrase, NEW approved, NEW q, ShadowAuthorize(tty, phrase, approved, q)
      PROVE  GateInv'
  BY <1>4 DEF GateInv, ShadowAuthorize, Evidenced
<1>5. ASSUME NEW h, ShadowReadiness(h) PROVE GateInv'
  BY <1>5, ReportKeepsGate
<1>6. CASE UNCHANGED gateVars
  BY <1>6 DEF gateVars, GateInv
<1>7. QED
  BY <1>1, <1>2, <1>3, <1>4, <1>5, <1>6 DEF GateSteps

\* GO rests on proof of the present market, whatever was vaulted, claimed and
\* found (market_checks.py:229-318, shadow_readiness.py:78-240).
THEOREM ReadinessIsEarned == GateSpec => []GoIsEarned
<1>1. GateInv => GoIsEarned
  <2> SUFFICES ASSUME GateInv, report.go
               PROVE  GoIsEarned
    BY DEF GoIsEarned
  <2>1. \A d \in report.evidence : IsDocument(d) /\ \A c \in MarketChecks : d.results[c] = "PASS"
    BY DEF GateInv
  <2>2. QED
    BY <2>1, DocumentIsProof DEF GateInv, GoIsEarned, Evidenced
<1>2. QED
  BY <1>1, GateInitInv, GateStepInv, PTL DEF GateSpec

-----------------------------------------------------------------------------
(* The morning.                                                             *)

\* The two copies of the gate agree on one status (preopen_qualification.py:133
\* and launchd_shadow_worker.py:174).
LEMMA GatesAgree ==
  ASSUME Holds({"CONFIG_VALID"}), PreopenGate(BuildStatus)
  PROVE  WorkerGate
  BY DEF PreopenGate, WorkerGate, BuildStatus

MorningInv ==
    /\ morning \in [tool : {"none", "preflight", "qualifying", "preopen", "diagnostic"},
                   ok : BOOLEAN, failed : BOOLEAN, changed : BOOLEAN]
    /\ morning.tool = "qualifying" /\ morning.ok /\ ~morning.changed =>
          Holds({"CONFIG_VALID"}) /\ PreopenGate(BuildStatus)
    /\ ReadyMeansSlotsCanRun

LEMMA HostStepInv == MorningInv /\ [HostNext]_hostVars => MorningInv'
<1> SUFFICES ASSUME MorningInv, [HostNext]_hostVars PROVE MorningInv'
  OBVIOUS
<1> USE DEF MorningInv, ReadyMeansSlotsCanRun
<1>0. PreopenGate(BuildStatus) \in BOOLEAN
  BY DEF PreopenGate, BuildStatus
<1>1. ASSUME NEW fact, HostChanges(fact) PROVE MorningInv'
  BY <1>1 DEF HostChanges
<1>2. ASSUME NEW s, RegisterSlot(s) PROVE MorningInv'
  BY <1>2 DEF RegisterSlot
<1>3. CASE Preflight
  BY <1>3 DEF Preflight, Reports, Holds
<1>4. CASE PreopenReadsStatus
  <2>1. /\ UNCHANGED broken /\ Holds({"CONFIG_VALID"})
        /\ morning' = [tool |-> "qualifying", ok |-> PreopenGate(BuildStatus),
                       failed |-> FALSE, changed |-> FALSE]
    BY <1>4 DEF PreopenReadsStatus, Reports
  <2>2. QED
    BY <1>0, <2>1 DEF PreopenGate, BuildStatus, Holds
<1>5. CASE PreopenQualification
  <2>1. Holds(PreopenFacts) => Holds({"WATCHDOG", "CLI", "MCP_KNOWN"})
    BY DEF Holds, PreopenFacts
  <2>2. /\ UNCHANGED <<broken, registered>> /\ morning.tool = "qualifying"
        /\ morning' = [morning EXCEPT !.tool = "preopen",
              !.ok = morning.ok /\ Holds(PreopenFacts) /\ registered = DaySlots]
    BY <1>5 DEF PreopenQualification
  <2>3. morning' \in [tool : {"none", "preflight", "qualifying", "preopen", "diagnostic"},
                      ok : BOOLEAN, failed : BOOLEAN, changed : BOOLEAN]
        /\ morning'.tool = "preopen"
    BY <2>2
  <2>4. ASSUME morning'.ok, ~morning'.changed
        PROVE  /\ WorkerGate' /\ registered' = DaySlots
               /\ Holds({"WATCHDOG", "CLI", "MCP_KNOWN"})'
    <3>1. morning.ok /\ ~morning.changed /\ Holds(PreopenFacts) /\ registered = DaySlots
      BY <2>2, <2>4
    <3>2. WorkerGate
      BY <2>2, <3>1, GatesAgree
    <3>3. QED
      BY <2>1, <2>2, <3>1, <3>2 DEF WorkerGate, BuildStatus, Holds
  <2>5. QED
    BY <2>3, <2>4
<1>6. CASE PremarketDiagnostic
  BY <1>6 DEF PremarketDiagnostic, Reports, Holds
<1>7. ASSUME NEW reading, CheckPower(reading) PROVE MorningInv'
  BY <1>7 DEF CheckPower, WorkerGate, PreopenGate, BuildStatus, Holds
<1>8. CASE UNCHANGED hostVars
  BY <1>8 DEF hostVars, WorkerGate, PreopenGate, BuildStatus, Holds
<1>9. QED
  BY <1>1, <1>2, <1>3, <1>4, <1>5, <1>6, <1>7, <1>8 DEF HostNext

\* A morning reported ready on a host that stays as it is lets every slot of the
\* day run: the qualification's copy of the gate (preopen_qualification.py:133-154)
\* is as strict as the worker's (launchd_shadow_worker.py:155-181).
THEOREM ReadyMorning == HostSpec => []ReadyMeansSlotsCanRun
<1>1. HostInit => MorningInv
  BY DEF HostInit, MorningInv, ReadyMeansSlotsCanRun
<1>2. MorningInv => ReadyMeansSlotsCanRun
  BY DEF MorningInv
<1>3. QED
  BY <1>1, <1>2, HostStepInv, PTL DEF HostSpec

-----------------------------------------------------------------------------
(* The account.  At most one order works or one position is held; what was   *)
(* paid for it came from an account above the threshold, on a day without an *)
(* earlier entry, after at most two losses in a row.                         *)

Premiums == 1..HardAbsolute

\* The account when the order was approved for the premium w.
Afforded(w, cash) ==
    /\ w \in Premiums
    /\ cash >= HardEquityKill
    /\ streak < HardConsecutiveLosses
    /\ completed < 5 => w <= HardFirstStage

Idle ==
    /\ working = <<>> /\ held = <<>>
    /\ settled + unsettled >= HardEquityKill - HardAbsolute

Asked ==
    /\ held = <<>> /\ entries = 0
    /\ \E w \in Premiums :
         working = <<w>> /\ w <= settled /\ Afforded(w, settled + unsettled)

Owned ==
    /\ working = <<>>
    /\ \E w \in Premiums : held = <<w>> /\ Afforded(w, settled + unsettled + w)

EntryLimits ==
    \A e \in lastEntry :
        /\ e.blank = "none" /\ e.kill = FALSE
        /\ e.limit <= HardAbsolute
        /\ e.left >= 60 /\ e.since >= 30

RiskInv ==
    /\ safety \in Configs
    /\ settled \in Nat /\ unsettled \in Nat /\ completed \in Nat
    /\ streak \in 0..HardConsecutiveLosses /\ entries \in {0, 1}
    /\ Idle \/ Asked \/ Owned
    /\ EntryLimits

\* The fold over a sequence of at most one premium.
First(T) == CHOOSE k \in T : TRUE

IsFold(g, s) ==
    g = [T \in SUBSET DOMAIN s |-> IF T = {} THEN 0 ELSE s[First(T)] + g[T \ {First(T)}]]

LEMMA TotalIsFold ==
  ASSUME NEW s
  PROVE  Total(s) = (CHOOSE g : IsFold(g, s))[DOMAIN s]
  BY DEF Total, FoldSeq, FoldFunction, FoldFunctionOnSet, MapThenFoldSet, IsFold, First

LEMMA TotalOfNone == Total(<<>>) = 0
<1> DEFINE g == CHOOSE g : IsFold(g, <<>>)
<1>1. DOMAIN <<>> = {}
  OBVIOUS
<1>2. IsFold([T \in SUBSET {} |-> 0], <<>>)
  BY <1>1 DEF IsFold
<1>3. IsFold(g, <<>>)
  BY <1>2
<1>4. g[{}] = 0
  <2> HIDE DEF g
  <2> QED
    BY <1>1, <1>3 DEF IsFold
<1>5. QED
  BY <1>1, <1>4, TotalIsFold

LEMMA TotalOfOne ==
  ASSUME NEW w \in Int
  PROVE  Total(<<w>>) = w
<1> DEFINE s == <<w>>
           h == [T \in SUBSET {1} |-> IF T = {} THEN 0 ELSE w]
           g == CHOOSE g : IsFold(g, s)
<1>1. DOMAIN s = {1} /\ s[1] = w
  OBVIOUS
<1>2. First({1}) = 1 /\ {1} \ {1} = {}
  BY DEF First
<1>3. IsFold(h, s)
  <2>1. ASSUME NEW T \in SUBSET {1}, T # {}
        PROVE  h[T] = s[First(T)] + h[T \ {First(T)}]
    <3>1. T = {1}
      BY <2>1
    <3>2. h[T] = w /\ h[T \ {First(T)}] = 0 /\ s[First(T)] = w
      BY <1>1, <1>2, <3>1
    <3>3. QED
      BY <3>2
  <2>2. h[{}] = 0
    OBVIOUS
  <2>3. h = [T \in SUBSET {1} |-> IF T = {} THEN 0 ELSE s[First(T)] + h[T \ {First(T)}]]
    <3> DEFINE k == [T \in SUBSET {1} |-> IF T = {} THEN 0 ELSE s[First(T)] + h[T \ {First(T)}]]
    <3>1. \A T \in SUBSET {1} : h[T] = k[T]
      BY <2>1, <2>2
    <3>2. QED
      BY <3>1
  <2>4. QED
    BY <1>1, <2>3 DEF IsFold
<1>4. IsFold(g, s)
  BY <1>3
<1>5. g = [T \in SUBSET {1} |-> IF T = {} THEN 0 ELSE s[First(T)] + g[T \ {First(T)}]]
  BY <1>1, <1>4 DEF IsFold
<1>6. g[{}] = 0
  <2> HIDE DEF g
  <2> QED
    BY <1>5
<1>7. g[{1}] = s[First({1})] + g[{1} \ {First({1})}]
  <2> HIDE DEF g, s
  <2> QED
    BY <1>5
<1>8. g[{1}] = w
  <2> HIDE DEF g
  <2> QED
    BY <1>1, <1>2, <1>6, <1>7
<1>9. QED
  BY <1>1, <1>8, TotalIsFold

\* The hard limits, of every configuration in force that passes.
LEMMA ConfigWithinLimits ==
  ASSUME NEW c \in SafetyConfigs, ValidSafetyConfig(ShadowConfig(c))
  PROVE  /\ c.first <= HardFirstStage /\ c.second <= HardAbsolute
         /\ c.absolute <= HardAbsolute /\ c.daily = 1 /\ c.kill >= HardEquityKill
         /\ c.losses <= HardConsecutiveLosses
         /\ c.delay >= 30 /\ c.stop >= 60
<1>1. /\ ShadowConfig(c).first = c.first /\ ShadowConfig(c).second = c.second
      /\ ShadowConfig(c).absolute = c.absolute /\ ShadowConfig(c).daily = c.daily
      /\ ShadowConfig(c).kill = c.kill /\ ShadowConfig(c).losses = c.losses
      /\ ShadowConfig(c).delay = c.delay /\ ShadowConfig(c).stop = c.stop
  BY DEF ShadowConfig, SafetyConfigs
<1>2. ValidLimits(ShadowConfig(c)) /\ ValidCutoffs(ShadowConfig(c))
  BY DEF ValidSafetyConfig
<1>3. c.stop \in Int
  BY DEF SafetyConfigs
<1>4. QED
  BY <1>1, <1>2, <1>3 DEF ValidLimits, ValidCutoffs

Accounts ==
    [{"type", "equity", "buying", "settled", "reserved", "optionPositions", "equityPositions",
      "optionOrders", "equityOrders", "streak", "entries"} -> Int \cup {"cash"}]
SessionStates == [{"open", "entry", "force", "emergency"} -> BOOLEAN]

\* What was approved was asked with nothing unknown.
LEMMA ApprovalKnowsAll ==
  ASSUME NEW c, NEW a \in Accounts, NEW i \in Asks, NEW s \in SessionStates, NEW blank \in Blanks, NEW p, NEW kill, NEW done, NEW now,
         blank = "completed" => done = Unknown,
         Approved(c, Blanked(a, blank), Blanked(i, blank), Blanked(s, blank), p, kill, done, now)
  PROVE  blank = "none"
<1> DEFINE A == Blanked(a, blank)
           I == Blanked(i, blank)
           S == Blanked(s, blank)
<1>1. AccountOk(c, A) /\ SessionOk(S) /\ IntentOk(c, I) /\ QuoteOk(c, I, p, now)
      /\ Known(done)
  BY DEF Approved, PremiumOk
<1>2. /\ blank = "type" => A.type = Unknown
      /\ blank = "equity" => A.equity = Unknown
      /\ blank = "buying" => A.buying = Unknown
      /\ blank = "settled" => A.settled = Unknown
      /\ blank = "reserved" => A.reserved = Unknown
      /\ blank = "optionPositions" => A.optionPositions = Unknown
      /\ blank = "equityPositions" => A.equityPositions = Unknown
      /\ blank = "optionOrders" => A.optionOrders = Unknown
      /\ blank = "equityOrders" => A.equityOrders = Unknown
      /\ blank = "streak" => A.streak = Unknown
      /\ blank = "entries" => A.entries = Unknown
  BY DEF Blanked, Accounts
<1>3. blank = "open" => S.open = Unknown
  BY DEF Blanked, SessionStates
<1>4. blank = "entry" => S.entry = Unknown
  BY DEF Blanked, SessionStates
<1>5. blank = "force" => S.force = Unknown
  BY DEF Blanked, SessionStates
<1>6. /\ blank = "instrument" => I.instrument = Unknown
      /\ blank = "strike" => I.strike = Unknown
      /\ blank = "limit" => I.limit = Unknown
      /\ blank = "bid" => I.bid = Unknown
      /\ blank = "ask" => I.ask = Unknown
      /\ blank = "updated" => I.updated = Unknown
      /\ blank = "volume" => I.volume = Unknown
      /\ blank = "interest" => I.interest = Unknown
  BY DEF Blanked, Asks
<1>7. Unknown # 0 /\ Unknown # "cash" /\ Unknown # TRUE /\ Unknown # FALSE
  <2>1. Unknown # 0
    BY RiskAssumption
  <2>2. Unknown # TRUE /\ Unknown # FALSE
    BY RiskAssumption, Zenon
  <2>3. QED
    BY <2>1, <2>2, RiskAssumption
<1> HIDE DEF A, I, S
<1>8. blank \notin {"type", "equity", "buying", "settled", "reserved", "optionPositions",
         "equityPositions", "optionOrders", "equityOrders", "streak", "entries"}
  BY <1>1, <1>2, <1>7 DEF AccountOk, Known
<1>9. blank \notin {"open", "entry", "force"}
  BY <1>1, <1>3, <1>4, <1>5, <1>7 DEF SessionOk
<1>10. blank \notin {"instrument", "strike", "limit", "bid", "ask", "updated", "volume", "interest"}
  BY <1>1, <1>6 DEF IntentOk, QuoteOk, Known
<1>11. blank # "completed"
  BY <1>1 DEF Known
<1>12. QED
  BY <1>1, <1>8, <1>9, <1>10, <1>11 DEF Blanks

LEMMA NothingBlank ==
  ASSUME NEW r, r = [f \in DOMAIN r |-> r[f]], "none" \notin DOMAIN r
  PROVE  Blanked(r, "none") = r
  BY DEF Blanked

\* The three shapes of the account, and its totals.
LEMMA AccountShapes ==
  ASSUME RiskInv
  PROVE  /\ working = <<>> => Total(working) = 0
         /\ held = <<>> => Total(held) = 0
         /\ Len(working) \in Nat /\ Len(held) \in Nat
         /\ Len(working) = 0 => working = <<>>
         /\ Len(held) = 0 => held = <<>>
         /\ Total(working) \in Nat /\ Total(held) \in Nat
<1>1. \A w \in Premiums : Len(<<w>>) = 1 /\ Total(<<w>>) = w /\ w \in Nat
  <2> TAKE w \in Premiums
  <2>1. w \in Nat /\ w \in Int
    BY DEF Premiums
  <2>2. QED
    BY <2>1, TotalOfOne
<1>2. Len(<<>>) = 0 /\ Total(<<>>) = 0
  BY TotalOfNone
<1>3. CASE Idle
  BY <1>2, <1>3 DEF Idle
<1>4. CASE Asked
  BY <1>1, <1>2, <1>4 DEF Asked
<1>5. CASE Owned
  BY <1>1, <1>2, <1>5 DEF Owned
<1>6. QED
  BY <1>3, <1>4, <1>5 DEF RiskInv

LEMMA ProposeKeepsAccount ==
  ASSUME RiskInv, NEW i \in Asks, NEW p, NEW blank \in Blanks, NEW session \in TradingSessions,
         NEW now \in Int, NEW kill, Propose(i, p, blank, session, now, kill)
  PROVE  RiskInv'
<1> DEFINE a == AccountNow
           s == Session(session, safety, now)
           c == ShadowConfig(safety)
<1>1. /\ safety \in SafetyConfigs
      /\ settled \in Nat /\ unsettled \in Nat /\ completed \in Nat
      /\ streak \in Nat /\ entries \in Nat
  BY RiskAssumption DEF RiskInv, HardConsecutiveLosses
<1>2. Total(working) \in Nat /\ Total(held) \in Nat /\ Equity \in Nat
  BY <1>1, AccountShapes DEF Equity
<1>3. a \in Accounts
  BY <1>1, <1>2, AccountShapes DEF AccountNow, Accounts
<1>4. s \in SessionStates
  <2>1. (session.open <= now /\ now < session.close) \in BOOLEAN
    OBVIOUS
  <2>2. s = [f \in {"open", "entry", "force", "emergency"} |-> s[f]]
    BY DEF Session
  <2>3. s.open \in BOOLEAN /\ s.entry \in BOOLEAN /\ s.force \in BOOLEAN /\ s.emergency \in BOOLEAN
    BY DEF Session
  <2> HIDE DEF s
  <2>4. QED
    BY <2>2, <2>3 DEF SessionStates
<1>5. Approved(c, Blanked(a, blank), Blanked(i, blank), Blanked(s, blank), p, kill,
               IF blank = "completed" THEN Unknown ELSE completed, 0)
  BY DEF Propose
<1>6. blank = "none" /\ kill = FALSE
  <2> DEFINE done == IF blank = "completed" THEN Unknown ELSE completed
  <2>1. blank = "completed" => done = Unknown
    OBVIOUS
  <2>2. Approved(c, Blanked(a, blank), Blanked(i, blank), Blanked(s, blank), p, kill, done, 0)
    BY <1>5
  <2> HIDE DEF a, s, c, done
  <2>3. blank = "none"
    BY <1>3, <1>4, <2>1, <2>2, ApprovalKnowsAll
  <2>4. kill = FALSE
    BY <2>2 DEF Approved, ModeOk
  <2>5. QED
    BY <2>3, <2>4
<1>7. Blanked(a, "none") = a /\ Blanked(s, "none") = s /\ Blanked(i, "none") = i
  <2>1. Blanked(a, "none") = a
    BY NothingBlank DEF AccountNow
  <2>2. Blanked(s, "none") = s
    BY NothingBlank DEF Session
  <2>3. Blanked(i, "none") = i
    BY NothingBlank DEF Asks
  <2>4. QED
    BY <2>1, <2>2, <2>3
<1>8. ModeOk(c, kill) /\ AccountOk(c, a) /\ SessionOk(s) /\ IntentOk(c, i)
      /\ PremiumOk(c, a, i, completed)
  <2> HIDE DEF a, s, c
  <2> QED
    BY <1>5, <1>6, <1>7 DEF Approved
<1>9. /\ safety.first <= HardFirstStage /\ safety.second <= HardAbsolute
      /\ safety.absolute <= HardAbsolute /\ safety.daily = 1
      /\ safety.kill >= HardEquityKill /\ safety.losses <= HardConsecutiveLosses
      /\ safety.delay >= 30 /\ safety.stop >= 60
  BY <1>1, <1>8, ConfigWithinLimits DEF ModeOk
<1>10. /\ c.kill = safety.kill /\ c.losses = safety.losses /\ c.daily = safety.daily
       /\ c.stage = safety.stage /\ c.first = safety.first /\ c.second = safety.second
       /\ c.absolute = safety.absolute
  BY <1>1 DEF ShadowConfig, SafetyConfigs
<1>11. /\ safety.kill \in Int /\ safety.losses \in Int /\ safety.first \in Int
       /\ safety.second \in Int /\ safety.absolute \in Int /\ safety.delay \in Int
       /\ safety.stop \in Int /\ i.limit \in Int
       /\ session.open \in Int /\ session.close \in Int
  BY <1>1 DEF SafetyConfigs, Asks, TradingSessions
<1>12. /\ Equity >= HardEquityKill /\ streak < HardConsecutiveLosses /\ entries = 0
       /\ Len(held) = 0 /\ Len(working) = 0
  <2>1. Equity >= safety.kill /\ streak < safety.losses /\ entries < 1
        /\ Len(held) = 0 /\ Len(working) = 0
    BY <1>8, <1>9, <1>10 DEF AccountOk, AccountNow
  <2>2. Equity >= HardEquityKill
    <3>1. Equity >= safety.kill /\ safety.kill >= HardEquityKill
      BY <2>1, <1>9
    <3>2. Equity \in Int /\ safety.kill \in Int /\ HardEquityKill \in Int
      BY <1>2, <1>11 DEF HardEquityKill
    <3>3. QED
      BY <3>1, <3>2
  <2>3. streak < HardConsecutiveLosses /\ entries = 0
    BY <2>1, <1>1, <1>9, <1>11 DEF HardConsecutiveLosses
  <2>4. QED
    BY <2>1, <2>2, <2>3
<1>13. held = <<>> /\ working = <<>> /\ Total(working) = 0 /\ Total(held) = 0
  BY <1>12, AccountShapes
<1>14. /\ i.limit > 0 /\ i.limit <= HardAbsolute /\ i.limit <= settled
       /\ completed < 5 => i.limit <= HardFirstStage
  <2>1. i.limit > 0
    BY <1>8 DEF IntentOk
  <2>2. i.limit <= safety.absolute /\ i.limit <= StageLimit(c, completed)
        /\ i.limit <= settled - Total(working)
    BY <1>8, <1>10 DEF PremiumOk, AccountNow
  <2>3. ASSUME completed < 5 PROVE i.limit <= HardFirstStage
    <3>1. i.limit <= safety.first
      BY <2>2, <2>3, <1>10 DEF StageLimit
    <3>2. QED
      BY <3>1, <1>9, <1>11 DEF HardFirstStage
  <2>4. i.limit <= HardAbsolute
    BY <2>2, <1>9, <1>11 DEF HardAbsolute
  <2>5. i.limit <= settled
    BY <2>2, <1>1, <1>11, <1>13
  <2>6. QED
    BY <2>1, <2>3, <2>4, <2>5
<1>15. session.close - now >= 60 /\ now - session.open >= 30
  <2>1. session.open + safety.delay <= now /\ now <= session.close - safety.stop
    BY <1>8 DEF SessionOk, Session
  <2>2. QED
    BY <2>1, <1>9, <1>11
<1>16. working' = <<i.limit>>
  BY <1>13 DEF Propose
<1>17. lastEntry' = {[blank |-> blank, kill |-> kill, left |-> session.close - now,
                      since |-> now - session.open, limit |-> i.limit]}
       /\ UNCHANGED <<safety, settled, unsettled, held, entries, streak, completed>>
  BY DEF Propose
<1>18. EntryLimits'
  BY <1>6, <1>14, <1>15, <1>17 DEF EntryLimits
<1>19. Asked'
  <2>1. i.limit \in Premiums
    BY <1>11, <1>14 DEF Premiums, HardAbsolute
  <2>2. settled + unsettled >= HardEquityKill
    BY <1>1, <1>12, <1>13 DEF Equity, HardEquityKill
  <2>3. QED
    BY <1>12, <1>13, <1>14, <1>16, <1>17, <2>1, <2>2 DEF Asked, Afforded
<1>20. QED
  BY <1>17, <1>18, <1>19 DEF RiskInv

LEMMA FilledKeepsAccount ==
  ASSUME RiskInv, Filled
  PROVE  RiskInv'
<1>1. Asked /\ working # <<>>
  BY DEF RiskInv, Filled, Idle, Owned
<1>2. PICK w \in Premiums :
        working = <<w>> /\ w <= settled /\ Afforded(w, settled + unsettled)
  BY <1>1 DEF Asked
<1>3. w \in Nat /\ settled \in Nat /\ unsettled \in Nat /\ held = <<>> /\ entries = 0
  BY <1>1, <1>2 DEF Premiums, RiskInv, Asked
<1>4. Head(working) = w /\ Tail(working) = <<>>
  BY <1>2
<1>5. /\ settled' = settled - w /\ held' = <<w>> /\ working' = <<>> /\ entries' = 1
      /\ UNCHANGED <<safety, unsettled, streak, completed, lastEntry>>
  BY <1>3, <1>4 DEF Filled
<1>6. settled' \in Nat /\ settled' + unsettled' + w = settled + unsettled
  BY <1>2, <1>3, <1>5
<1>7. Owned'
  BY <1>2, <1>5, <1>6 DEF Owned, Afforded
<1>8. QED
  BY <1>5, <1>6, <1>7 DEF RiskInv, EntryLimits

LEMMA UnfilledKeepsAccount ==
  ASSUME RiskInv, Unfilled
  PROVE  RiskInv'
<1>1. Asked /\ working # <<>>
  BY DEF RiskInv, Unfilled, Idle, Owned
<1>2. PICK w \in Premiums : working = <<w>> /\ settled + unsettled >= HardEquityKill
  BY <1>1 DEF Asked, Afforded
<1>3. /\ working' = <<>> /\ held' = <<>>
      /\ UNCHANGED <<safety, settled, unsettled, entries, streak, completed, lastEntry>>
  BY <1>1, <1>2 DEF Unfilled, Asked
<1>4. settled + unsettled >= HardEquityKill - HardAbsolute
  BY <1>2 DEF RiskInv, HardEquityKill, HardAbsolute
<1>5. Idle'
  BY <1>3, <1>4 DEF Idle
<1>6. QED
  BY <1>3, <1>5 DEF RiskInv, EntryLimits

LEMMA SoldKeepsAccount ==
  ASSUME RiskInv, NEW proceeds \in Nat, Sold(proceeds)
  PROVE  RiskInv'
<1>1. Owned /\ held # <<>>
  BY DEF RiskInv, Sold, Idle, Asked
<1>2. PICK w \in Premiums : held = <<w>> /\ Afforded(w, settled + unsettled + w)
  BY <1>1 DEF Owned
<1>3. /\ w \in Int /\ w <= HardAbsolute /\ settled \in Nat /\ unsettled \in Nat
      /\ completed \in Nat /\ streak \in Nat
  BY <1>2 DEF Premiums, RiskInv, HardAbsolute, HardConsecutiveLosses
<1>4. /\ working' = <<>> /\ held' = <<>> /\ unsettled' = unsettled + proceeds
      /\ completed' = completed + 1 /\ streak' \in {streak + 1, 0}
      /\ UNCHANGED <<safety, settled, entries, lastEntry>>
  BY <1>1, <1>2 DEF Sold, Owned
<1>5. settled + unsettled + proceeds >= HardEquityKill - HardAbsolute
  BY <1>2, <1>3 DEF Afforded, HardEquityKill, HardAbsolute
<1>6. streak' \in 0..HardConsecutiveLosses
  BY <1>2, <1>3, <1>4 DEF Afforded, HardConsecutiveLosses
<1>7. Idle'
  <2>1. settled' + unsettled' = settled + unsettled + proceeds
    BY <1>3, <1>4
  <2>2. QED
    BY <1>4, <1>5, <2>1 DEF Idle
<1>8. unsettled' \in Nat /\ completed' \in Nat
  BY <1>3, <1>4
<1>9. QED
  BY <1>4, <1>6, <1>7, <1>8 DEF RiskInv, EntryLimits

LEMMA NextDayKeepsAccount ==
  ASSUME RiskInv, NextDay
  PROVE  RiskInv'
<1>1. settled \in Nat /\ unsettled \in Nat
  BY DEF RiskInv
<1>2. /\ working' = <<>> /\ held' = <<>> /\ settled' = settled + unsettled
      /\ unsettled' = 0 /\ entries' = 0 /\ lastEntry' = {}
      /\ UNCHANGED <<safety, streak, completed>>
  BY DEF NextDay
<1>3. Idle
  BY DEF NextDay, RiskInv, Asked, Owned
<1>4. settled' \in Nat /\ settled' + unsettled' = settled + unsettled
  BY <1>1, <1>2
<1>5. Idle'
  BY <1>2, <1>3, <1>4 DEF Idle
<1>6. QED
  BY <1>2, <1>4, <1>5 DEF RiskInv, EntryLimits

LEMMA RiskStepInv == RiskInv /\ [RiskSteps]_riskVars => RiskInv'
<1> SUFFICES ASSUME RiskInv, [RiskSteps]_riskVars PROVE RiskInv'
  OBVIOUS
<1>1. ASSUME NEW i \in Asks, NEW p \in Policies, NEW blank \in Blanks,
             NEW session \in TradingSessions, NEW now \in Int, NEW kill \in OrUnknown(BOOLEAN),
             Propose(i, p, blank, session, now, kill)
      PROVE  RiskInv'
  BY <1>1, ProposeKeepsAccount
<1>2. CASE Filled
  BY <1>2, FilledKeepsAccount
<1>3. CASE Unfilled
  BY <1>3, UnfilledKeepsAccount
<1>4. ASSUME NEW proceeds \in Nat, Sold(proceeds) PROVE RiskInv'
  BY <1>4, SoldKeepsAccount
<1>5. CASE NextDay
  BY <1>5, NextDayKeepsAccount
<1>6. ASSUME NEW c \in Configs, Reconfigure(c) PROVE RiskInv'
  BY <1>6 DEF Reconfigure, RiskInv, Idle, Asked, Owned, Afforded, EntryLimits
<1>7. CASE UNCHANGED riskVars
  BY <1>7 DEF riskVars, RiskInv, Idle, Asked, Owned, Afforded, EntryLimits
<1>8. QED
  BY <1>1, <1>2, <1>3, <1>4, <1>5, <1>6, <1>7 DEF RiskSteps

LEMMA RiskInvBounds == RiskInv => LossIsBounded
<1> SUFFICES ASSUME RiskInv PROVE LossIsBounded
  OBVIOUS
<1>1. settled \in Nat /\ unsettled \in Nat /\ completed \in Nat
      /\ streak <= HardConsecutiveLosses /\ entries <= 1
  BY DEF RiskInv, HardConsecutiveLosses
<1>2. \A w \in Premiums : w \in Nat /\ Len(<<w>>) = 1 /\ Total(<<w>>) = w /\ w <= HardAbsolute
  <2> TAKE w \in Premiums
  <2>1. w \in Nat /\ w \in Int /\ w <= HardAbsolute
    BY DEF Premiums, HardAbsolute
  <2>2. QED
    BY <2>1, TotalOfOne
<1>3. Len(<<>>) = 0 /\ Total(<<>>) = 0
  BY TotalOfNone
<1>4. /\ Equity >= HardEquityKill - HardAbsolute
      /\ Len(working) + Len(held) <= 1
      /\ Total(working) <= settled
      /\ completed < 5 => Total(working) + Total(held) <= HardFirstStage
  <2>1. CASE Idle
    BY <1>1, <1>3, <2>1 DEF Idle, Equity, HardFirstStage
  <2>2. CASE Asked
    <3>1. PICK w \in Premiums :
            working = <<w>> /\ w <= settled /\ Afforded(w, settled + unsettled)
      BY <2>2 DEF Asked
    <3>2. held = <<>>
      BY <2>2 DEF Asked
    <3>3. QED
      BY <1>1, <1>2, <1>3, <3>1, <3>2
      DEF Afforded, Equity, HardFirstStage, HardEquityKill, HardAbsolute
  <2>3. CASE Owned
    <3>1. PICK w \in Premiums : held = <<w>> /\ Afforded(w, settled + unsettled + w)
      BY <2>3 DEF Owned
    <3>2. working = <<>>
      BY <2>3 DEF Owned
    <3>3. QED
      BY <1>1, <1>2, <1>3, <3>1, <3>2
      DEF Afforded, Equity, HardFirstStage, HardEquityKill, HardAbsolute
  <2>4. QED
    BY <2>1, <2>2, <2>3 DEF RiskInv
<1>5. QED
  BY <1>1, <1>4 DEF LossIsBounded, RiskInv, EntryLimits

\* An account that trades only what the validator approves keeps within the
\* hard limits (startup_guard.py:8-18, validator.py), whatever the owner
\* configures, whatever is asked and at whatever the positions are sold.
THEOREM LimitsHold == RiskSpec => []LossIsBounded
<1>1. RiskInit => RiskInv
  BY RiskAssumption
  DEF RiskInit, RiskInv, Idle, EntryLimits, HardEquityKill, HardAbsolute, HardConsecutiveLosses
<1>2. QED
  BY <1>1, RiskStepInv, RiskInvBounds, PTL DEF RiskSpec

-----------------------------------------------------------------------------
(* The decision chain.  Ends that grow from bar to bar are in order, so the  *)
(* newest two bars by time are the last two of the sequence.                 *)

\* A nonempty family of subsets of a finite set has a smallest member.
LEMMA Smallest ==
  ASSUME NEW S, IsFiniteSet(S), NEW F \in SUBSET (SUBSET S), F # {}
  PROVE  \E T \in F : \A U \in F : U \subseteq T => U = T
<1>1. F \subseteq FiniteSubsetsOf(S)
  BY FS_Subset DEF FiniteSubsetsOf
<1>2. IsWellFoundedOn(StrictSubsetOrdering(S), FiniteSubsetsOf(S))
  BY FS_StrictSubsetOrderingWellFounded
<1>3. PICK T \in F : \A U \in F : <<U, T>> \notin StrictSubsetOrdering(S)
  BY <1>1, <1>2, WFMin
<1>4. QED
  BY <1>3 DEF StrictSubsetOrdering

\* By the first bar that is not after bar j.
LEMMA EndsInOrder ==
  ASSUME NEW n \in Nat, NEW bars, \A k \in 1..n : bars[k].end \in Int,
         \A k \in 2..n : bars[k].end > bars[k - 1].end
  PROVE  \A j, k \in 1..n : j < k => bars[j].end < bars[k].end
<1> DEFINE Late(j, k) == j < k /\ ~(bars[j].end < bars[k].end)
<1> SUFFICES ASSUME NEW j \in 1..n, \E k \in 1..n : Late(j, k)
             PROVE  FALSE
  OBVIOUS
<1> DEFINE F == {j..k : k \in {k \in 1..n : Late(j, k)}}
<1>1. F \in SUBSET (SUBSET (1..n)) /\ F # {}
  OBVIOUS
<1>2. PICK T \in F : \A U \in F : U \subseteq T => U = T
  <2> DEFINE S == 1..n
  <2>1. IsFiniteSet(S)
    BY FS_Interval
  <2>2. F \in SUBSET (SUBSET S) /\ F # {}
    BY <1>1
  <2> HIDE DEF F, S
  <2>3. QED
    BY <2>1, <2>2, Smallest
<1>3. PICK k \in 1..n : Late(j, k) /\ T = j..k
  OBVIOUS
<1>4. k \in 2..n /\ k - 1 \in 1..n /\ bars[k].end > bars[k - 1].end
  <2>1. k \in 2..n /\ k - 1 \in 1..n
    BY <1>3
  <2>2. QED
    BY <2>1
<1>5. bars[j].end \in Int /\ bars[k].end \in Int /\ bars[k - 1].end \in Int
  BY <1>4
<1>6. j # k - 1
  BY <1>3, <1>4, <1>5
<1>7. ~Late(j, k - 1)
  <2> SUFFICES ASSUME Late(j, k - 1) PROVE FALSE
    OBVIOUS
  <2>1. j..(k - 1) \in F
    BY <1>4
  <2>2. j..(k - 1) \subseteq T /\ k \in T /\ k \notin j..(k - 1)
    BY <1>3
  <2>3. QED
    BY <1>2, <2>1, <2>2
<1>8. bars[j].end < bars[k - 1].end
  BY <1>3, <1>4, <1>6, <1>7
<1>9. QED
  BY <1>3, <1>4, <1>5, <1>8

LEMMA NewestAreLast ==
  ASSUME NEW n \in Nat, n >= 2, NEW bars, \A k \in 1..n : bars[k].end \in Int,
         \A k \in 2..n : bars[k].end > bars[k - 1].end
  PROVE  {k \in 1..n : Cardinality({j \in 1..n : bars[j].end > bars[k].end}) < 2} = {n - 1, n}
<1> DEFINE After(k) == {j \in 1..n : bars[j].end > bars[k].end}
<1>1. \A j, k \in 1..n : bars[j].end > bars[k].end <=> j > k
  <2> TAKE j, k \in 1..n
  <2>1. bars[j].end \in Int /\ bars[k].end \in Int
    OBVIOUS
  <2>2. /\ j < k => bars[j].end < bars[k].end
        /\ k < j => bars[k].end < bars[j].end
    BY EndsInOrder
  <2>3. j < k \/ j = k \/ k < j
    OBVIOUS
  <2>4. QED
    BY <2>1, <2>2, <2>3
<1>2. \A k \in 1..n : After(k) = (k + 1)..n
  <2> TAKE k \in 1..n
  <2>1. \A j \in 1..n : j \in After(k) <=> j > k
    BY <1>1
  <2>2. \A j : j \in (k + 1)..n <=> j \in 1..n /\ j > k
    OBVIOUS
  <2>3. QED
    BY <2>1, <2>2
<1>3. \A k \in 1..n : Cardinality(After(k)) = n - k
  <2> TAKE k \in 1..n
  <2>1. After(k) = (k + 1)..n
    BY <1>2
  <2>2. Cardinality((k + 1)..n) = IF k + 1 > n THEN 0 ELSE n - (k + 1) + 1
    BY FS_Interval
  <2> HIDE DEF After
  <2>3. QED
    BY <2>1, <2>2
<1> HIDE DEF After
<1>4. \A k \in 1..n : Cardinality(After(k)) < 2 <=> k \in {n - 1, n}
  BY <1>3
<1>5. n - 1 \in 1..n /\ n \in 1..n
  OBVIOUS
<1>6. {k \in 1..n : Cardinality(After(k)) < 2} = {n - 1, n}
  BY <1>4, <1>5
<1>7. QED
  BY <1>6 DEF After

\* What loading keeps: all but the names and the strike.
LEMMA LoadingKeeps ==
  ASSUME NEW i \in ShadowInputs
  PROVE  LET f == LoadShadowInput(i) IN
         /\ f.received = i.received /\ f.bars = i.bars /\ f.underlying = i.underlying
         /\ f.completed = i.completed
         /\ f.option.type = i.option.type /\ f.option.bid = i.option.bid
         /\ f.option.ask = i.option.ask /\ f.option.quoted = i.option.quoted
<1>1. i = [i EXCEPT !.received = i.received] /\ i.option = [i.option EXCEPT !.bid = i.option.bid]
  BY DEF ShadowInputs
<1>2. QED
  BY DEF LoadShadowInput, ShadowInputs

\* The bars of one symbol, sound and agreeing.
LEMMA NewestPointTheWay ==
  ASSUME NEW bars \in [References -> Seq(ReferenceBars)], NEW now \in Int, NEW s \in References,
         NEW way, BarSetSound(bars, now), Len(bars[s]) >= Policy.confirmation,
         \A k \in (Len(bars[s]) - Policy.confirmation + 1)..Len(bars[s]) : bars[s][k].dir = way
  PROVE  LET newest == {k \in 1..Len(bars[s]) :
               Cardinality({j \in 1..Len(bars[s]) : bars[s][j].end > bars[s][k].end}) < 2} IN
         /\ Cardinality(newest) >= 2
         /\ \A k \in newest : bars[s][k].dir = way /\ bars[s][k].completed
         /\ \A k \in 1..Len(bars[s]) : bars[s][k].end <= now
<1> DEFINE b == bars[s]
           n == Len(b)
           newest == {k \in 1..n : Cardinality({j \in 1..n : b[j].end > b[k].end}) < 2}
<1>1. n \in Nat /\ n >= 2 /\ b \in Seq(ReferenceBars)
  BY ChainAssumption
<1>2. ASSUME NEW k \in 1..n
      PROVE  b[k].end \in Int /\ b[k].completed = TRUE /\ b[k].end <= now
  <2>1. BarSound(b[k], now)
    BY DEF BarSetSound
  <2>2. b[k].end # Unknown /\ b[k].end \in OrUnknown(Int)
    <3>1. b[k] \in ReferenceBars
      BY <1>1
    <3>2. QED
      BY <2>1, <3>1 DEF BarSound, ReferenceBars
  <2>3. QED
    BY <2>1, <2>2 DEF BarSound, OrUnknown
<1>3. \A k \in 2..n : b[k].end > b[k - 1].end
  BY DEF BarSetSound
<1>4. newest = {n - 1, n}
  <2> HIDE DEF b, n
  <2> QED
    BY <1>1, <1>2, <1>3, NewestAreLast
<1>5. n - 1 # n /\ n - 1 \in 1..n /\ n \in 1..n
  BY <1>1
<1>6. \A k \in {n - 1, n} : k \in (n - Policy.confirmation + 1)..n
  BY <1>1, ChainAssumption
<1>7. Cardinality({n - 1, n}) = 2
  <2>1. Cardinality((n - 1)..n) = 2
    <3>1. Cardinality((n - 1)..n) = IF n - 1 > n THEN 0 ELSE n - (n - 1) + 1
      <4> HIDE DEF n
      <4> QED
        BY <1>1, FS_Interval
    <3>2. QED
      BY <1>1, <3>1
  <2>2. (n - 1)..n = {n - 1, n}
    <3> HIDE DEF n
    <3> QED
      BY <1>1
  <2>3. QED
    BY <2>1, <2>2
<1>8. \A k \in newest : b[k].dir = way /\ b[k].completed
  BY <1>2, <1>4, <1>5, <1>6
<1>9. Cardinality(newest) >= 2
  <2> HIDE DEF newest, n
  <2> QED
    BY <1>4, <1>7
<1>10. QED
  BY <1>2, <1>8, <1>9

\* An entry is the last branch of the decision.
LEMMA EntryIsLastBranch ==
  ASSUME NEW f, NEW c, NEW pilot, NEW authorized,
         Decide(f, c, pilot, authorized).status = "PILOT_SIMULATED_ENTRY"
  PROVE  /\ BarSetSound(f.bars, f.received)
         /\ Regime(f.bars) # "NO_TRADE" /\ Signal(f.underlying, Regime(f.bars)) # "NO_TRADE"
         /\ ContractOk(f, Signal(f.underlying, Regime(f.bars)))
         /\ Approved(ShadowConfig(c), f.account, Intent(f.option), f.market, Policy, FALSE,
                     f.completed, f.received)
         /\ pilot \/ authorized
         /\ Decide(f, c, pilot, authorized) =
              Outcome("PILOT_SIMULATED_ENTRY", EntryLimit(f.option.bid, f.option.ask))
<1>1. \A limit : Outcome("REJECTED", limit).status = "REJECTED"
                /\ Outcome("NO_TRADE", limit).status = "NO_TRADE"
  BY DEF Outcome
<1>2. QED
  BY <1>1 DEF Decide

\* The limit lies in the quote.
LEMMA LimitInQuote ==
  ASSUME NEW bid \in Int, NEW ask \in Int, ask >= bid
  PROVE  /\ EntryLimit(bid, ask) \in Int
         /\ bid <= EntryLimit(bid, ask) /\ EntryLimit(bid, ask) <= ask
<1> DEFINE mid == (bid + 3 * ask) \div 4
<1>1. mid \in Int /\ bid <= mid /\ mid <= ask
  OBVIOUS
<1>2. EntryLimit(bid, ask) = CHOOSE x \in {ask, mid} : \A y \in {ask, mid} : x <= y
  BY DEF EntryLimit, Min
<1> HIDE DEF mid
<1>3. mid \in {ask, mid} /\ \A y \in {ask, mid} : mid <= y
  BY <1>1
<1>4. EntryLimit(bid, ask) \in {ask, mid}
  BY <1>2, <1>3
<1>5. QED
  BY <1>1, <1>4

\* The direction of the signal is that of the market and of the breakout.
LEMMA SignalFollows ==
  ASSUME NEW u, NEW regime
  PROVE  /\ Signal(u, regime) \in {"CALL", "PUT", "NO_TRADE"}
         /\ Signal(u, regime) = "CALL" => regime = "BULLISH" /\ u.close > u.high
         /\ Signal(u, regime) = "PUT" => regime = "BEARISH" /\ u.close < u.low
  BY DEF Signal

LEMMA RegimeConfirmed ==
  ASSUME NEW bars, Regime(bars) # "NO_TRADE", NEW s \in References
  PROVE  /\ Len(bars[s]) >= Policy.confirmation
         /\ \A k \in (Len(bars[s]) - Policy.confirmation + 1)..Len(bars[s]) :
              bars[s][k].dir = Regime(bars)
  BY DEF Regime

\* The premium the validator lets through.
LEMMA ApprovedPremium ==
  ASSUME NEW c \in SafetyConfigs, NEW a, NEW i, NEW s, NEW p, NEW kill, NEW done \in OrUnknown(Int),
         NEW now, i.limit \in Int, Approved(ShadowConfig(c), a, i, s, p, kill, done, now)
  PROVE  i.limit > 0 /\ i.limit <= IF done < 5 THEN HardFirstStage ELSE HardAbsolute
<1>1. ModeOk(ShadowConfig(c), kill) /\ IntentOk(ShadowConfig(c), i)
      /\ PremiumOk(ShadowConfig(c), a, i, done)
  BY DEF Approved
<1>2. i.limit > 0 /\ i.limit <= ShadowConfig(c).absolute
      /\ i.limit <= StageLimit(ShadowConfig(c), done)
  BY <1>1 DEF IntentOk, PremiumOk
<1>3. /\ c.first <= HardFirstStage /\ c.absolute <= HardAbsolute
  BY <1>1, ConfigWithinLimits DEF ModeOk
<1>4. /\ ShadowConfig(c).first = c.first /\ ShadowConfig(c).absolute = c.absolute
      /\ c.first \in Int /\ c.absolute \in Int
  BY DEF ShadowConfig, SafetyConfigs
<1>5. CASE done < 5
  <2>1. i.limit <= c.first
    BY <1>2, <1>4, <1>5 DEF StageLimit
  <2>2. i.limit <= HardFirstStage
    BY <1>3, <1>4, <2>1 DEF HardFirstStage
  <2>3. QED
    BY <1>2, <1>5, <2>2
<1>6. CASE ~(done < 5)
  <2>1. i.limit <= HardAbsolute
    BY <1>2, <1>3, <1>4 DEF HardAbsolute
  <2>2. QED
    BY <1>2, <1>6, <2>1
<1>7. QED
  BY <1>5, <1>6

ChainInv == input \in ShadowInputs /\ EntryIsEarned

LEMMA EvaluateEarns ==
  ASSUME ChainInv, NEW c \in Configs, NEW pilot \in BOOLEAN, ShadowEvaluate(c, pilot),
         decision'.status = "PILOT_SIMULATED_ENTRY"
  PROVE  EntryIsEarned'
<1> DEFINE f == LoadShadowInput(input)
           way == Regime(f.bars)
           signal == Signal(f.underlying, way)
           limit == EntryLimit(f.option.bid, f.option.ask)
<1>1. decision' = [(IF SampleAccepted(f) THEN Decide(f, c, pilot, formal)
                    ELSE Outcome("DATA_REJECTED", Unknown)) EXCEPT !.pilot = pilot]
      /\ UNCHANGED <<input, formal>>
  BY DEF ShadowEvaluate
<1>2. input \in ShadowInputs /\ c \in SafetyConfigs
  BY RiskAssumption DEF ChainInv
<1>3. /\ f.received = input.received /\ f.bars = input.bars /\ f.underlying = input.underlying
      /\ f.completed = input.completed
      /\ f.option.type = input.option.type /\ f.option.bid = input.option.bid
      /\ f.option.ask = input.option.ask /\ f.option.quoted = input.option.quoted
  BY <1>2, LoadingKeeps
<1>4. /\ input.bars \in [References -> Seq(ReferenceBars)] /\ input.received \in Int
      /\ input.completed \in OrUnknown(Int)
      /\ input.option.type \in {"CALL", "PUT"} /\ input.option.bid \in OrUnknown(Int)
      /\ input.option.ask \in OrUnknown(Int) /\ input.option.quoted \in OrUnknown(Int)
  BY <1>2 DEF ShadowInputs
<1> HIDE DEF f
<1>5. SampleAccepted(f) /\ Decide(f, c, pilot, formal).status = "PILOT_SIMULATED_ENTRY"
  <2>1. CASE SampleAccepted(f)
    <3> DEFINE d == Decide(f, c, pilot, formal)
    <3>1. \E status, l : d = Outcome(status, l)
      BY DEF Decide
    <3>2. PICK status, l : d = [status |-> status, limit |-> l, pilot |-> FALSE]
      BY <3>1 DEF Outcome
    <3>3. decision'.status = d.status
      BY <1>1, <2>1, <3>2
    <3>4. QED
      BY <2>1, <3>3
  <2>2. CASE ~SampleAccepted(f)
    BY <1>1, <2>2 DEF Outcome
  <2>3. QED
    BY <2>1, <2>2
<1>6. /\ BarSetSound(f.bars, f.received) /\ way # "NO_TRADE" /\ signal # "NO_TRADE"
      /\ ContractOk(f, signal)
      /\ Approved(ShadowConfig(c), f.account, Intent(f.option), f.market, Policy, FALSE,
                  f.completed, f.received)
      /\ pilot \/ formal
      /\ Decide(f, c, pilot, formal) = Outcome("PILOT_SIMULATED_ENTRY", limit)
  BY <1>5, EntryIsLastBranch
<1>7. decision' = [status |-> "PILOT_SIMULATED_ENTRY", limit |-> limit, pilot |-> pilot]
  BY <1>1, <1>5, <1>6 DEF Outcome
<1> HIDE DEF way, signal, limit
<1>8. input.option.type = signal
  BY <1>3, <1>6 DEF ContractOk
<1>9. /\ signal = "CALL" => way = "BULLISH" /\ input.underlying.close > input.underlying.high
      /\ signal = "PUT" => way = "BEARISH" /\ input.underlying.close < input.underlying.low
      /\ signal \in {"CALL", "PUT"}
  BY <1>3, <1>6, SignalFollows DEF signal
<1>10. way = IF input.option.type = "CALL" THEN "BULLISH" ELSE "BEARISH"
  BY <1>8, <1>9
<1>11. ASSUME NEW s \in References
       PROVE  LET bars == input.bars[s]
                  newest == {k \in 1..Len(bars) :
                     Cardinality({j \in 1..Len(bars) : bars[j].end > bars[k].end}) < 2} IN
              /\ Cardinality(newest) >= 2
              /\ \A k \in newest : bars[k].dir = way /\ bars[k].completed
              /\ \A k \in 1..Len(bars) : bars[k].end <= input.received
  <2>1. BarSetSound(input.bars, input.received)
    BY <1>3, <1>6
  <2>2. /\ Len(input.bars[s]) >= Policy.confirmation
        /\ \A k \in (Len(input.bars[s]) - Policy.confirmation + 1)..Len(input.bars[s]) :
              input.bars[s][k].dir = way
    BY <1>3, <1>6, RegimeConfirmed DEF way
  <2>3. QED
    BY <1>4, <2>1, <2>2, NewestPointTheWay
<1>12. /\ input.option.bid \in Int /\ input.option.ask \in Int
       /\ input.option.ask >= input.option.bid /\ input.option.quoted \in Int
  <2>1. QuoteValid(f.option) /\ Known(f.option.quoted)
    BY <1>6 DEF ContractOk
  <2>2. QED
    BY <1>3, <1>4, <2>1 DEF QuoteValid, Known, OrUnknown
<1>13. /\ limit \in Int /\ input.option.bid <= limit /\ limit <= input.option.ask
  BY <1>3, <1>12, LimitInQuote DEF limit
<1>14. /\ limit > 0
       /\ limit <= IF input.completed < 5 THEN HardFirstStage ELSE HardAbsolute
  <2>1. Intent(f.option).limit = limit
    BY DEF Intent, limit
  <2>2. QED
    BY <1>2, <1>3, <1>4, <1>6, <1>13, <2>1, ApprovedPremium
<1>15. input.option.quoted <= input.received
  <2>1. f.received - f.option.quoted \in 0..Policy.quoteAge
    BY <1>6 DEF ContractOk
  <2>2. QED
    BY <1>3, <1>4, <1>12, <2>1
<1>16. decision'.limit = limit /\ decision'.pilot = pilot
  BY <1>7
<1>17. IF input.option.type = "CALL" THEN input.underlying.close > input.underlying.high
       ELSE input.underlying.close < input.underlying.low
  BY <1>8, <1>9
<1>18. \A s \in References :
         LET bars == input.bars[s]
             newest == {k \in 1..Len(bars) :
                Cardinality({j \in 1..Len(bars) : bars[j].end > bars[k].end}) < 2} IN
         /\ Cardinality(newest) >= 2
         /\ \A k \in newest : /\ bars[k].dir = IF input.option.type = "CALL" THEN "BULLISH" ELSE "BEARISH"
                             /\ bars[k].completed
         /\ \A k \in 1..Len(bars) : bars[k].end <= input.received
  BY <1>10, <1>11
<1>19. input' = input /\ formal' = formal /\ (decision'.pilot \/ formal)
  BY <1>1, <1>6, <1>16
<1>20. QED
  BY <1>13, <1>14, <1>15, <1>16, <1>17, <1>18, <1>19 DEF EntryIsEarned

\* A simulated entry rests on the whole chain (shadow_pipeline.py:63-287), for
\* every file the schema types and every configuration and policy that pass.
THEOREM EntriesAreEarned == ChainSpec => []EntryIsEarned
<1>1. ChainInit => ChainInv
  BY ChainAssumption DEF ChainInit, ChainInv, EntryIsEarned, NoDecision, Outcome
<1>2. ChainInv /\ [\E c \in Configs, pilot \in BOOLEAN : ShadowEvaluate(c, pilot)]_chainVars
        => ChainInv'
  <2> SUFFICES ASSUME ChainInv,
                      [\E c \in Configs, pilot \in BOOLEAN : ShadowEvaluate(c, pilot)]_chainVars
               PROVE  ChainInv'
    OBVIOUS
  <2>1. ASSUME NEW c \in Configs, NEW pilot \in BOOLEAN, ShadowEvaluate(c, pilot)
        PROVE  ChainInv'
    <3>1. input' \in ShadowInputs
      BY <2>1 DEF ShadowEvaluate, ChainInv
    <3>2. EntryIsEarned'
      <4>1. CASE decision'.status = "PILOT_SIMULATED_ENTRY"
        BY <2>1, <4>1, EvaluateEarns
      <4>2. CASE decision'.status # "PILOT_SIMULATED_ENTRY"
        BY <4>2 DEF EntryIsEarned
      <4>3. QED
        BY <4>1, <4>2
    <3>3. QED
      BY <3>1, <3>2 DEF ChainInv
  <2>2. CASE UNCHANGED chainVars
    BY <2>2 DEF chainVars, ChainInv, EntryIsEarned
  <2>3. QED
    BY <2>1, <2>2
<1>3. ChainInv => EntryIsEarned
  BY DEF ChainInv
<1>4. QED
  BY <1>1, <1>2, <1>3, PTL DEF ChainSpec

-----------------------------------------------------------------------------
(* The calendar, for every year.  A date is the days elapsed before its year *)
(* and its place in the year; a weekday is the remainder by seven, so every  *)
(* step is linear once quotients have names.                                 *)

\* One in a leap year, which moves every date after February.
LeapDay(y) == IF IsLeap(y) THEN 1 ELSE 0

LEMMA SevenDivides ==
  ASSUME NEW a \in Int, NEW q \in Int, NEW r \in 0..6, a = 7 * q + r
  PROVE  a % 7 = r
  OBVIOUS

LEMMA LeapYears ==
  ASSUME NEW y \in Nat
  PROVE  (y - 1) \div 4 - (y - 1) \div 100 + (y - 1) \div 400 + LeapDay(y)
           = y \div 4 - y \div 100 + y \div 400
  BY DEF LeapDay, IsLeap

\* The days before the first of January.
Elapsed(y) == 365 * (y - 1) + (y - 1) \div 4 - (y - 1) \div 100 + (y - 1) \div 400

\* The leap days of the years 1 to y.
LeapsTo(y) == y \div 4 - y \div 100 + y \div 400

LEMMA Elapse ==
  ASSUME NEW y \in Nat \ {0}
  PROVE  /\ Elapsed(y) \in Int
         /\ LeapDay(y) \in {0, 1}
         /\ Elapsed(y) + LeapDay(y) = 365 * (y - 1) + LeapsTo(y)
         /\ LeapsTo(y) \in Int
         /\ Elapsed(y + 1) = Elapsed(y) + 365 + LeapDay(y)
<1> DEFINE p == (y - 1) \div 4   q == (y - 1) \div 100   r == (y - 1) \div 400
           s == y \div 4   t == y \div 100   u == y \div 400
<1>1. /\ p \in Int /\ q \in Int /\ r \in Int /\ s \in Int /\ t \in Int /\ u \in Int
      /\ LeapDay(y) \in {0, 1}
  BY DEF LeapDay
<1>2. p - q + r + LeapDay(y) = s - t + u
  BY LeapYears
<1>3. Elapsed(y) = 365 * (y - 1) + p - q + r
  BY DEF Elapsed
<1>4. Elapsed(y + 1) = 365 * y + s - t + u
  <2>1. (y + 1) - 1 = y
    OBVIOUS
  <2>2. QED
    BY <2>1 DEF Elapsed
<1>5. y \in Int
  OBVIOUS
<1> HIDE DEF p, q, r, s, t, u
<1>6. Elapsed(y) \in Int
  BY <1>1, <1>3, <1>5
<1>7. Elapsed(y) + LeapDay(y) = 365 * (y - 1) + s - t + u
  BY <1>1, <1>2, <1>3, <1>5
<1>8. Elapsed(y + 1) = Elapsed(y) + 365 + LeapDay(y)
  BY <1>1, <1>4, <1>7, <1>6, <1>5
<1>9. LeapsTo(y) = s - t + u
  BY DEF LeapsTo, s, t, u
<1>10. LeapsTo(y) \in Int /\ Elapsed(y) + LeapDay(y) = 365 * (y - 1) + LeapsTo(y)
  BY <1>1, <1>5, <1>7, <1>9
<1>11. QED
  BY <1>1, <1>6, <1>8, <1>10

LEMMA Dates ==
  ASSUME NEW y \in Nat \ {0}, NEW d \in Int
  PROVE  /\ DateOf(y, 1, d) = Elapsed(y) + d
         /\ DateOf(y, 2, d) = Elapsed(y) + 31 + d
         /\ DateOf(y, 3, d) = Elapsed(y) + 59 + LeapDay(y) + d
         /\ DateOf(y, 4, d) = Elapsed(y) + 90 + LeapDay(y) + d
         /\ DateOf(y, 5, d) = Elapsed(y) + 120 + LeapDay(y) + d
         /\ DateOf(y, 6, d) = Elapsed(y) + 151 + LeapDay(y) + d
         /\ DateOf(y, 7, d) = Elapsed(y) + 181 + LeapDay(y) + d
         /\ DateOf(y, 9, d) = Elapsed(y) + 243 + LeapDay(y) + d
         /\ DateOf(y, 11, d) = Elapsed(y) + 304 + LeapDay(y) + d
         /\ DateOf(y, 12, d) = Elapsed(y) + 334 + LeapDay(y) + d
<1>1. \A m : DateOf(y, m, d) = Elapsed(y) + DaysBefore(y, m) + d
  BY DEF DateOf, Elapsed
<1>2. /\ DaysBefore(y, 1) = 0 /\ DaysBefore(y, 2) = 31
      /\ DaysBefore(y, 3) = 59 + LeapDay(y) /\ DaysBefore(y, 4) = 90 + LeapDay(y)
      /\ DaysBefore(y, 5) = 120 + LeapDay(y) /\ DaysBefore(y, 6) = 151 + LeapDay(y)
      /\ DaysBefore(y, 7) = 181 + LeapDay(y) /\ DaysBefore(y, 9) = 243 + LeapDay(y)
      /\ DaysBefore(y, 11) = 304 + LeapDay(y) /\ DaysBefore(y, 12) = 334 + LeapDay(y)
  BY DEF DaysBefore, LeapDay
<1>3. Elapsed(y) \in Int /\ LeapDay(y) \in Int
  BY Elapse
<1>4. QED
  BY <1>1, <1>2, <1>3

\* What Easter is reckoned with, and how its month and day are read.
LEMMA EasterArithmetic ==
  ASSUME NEW h \in 0..29, NEW l \in 0..6, NEW a \in 0..18
  PROVE  LET m == (a + 11 * h + 22 * l) \div 451 IN
         /\ m \in {0, 1}
         /\ m = 1 <=> l = 6 /\ (h = 29 \/ (h = 28 /\ a > 10))
  OBVIOUS

LEMMA MarchOrApril ==
  ASSUME NEW y \in Nat \ {0}, NEW n \in 114..148
  PROVE  DateOf(y, n \div 31, (n % 31) + 1) = DateOf(y, 3, 1) + n - 93
<1>1. Elapsed(y) \in Int /\ LeapDay(y) \in Int
  BY Elapse
<1>2. DateOf(y, 3, 1) = Elapsed(y) + 60 + LeapDay(y)
  BY <1>1, Dates
<1>3. CASE n < 124
  <2>1. n \div 31 = 3 /\ (n % 31) + 1 = n - 92 /\ n - 92 \in Int
    BY <1>3
  <2>2. DateOf(y, 3, n - 92) = Elapsed(y) + 59 + LeapDay(y) + (n - 92)
    BY <2>1, Dates
  <2>3. QED
    BY <1>1, <1>2, <2>1, <2>2
<1>4. CASE n >= 124
  <2>1. n \div 31 = 4 /\ (n % 31) + 1 = n - 123 /\ n - 123 \in Int
    BY <1>4
  <2>2. DateOf(y, 4, n - 123) = Elapsed(y) + 90 + LeapDay(y) + (n - 123)
    BY <2>1, Dates
  <2>3. QED
    BY <1>1, <1>2, <2>1, <2>2
<1>5. QED
  BY <1>3, <1>4

\* The first of March: but for multiples of seven, what the algorithm's l undoes.
LEMMA FirstOfMarch ==
  ASSUME NEW y \in Nat \ {0}
  PROVE  LET b == y \div 100   d == b \div 4   e == b % 4
             i == (y % 100) \div 4   k == (y % 100) % 4 IN
         /\ b \in Int /\ d \in Int /\ e \in 0..3 /\ i \in 0..24 /\ k \in 0..3
         /\ b = 4 * d + e
         /\ DateOf(y, 3, 1) = 36519 * b + 7 * (208 * i) + 364 * k + 21 * d - 301
                             + 5 * e + 5 * i + k - 4
<1> DEFINE b == y \div 100   d == b \div 4   e == b % 4
           i == (y % 100) \div 4   k == (y % 100) % 4
<1>1. /\ b \in Int /\ d \in Int /\ e \in 0..3 /\ i \in 0..24 /\ k \in 0..3
      /\ y = 100 * b + 4 * i + k
      /\ b = 4 * d + e
  OBVIOUS
<1>2. /\ y \div 4 = 25 * b + i
      /\ y \div 400 = d
  OBVIOUS
<1>3. DateOf(y, 3, 1) = Elapsed(y) + LeapDay(y) + 60
  <2>1. DateOf(y, 3, 1) = Elapsed(y) + 59 + LeapDay(y) + 1
    BY Dates
  <2>2. Elapsed(y) \in Int /\ LeapDay(y) \in Int
    BY Elapse
  <2>3. QED
    BY <2>1, <2>2
<1>4. Elapsed(y) + LeapDay(y) = 365 * (y - 1) + (25 * b + i) - b + d
  <2>1. LeapsTo(y) = (25 * b + i) - b + d
    BY <1>2 DEF LeapsTo
  <2>2. i \in Int /\ b \in Int /\ d \in Int
    BY <1>1
  <2> HIDE DEF b, d, i
  <2>3. Elapsed(y) + LeapDay(y) = 365 * (y - 1) + LeapsTo(y)
    BY Elapse
  <2>4. y \in Int
    OBVIOUS
  <2>5. QED
    BY <2>1, <2>2, <2>3, <2>4
<1>5. DateOf(y, 3, 1) = 365 * (100 * b + 4 * i + k - 1) + (25 * b + i) - b + d + 60
  BY <1>1, <1>3, <1>4
<1> HIDE DEF b, d, e, i, k
<1>6. DateOf(y, 3, 1) = 36519 * b + 7 * (208 * i) + 364 * k + 21 * d - 301
                             + 5 * e + 5 * i + k - 4
  BY <1>1, <1>5
<1>7. QED
  BY <1>1, <1>6 DEF b, d, e, i, k

\* The h of the algorithm: the days from March 21 to the full moon.
MoonDay(y) ==
    LET a == y % 19   b == y \div 100
        d == b \div 4   g == (b - (b + 8) \div 25 + 1) \div 3 IN
    (19 * a + b - d - g + 15) % 30

\* The age of the moon in the tables.
Epact(y) ==
    LET century == y \div 100 + 1
        solar == ((3 * century) \div 4) - 12
        lunar == ((8 * century + 5) \div 25) - 5 IN
    (11 * ((y % 19) + 1) + 20 + lunar - solar) % 30

\* The m of the algorithm: where the tables shift the moon by a day, a Sunday
\* that would be the last of its week is a week too late.
Late(y, l) == IF l = 6 /\ (MoonDay(y) = 29 \/ (MoonDay(y) = 28 /\ y % 19 > 10)) THEN 1 ELSE 0

LEMMA MoonFollowsEpact ==
  ASSUME NEW y \in Nat \ {0}
  PROVE  /\ Epact(y) \in 0..29 /\ MoonDay(y) \in 0..29
         /\ MoonDay(y) = (23 - Epact(y)) % 30
<1> DEFINE a == y % 19   b == y \div 100   d == b \div 4
           g == (b - (b + 8) \div 25 + 1) \div 3
           E == 11 * (a + 1) + 20 + (g - 5) - (b - d - 12)
           H == 19 * a + b - d - g + 15
<1>1. a \in Int /\ b \in Nat /\ d \in Int /\ g \in Int
  OBVIOUS
<1>2. Epact(y) = E % 30
  <2>1. (8 * (b + 1) + 5) \div 25 = g
    <3>1. 8 * (b + 1) + 5 = 8 * b + 13
      BY <1>1
    <3>2. (8 * b + 13) \div 25 = g
      BY <1>1
    <3>3. QED
      BY <3>1, <3>2
  <2>2. (3 * (b + 1)) \div 4 = b - d
    BY <1>1
  <2>3. Epact(y) = (11 * (a + 1) + 20 + (((8 * (b + 1) + 5) \div 25) - 5)
                      - (((3 * (b + 1)) \div 4) - 12)) % 30
    BY DEF Epact
  <2>4. QED
    BY <2>1, <2>2, <2>3
<1>3. MoonDay(y) = H % 30
  BY DEF MoonDay
<1>4. E + H = 30 * a + 53
  BY <1>1
<1>5. E \in Int /\ H \in Int
  BY <1>1
<1> HIDE DEF b, d, g, E, H, a
<1>6. E % 30 \in 0..29 /\ H % 30 \in 0..29
  BY <1>5
<1>7. H % 30 = (23 - (E % 30)) % 30
  BY <1>1, <1>4, <1>5
<1>8. QED
  BY <1>2, <1>3, <1>6, <1>7

LEMMA EasterIsSunday ==
  ASSUME NEW y \in Nat \ {0}
  PROVE  \E l \in 0..6 :
           /\ EasterSunday(y) = DateOf(y, 3, 1) + MoonDay(y) + l - 7 * Late(y, l) + 21
           /\ Weekday(EasterSunday(y)) = SUN
<1> DEFINE a == y % 19   b == y \div 100   d == b \div 4   e == b % 4
           i == (y % 100) \div 4   k == (y % 100) % 4   h == MoonDay(y)
           l == (32 + 2 * e + 2 * i - h - k) % 7
           m == (a + 11 * h + 22 * l) \div 451
           M == DateOf(y, 3, 1)
<1>3. EasterSunday(y) = DateOf(y, (h + l - 7 * m + 114) \div 31, ((h + l - 7 * m + 114) % 31) + 1)
  BY DEF EasterSunday, MoonDay
<1>2. a \in 0..18 /\ h \in 0..29
  BY MoonFollowsEpact
<1>1. /\ b \in Int /\ d \in Int /\ e \in 0..3 /\ i \in 0..24 /\ k \in 0..3
      /\ b = 4 * d + e
      /\ M = 36519 * b + 7 * (208 * i) + 364 * k + 21 * d - 301 + 5 * e + 5 * i + k - 4
  BY FirstOfMarch
<1> HIDE DEF a, b, d, e, i, k, h, M
<1>4. /\ l \in 0..6
      /\ \E q \in Int : 32 + 2 * e + 2 * i - h - k = 7 * q + l
  <2>1. 32 + 2 * e + 2 * i - h - k \in Int
    BY <1>1, <1>2
  <2> DEFINE x == 32 + 2 * e + 2 * i - h - k
  <2>2. x \div 7 \in Int /\ (x % 7) \in 0..6 /\ x = 7 * (x \div 7) + (x % 7)
    BY <2>1
  <2>3. QED
    BY <2>2
<1> HIDE DEF l
<1>5. m = Late(y, l)
  <2>1. m \in {0, 1} /\ (m = 1 <=> l = 6 /\ (h = 29 \/ (h = 28 /\ a > 10)))
    BY <1>2, <1>4, EasterArithmetic
  <2> HIDE DEF m
  <2>2. QED
    BY <2>1 DEF Late, a, h
<1>6. /\ Late(y, l) \in {0, 1}
      /\ Late(y, l) = 1 => l = 6 /\ h >= 28
      /\ h = 29 /\ l = 6 => Late(y, l) = 1
  BY DEF Late, h
<1>7. h + l - 7 * m + 114 \in 114..148
  BY <1>2, <1>4, <1>5, <1>6
<1> DEFINE easter == M + h + l - 7 * m + 21
<1>8. EasterSunday(y) = easter
  <2> DEFINE n == h + l - 7 * m + 114
  <2>1. DateOf(y, n \div 31, (n % 31) + 1) = DateOf(y, 3, 1) + n - 93
    BY <1>7, MarchOrApril
  <2>2. M \in Int /\ m \in Int
    BY <1>1, <1>5, <1>6
  <2>3. QED
    BY <1>2, <1>3, <1>4, <2>1, <2>2 DEF M
<1>9. Weekday(easter) = SUN
  <2>1. PICK q \in Int : 32 + 2 * e + 2 * i - h - k = 7 * q + l
    BY <1>4
  <2> DEFINE Q == 5217 * b + 208 * i + 52 * k + 3 * d - 43 + e + i - q - m + 7
  <2>2. m \in Int
    BY <1>5, <1>6
  <2> HIDE DEF m
  <2>3. Q \in Int /\ easter + 6 = 7 * Q + 6
    BY <1>1, <1>2, <1>4, <2>1, <2>2
  <2> HIDE DEF Q, easter
  <2>4. (easter + 6) % 7 = 6
    BY <2>3, SevenDivides
  <2>5. QED
    BY <2>4 DEF Weekday, SUN
<1>10. QED
  BY <1>4, <1>5, <1>8, <1>9 DEF h, M

LEMMA SundaysAreAWeekApart ==
  ASSUME NEW n \in Int, NEW p \in Int, Weekday(n) = SUN, Weekday(p) = SUN,
         NEW f \in Int, n \in (f + 1)..(f + 7), p \in (f + 1)..(f + 7)
  PROVE  n = p
  BY DEF Weekday, SUN

LEMMA EasterIsPaschal ==
  ASSUME NEW y \in Nat \ {0}
  PROVE  EasterSunday(y) = PaschalSunday(y)
<1> DEFINE clavius == IF Epact(y) = 24 \/ (Epact(y) = 25 /\ (y % 19) + 1 > 11)
                      THEN Epact(y) + 1 ELSE Epact(y)
           moon == IF 44 - clavius < 21 THEN 74 - clavius ELSE 44 - clavius
           full == DateOf(y, 3, 1) + moon - 1
           h == MoonDay(y)
<1>1. PaschalSunday(y) = CHOOSE n \in (full + 1)..(full + 7) : Weekday(n) = SUN
  BY DEF PaschalSunday, Epact
<1>2. PICK l \in 0..6 :
        /\ EasterSunday(y) = DateOf(y, 3, 1) + h + l - 7 * Late(y, l) + 21
        /\ Weekday(EasterSunday(y)) = SUN
  BY EasterIsSunday
<1>3. /\ Epact(y) \in 0..29 /\ h \in 0..29 /\ h = (23 - Epact(y)) % 30 /\ y % 19 \in 0..18
  BY MoonFollowsEpact
<1>4. DateOf(y, 3, 1) \in Int
  <2>1. Elapsed(y) \in Int /\ LeapDay(y) \in Int
    BY Elapse
  <2>2. DateOf(y, 3, 1) = Elapsed(y) + 59 + LeapDay(y) + 1
    BY Dates
  <2>3. QED
    BY <2>1, <2>2
<1>5. h = IF Epact(y) <= 23 THEN 23 - Epact(y) ELSE 53 - Epact(y)
  BY <1>3
<1>6. moon = IF h = 29 \/ (h = 28 /\ y % 19 > 10) THEN h + 20 ELSE h + 21
  BY <1>3, <1>5
<1>7. /\ Late(y, l) \in {0, 1}
      /\ Late(y, l) = 1 <=> l = 6 /\ (h = 29 \/ (h = 28 /\ y % 19 > 10))
  BY DEF Late
<1> HIDE DEF clavius, h
<1>8. moon \in Int /\ full \in Int
  BY <1>3, <1>4, <1>6
<1> HIDE DEF moon
<1>9. EasterSunday(y) \in (full + 1)..(full + 7)
  BY <1>2, <1>3, <1>4, <1>6, <1>7, <1>8
<1> HIDE DEF full
<1>10. QED
  BY <1>1, <1>2, <1>8, <1>9, SundaysAreAWeekApart

-----------------------------------------------------------------------------
(* The other holidays lie in their weeks. *)

LEMMA WeekdayAfter ==
  ASSUME NEW f \in Int, NEW w \in 0..6, NEW k \in Int
  PROVE  LET s == (w - Weekday(f)) % 7 IN s \in 0..6 /\ Weekday(f + s + 7 * k) = w
<1> DEFINE v == (f + 6) % 7   s == (w - v) % 7
<1>1. v \in 0..6 /\ f + 6 = 7 * ((f + 6) \div 7) + v /\ (f + 6) \div 7 \in Int
  OBVIOUS
<1> HIDE DEF v
<1>2. s \in 0..6 /\ w - v = 7 * ((w - v) \div 7) + s /\ (w - v) \div 7 \in Int
  BY <1>1
<1> HIDE DEF s
<1> DEFINE q == (f + 6) \div 7 - (w - v) \div 7 + k
<1>3. q \in Int /\ f + s + 7 * k + 6 = 7 * q + w
  BY <1>1, <1>2
<1> HIDE DEF q
<1>4. (f + s + 7 * k + 6) % 7 = w
  BY <1>3, SevenDivides
<1>5. QED
  BY <1>2, <1>4 DEF Weekday, s, v

LEMMA WeekdayBefore ==
  ASSUME NEW f \in Int, NEW w \in 0..6
  PROVE  LET s == (Weekday(f) - w) % 7 IN s \in 0..6 /\ Weekday(f - s) = w
<1> DEFINE v == (f + 6) % 7   s == (v - w) % 7
<1>1. v \in 0..6 /\ f + 6 = 7 * ((f + 6) \div 7) + v /\ (f + 6) \div 7 \in Int
  OBVIOUS
<1> HIDE DEF v
<1>2. s \in 0..6 /\ v - w = 7 * ((v - w) \div 7) + s /\ (v - w) \div 7 \in Int
  BY <1>1
<1> HIDE DEF s
<1> DEFINE q == (f + 6) \div 7 + (v - w) \div 7
<1>3. q \in Int /\ f - s + 6 = 7 * q + w
  BY <1>1, <1>2
<1> HIDE DEF q
<1>4. (f - s + 6) % 7 = w
  BY <1>3, SevenDivides
<1>5. QED
  BY <1>2, <1>4 DEF Weekday, s, v

LEMMA NthIsInItsWeek ==
  ASSUME NEW y, NEW m, NEW w \in 0..6, NEW n \in Int, DateOf(y, m, 1) \in Int
  PROVE  /\ NthWeekday(y, m, w, n) \in
              (DateOf(y, m, 1) + 7 * n - 7)..(DateOf(y, m, 1) + 7 * n - 1)
         /\ Weekday(NthWeekday(y, m, w, n)) = w
<1> DEFINE first == DateOf(y, m, 1)   s == (w - Weekday(first)) % 7
<1>1. NthWeekday(y, m, w, n) = first + s + 7 * (n - 1)
  BY DEF NthWeekday
<1>2. s \in 0..6 /\ Weekday(first + s + 7 * (n - 1)) = w
  <2>1. n - 1 \in Int /\ first \in Int
    OBVIOUS
  <2> DEFINE k == n - 1
  <2> HIDE DEF k, first
  <2>2. (w - Weekday(first)) % 7 \in 0..6 /\ Weekday(first + ((w - Weekday(first)) % 7) + 7 * k) = w
    BY <2>1, WeekdayAfter DEF k
  <2>3. QED
    BY <2>2 DEF k
<1> HIDE DEF s
<1>3. QED
  BY <1>1, <1>2

LEMMA LastIsInItsWeek ==
  ASSUME NEW y, NEW m, NEW w \in 0..6, DateOf(y, m, MonthLength(y, m)) \in Int
  PROVE  /\ DateOf(y, m, MonthLength(y, m)) - LastWeekday(y, m, w) \in 0..6
         /\ LastWeekday(y, m, w) \in Int
         /\ Weekday(LastWeekday(y, m, w)) = w
<1> DEFINE last == DateOf(y, m, MonthLength(y, m))   s == (Weekday(last) - w) % 7
<1>1. LastWeekday(y, m, w) = last - s
  BY DEF LastWeekday
<1>2. s \in 0..6 /\ Weekday(last - s) = w
  BY WeekdayBefore
<1> HIDE DEF s
<1>3. QED
  BY <1>1, <1>2

LEMMA ObservedOnAWeekday ==
  ASSUME NEW n \in Int
  PROVE  Observed(n) \in (n - 1)..(n + 1) /\ Weekday(Observed(n)) \in 0..4
  BY DEF Observed, Weekday, SAT, SUN

LEMMA NewYearWhere ==
  ASSUME NEW y, NEW j \in Int, DateOf(y, 1, 1) = j
  PROVE  \/ Weekday(j) = SAT /\ NewYear(y) = {}
         \/ Weekday(j) # SAT /\ \E n \in j..(j + 1) : NewYear(y) = {n} /\ Weekday(n) \in 0..4
  BY DEF NewYear, Weekday, SAT, SUN

\* The nine holidays of every year, in their order.
HolidaysAt(y, h) ==
    /\ h \in [1..9 -> Int]
    /\ \A k \in 1..9 : Weekday(h[k]) \in 0..4
    /\ h[1] = NthWeekday(y, 1, MON, 3) /\ h[2] = NthWeekday(y, 2, MON, 3)
    /\ h[3] = GoodFriday(y) /\ h[4] = LastWeekday(y, 5, MON)
    /\ h[5] = Observed(DateOf(y, 6, 19)) /\ h[6] = Observed(DateOf(y, 7, 4))
    /\ h[7] = NthWeekday(y, 9, MON, 1) /\ h[8] = NthWeekday(y, 11, THU, 4)
    /\ h[9] = Observed(DateOf(y, 12, 25))

\* The days of the year on which each of them can fall.
Ranges(y, h) ==
    LET J == Elapsed(y) + 1   L == LeapDay(y) IN
    /\ h[1] \in (J + 14)..(J + 20) /\ h[2] \in (J + 45)..(J + 51)
    /\ h[3] \in (J + L + 78)..(J + L + 112) /\ h[4] \in (J + L + 144)..(J + L + 150)
    /\ h[5] \in (J + L + 168)..(J + L + 170) /\ h[6] \in (J + L + 183)..(J + L + 185)
    /\ h[7] \in (J + L + 243)..(J + L + 249) /\ h[8] \in (J + L + 325)..(J + L + 331)
    /\ h[9] \in (J + L + 357)..(J + L + 359)

LEMMA HolidayRanges ==
  ASSUME NEW y \in Nat \ {0}
  PROVE  \E h : HolidaysAt(y, h) /\ Ranges(y, h)
<1> DEFINE J == Elapsed(y) + 1   L == LeapDay(y)
<1>1. J \in Int /\ L \in {0, 1}
  BY Elapse
<1>2. /\ DateOf(y, 1, 1) = J /\ DateOf(y, 2, 1) = J + 31
      /\ DateOf(y, 3, 1) = J + L + 59 /\ DateOf(y, 5, 31) = J + L + 150
      /\ DateOf(y, 6, 19) = J + L + 169 /\ DateOf(y, 7, 4) = J + L + 184
      /\ DateOf(y, 9, 1) = J + L + 243 /\ DateOf(y, 11, 1) = J + L + 304
      /\ DateOf(y, 12, 25) = J + L + 358
  <2>1. Elapsed(y) \in Int
    BY Elapse
  <2>2. /\ DateOf(y, 1, 1) = Elapsed(y) + 1 /\ DateOf(y, 2, 1) = Elapsed(y) + 31 + 1
        /\ DateOf(y, 3, 1) = Elapsed(y) + 59 + L + 1
        /\ DateOf(y, 5, 31) = Elapsed(y) + 120 + L + 31
        /\ DateOf(y, 6, 19) = Elapsed(y) + 151 + L + 19
        /\ DateOf(y, 7, 4) = Elapsed(y) + 181 + L + 4
        /\ DateOf(y, 9, 1) = Elapsed(y) + 243 + L + 1
        /\ DateOf(y, 11, 1) = Elapsed(y) + 304 + L + 1
        /\ DateOf(y, 12, 25) = Elapsed(y) + 334 + L + 25
    BY Dates
  <2>3. QED
    BY <1>1, <2>1, <2>2
<1>3. MonthLength(y, 5) = 31
  BY DEF MonthLength
<1>4. PICK l \in 0..6 :
        /\ EasterSunday(y) = DateOf(y, 3, 1) + MoonDay(y) + l - 7 * Late(y, l) + 21
        /\ Weekday(EasterSunday(y)) = SUN
  BY EasterIsSunday
<1> HIDE DEF J, L
<1>5. GoodFriday(y) \in (J + L + 78)..(J + L + 112) /\ Weekday(GoodFriday(y)) = 4
  <2>1. MoonDay(y) \in 0..29
    BY MoonFollowsEpact
  <2>2. /\ Late(y, l) \in {0, 1}
        /\ Late(y, l) = 1 => l = 6 /\ MoonDay(y) >= 28
        /\ MoonDay(y) = 29 /\ l = 6 => Late(y, l) = 1
    BY DEF Late
  <2>3. EasterSunday(y) \in (J + L + 80)..(J + L + 114)
    BY <1>1, <1>2, <1>4, <2>1, <2>2
  <2>4. QED
    BY <1>1, <1>4, <2>3 DEF GoodFriday, Weekday, SUN
<1>6. /\ NthWeekday(y, 1, MON, 3) \in (J + 14)..(J + 20) /\ Weekday(NthWeekday(y, 1, MON, 3)) = 0
      /\ NthWeekday(y, 2, MON, 3) \in (J + 45)..(J + 51) /\ Weekday(NthWeekday(y, 2, MON, 3)) = 0
      /\ NthWeekday(y, 9, MON, 1) \in (J + L + 243)..(J + L + 249)
      /\ Weekday(NthWeekday(y, 9, MON, 1)) = 0
      /\ NthWeekday(y, 11, THU, 4) \in (J + L + 325)..(J + L + 331)
      /\ Weekday(NthWeekday(y, 11, THU, 4)) = 3
  <2>1. /\ DateOf(y, 1, 1) \in Int /\ DateOf(y, 2, 1) \in Int
        /\ DateOf(y, 9, 1) \in Int /\ DateOf(y, 11, 1) \in Int
    BY <1>1, <1>2
  <2>2. /\ NthWeekday(y, 1, MON, 3) \in (DateOf(y, 1, 1) + 14)..(DateOf(y, 1, 1) + 20)
        /\ NthWeekday(y, 2, MON, 3) \in (DateOf(y, 2, 1) + 14)..(DateOf(y, 2, 1) + 20)
        /\ NthWeekday(y, 9, MON, 1) \in DateOf(y, 9, 1)..(DateOf(y, 9, 1) + 6)
        /\ NthWeekday(y, 11, THU, 4) \in (DateOf(y, 11, 1) + 21)..(DateOf(y, 11, 1) + 27)
    BY <2>1, NthIsInItsWeek DEF MON, THU
  <2>3. /\ Weekday(NthWeekday(y, 1, MON, 3)) = 0 /\ Weekday(NthWeekday(y, 2, MON, 3)) = 0
        /\ Weekday(NthWeekday(y, 9, MON, 1)) = 0 /\ Weekday(NthWeekday(y, 11, THU, 4)) = 3
    BY <2>1, NthIsInItsWeek DEF MON, THU
  <2>4. QED
    BY <1>1, <1>2, <2>2, <2>3
<1>7. /\ LastWeekday(y, 5, MON) \in (J + L + 144)..(J + L + 150)
      /\ Weekday(LastWeekday(y, 5, MON)) = 0
  <2>1. MON = 0 /\ MON \in 0..6
    BY DEF MON
  <2>2. /\ J + L + 150 - LastWeekday(y, 5, MON) \in 0..6
        /\ LastWeekday(y, 5, MON) \in Int /\ Weekday(LastWeekday(y, 5, MON)) = MON
    BY <1>1, <1>2, <1>3, <2>1, LastIsInItsWeek
  <2>3. QED
    BY <1>1, <2>1, <2>2
<1>8. /\ Observed(DateOf(y, 6, 19)) \in (J + L + 168)..(J + L + 170)
      /\ Observed(DateOf(y, 7, 4)) \in (J + L + 183)..(J + L + 185)
      /\ Observed(DateOf(y, 12, 25)) \in (J + L + 357)..(J + L + 359)
      /\ Weekday(Observed(DateOf(y, 6, 19))) \in 0..4
      /\ Weekday(Observed(DateOf(y, 7, 4))) \in 0..4
      /\ Weekday(Observed(DateOf(y, 12, 25))) \in 0..4
  <2>1. /\ DateOf(y, 6, 19) \in Int /\ DateOf(y, 7, 4) \in Int /\ DateOf(y, 12, 25) \in Int
    BY <1>1, <1>2
  <2> DEFINE p == DateOf(y, 6, 19)   q == DateOf(y, 7, 4)   r == DateOf(y, 12, 25)
  <2>2. /\ Observed(p) \in (p - 1)..(p + 1) /\ Weekday(Observed(p)) \in 0..4
        /\ Observed(q) \in (q - 1)..(q + 1) /\ Weekday(Observed(q)) \in 0..4
        /\ Observed(r) \in (r - 1)..(r + 1) /\ Weekday(Observed(r)) \in 0..4
    BY <2>1, ObservedOnAWeekday
  <2>3. QED
    BY <1>1, <1>2, <2>2
<1> DEFINE h == [k \in 1..9 |->
     IF k = 1 THEN NthWeekday(y, 1, MON, 3) ELSE IF k = 2 THEN NthWeekday(y, 2, MON, 3)
     ELSE IF k = 3 THEN GoodFriday(y) ELSE IF k = 4 THEN LastWeekday(y, 5, MON)
     ELSE IF k = 5 THEN Observed(DateOf(y, 6, 19)) ELSE IF k = 6 THEN Observed(DateOf(y, 7, 4))
     ELSE IF k = 7 THEN NthWeekday(y, 9, MON, 1) ELSE IF k = 8 THEN NthWeekday(y, 11, THU, 4)
     ELSE Observed(DateOf(y, 12, 25))]
<1>9. HolidaysAt(y, h)
  BY <1>1, <1>5, <1>6, <1>7, <1>8 DEF HolidaysAt
<1>10. Ranges(y, h)
  BY <1>5, <1>6, <1>7, <1>8 DEF Ranges, J, L
<1>11. QED
  BY <1>9, <1>10

LEMMA YearBounds ==
  ASSUME NEW y \in Nat \ {0}
  PROVE  /\ DateOf(y, 1, 1) = Elapsed(y) + 1
         /\ DateOf(y, 12, 31) = Elapsed(y + 1)
         /\ Elapsed(y + 1) = Elapsed(y) + 365 + LeapDay(y)
         /\ Elapsed(y) \in Int /\ LeapDay(y) \in {0, 1} /\ Elapsed(y + 1) \in Int
<1>1. /\ Elapsed(y) \in Int /\ LeapDay(y) \in {0, 1}
      /\ Elapsed(y + 1) = Elapsed(y) + 365 + LeapDay(y)
  BY Elapse
<1>2. DateOf(y, 1, 1) = Elapsed(y) + 1 /\ DateOf(y, 12, 31) = Elapsed(y) + 334 + LeapDay(y) + 31
  BY Dates
<1>3. QED
  BY <1>1, <1>2

\* Ten holidays or nine, in order.
LEMMA HolidaysInOrder ==
  ASSUME NEW y \in Nat \ {0}
  PROVE  \E h, new : /\ HolidaysAt(y, h) /\ Ranges(y, h)
                     /\ MarketHolidays(y) =
                          {h[1], h[2], h[3], h[4], h[5], h[6], h[7], h[8], h[9]} \cup new
                     /\ new = NewYear(y)
                     /\ \/ Weekday(Elapsed(y) + 1) = SAT /\ new = {}
                        \/ /\ Weekday(Elapsed(y) + 1) # SAT
                           /\ \E n \in (Elapsed(y) + 1)..(Elapsed(y) + 2) :
                                 new = {n} /\ Weekday(n) \in 0..4
<1>1. PICK h : HolidaysAt(y, h) /\ Ranges(y, h)
  BY HolidayRanges
<1>2. MarketHolidays(y) = {h[1], h[2], h[3], h[4], h[5], h[6], h[7], h[8], h[9]} \cup NewYear(y)
  BY <1>1 DEF MarketHolidays, HolidaysAt
<1> DEFINE j == Elapsed(y) + 1
<1>3. j \in Int /\ DateOf(y, 1, 1) = j /\ j + 1 = Elapsed(y) + 2
  BY YearBounds
<1> HIDE DEF j
<1>4. \/ Weekday(j) = SAT /\ NewYear(y) = {}
      \/ Weekday(j) # SAT /\ \E n \in j..(j + 1) : NewYear(y) = {n} /\ Weekday(n) \in 0..4
  BY <1>3, NewYearWhere
<1>5. QED
  BY <1>1, <1>2, <1>3, <1>4 DEF j

LEMMA HolidayPlaces ==
  ASSUME NEW y \in Nat \ {0}, NEW n \in MarketHolidays(y)
  PROVE  /\ n \in (Elapsed(y) + 1)..(Elapsed(y + 1) - 5)
         /\ Weekday(n) \in 0..4
         /\ \A p \in MarketHolidays(y) : p = n \/ p >= n + 6 \/ p <= n - 6
<1>1. PICK h, new : /\ HolidaysAt(y, h) /\ Ranges(y, h)
                    /\ MarketHolidays(y) =
                         {h[1], h[2], h[3], h[4], h[5], h[6], h[7], h[8], h[9]} \cup new
                    /\ \/ new = {}
                       \/ \E m \in (Elapsed(y) + 1)..(Elapsed(y) + 2) :
                             new = {m} /\ Weekday(m) \in 0..4
  BY HolidaysInOrder
<1>2. /\ Elapsed(y) \in Int /\ LeapDay(y) \in {0, 1}
      /\ Elapsed(y + 1) = Elapsed(y) + 365 + LeapDay(y)
  BY YearBounds
<1> DEFINE J == Elapsed(y) + 1   L == LeapDay(y)
<1>3. /\ h[1] \in (J + 14)..(J + 20) /\ h[2] \in (J + 45)..(J + 51)
      /\ h[3] \in (J + L + 78)..(J + L + 112) /\ h[4] \in (J + L + 144)..(J + L + 150)
      /\ h[5] \in (J + L + 168)..(J + L + 170) /\ h[6] \in (J + L + 183)..(J + L + 185)
      /\ h[7] \in (J + L + 243)..(J + L + 249) /\ h[8] \in (J + L + 325)..(J + L + 331)
      /\ h[9] \in (J + L + 357)..(J + L + 359)
      /\ \A k \in 1..9 : Weekday(h[k]) \in 0..4
  BY <1>1 DEF HolidaysAt, Ranges
<1> HIDE DEF J, L
<1>4. J \in Int /\ L \in {0, 1} /\ J + 1 = Elapsed(y) + 2 /\ J = Elapsed(y) + 1
  BY <1>2 DEF J, L
<1>5. \A p \in MarketHolidays(y) :
        \/ p \in J..(J + 1) /\ new = {p} /\ Weekday(p) \in 0..4
        \/ \E k \in 1..9 : p = h[k]
  BY <1>1, <1>4
<1>6. \A k \in 1..9 : h[k] \in (J + 14)..(J + L + 359)
  BY <1>3, <1>4
<1>7. \A k, l \in 1..9 : h[k] = h[l] \/ h[k] >= h[l] + 6 \/ h[k] <= h[l] - 6
  <2>1. /\ h[1] + 6 <= h[2] /\ h[2] + 6 <= h[3] /\ h[3] + 6 <= h[4] /\ h[4] + 6 <= h[5]
        /\ h[5] + 6 <= h[6] /\ h[6] + 6 <= h[7] /\ h[7] + 6 <= h[8] /\ h[8] + 6 <= h[9]
    BY <1>3, <1>4
  <2>2. \A k \in 1..9 : h[k] \in Int
    BY <1>1 DEF HolidaysAt
  <2>3. QED
    BY <2>1, <2>2
<1>8. n \in J..(J + L + 359) /\ Weekday(n) \in 0..4
  BY <1>3, <1>4, <1>5, <1>6
<1>9. ASSUME NEW p \in MarketHolidays(y) PROVE p = n \/ p >= n + 6 \/ p <= n - 6
  <2>1. \/ p \in J..(J + 1) /\ new = {p}
        \/ \E k \in 1..9 : p = h[k]
    BY <1>5
  <2>2. \/ n \in J..(J + 1) /\ new = {n}
        \/ \E k \in 1..9 : n = h[k]
    BY <1>5
  <2>3. CASE new = {p} /\ new = {n}
    BY <2>3
  <2>4. CASE p \in J..(J + 1) /\ \E k \in 1..9 : n = h[k]
    BY <2>4, <1>4, <1>6
  <2>5. CASE n \in J..(J + 1) /\ \E k \in 1..9 : p = h[k]
    BY <2>5, <1>4, <1>6
  <2>6. CASE (\E k \in 1..9 : p = h[k]) /\ (\E k \in 1..9 : n = h[k])
    BY <2>6, <1>7
  <2>7. QED
    BY <2>1, <2>2, <2>3, <2>4, <2>5, <2>6
<1>10. n \in (Elapsed(y) + 1)..(Elapsed(y + 1) - 5)
  BY <1>2, <1>4, <1>8 DEF L
<1>11. QED
  BY <1>8, <1>9, <1>10

LEMMA WeekdaySteps ==
  ASSUME NEW n \in Int, Weekday(n) \in 0..4
  PROVE  /\ Weekday(n) < 4 => Weekday(n + 1) < 5
         /\ Weekday(n) = 4 => Weekday(n + 1) = 5 /\ Weekday(n + 2) = 6 /\ Weekday(n + 3) = 0
         /\ Weekday(n) > 0 => Weekday(n - 1) < 5
         /\ Weekday(n) = 0 => Weekday(n - 1) = 6 /\ Weekday(n - 2) = 5 /\ Weekday(n - 3) = 4
  BY DEF Weekday

\* Around a holiday every weekday is open, across the turn of the year too.
LEMMA OpenAround ==
  ASSUME NEW y \in Nat \ {0, 1}, NEW n \in MarketHolidays(y),
         NEW d \in (n - 5)..(n + 5)
  PROVE  IsMarketOpen(YearOf(y, d), d) <=> d # n /\ Weekday(d) < 5
<1>1. y - 1 \in Nat \ {0} /\ y + 1 \in Nat \ {0} /\ y \in Nat \ {0} /\ (y - 1) + 1 = y
  OBVIOUS
<1>2. /\ n \in (Elapsed(y) + 1)..(Elapsed(y + 1) - 5)
      /\ \A p \in MarketHolidays(y) : p = n \/ p >= n + 6 \/ p <= n - 6
  BY <1>1, HolidayPlaces
<1>3. /\ Elapsed(y) \in Int /\ Elapsed(y + 1) \in Int
      /\ DateOf(y, 1, 1) = Elapsed(y) + 1 /\ DateOf(y, 12, 31) = Elapsed(y + 1)
  BY <1>1, YearBounds
<1>4. \A p \in MarketHolidays(y + 1) : p \in Int /\ p >= n + 6
  BY <1>1, <1>2, <1>3, HolidayPlaces, YearBounds
<1>5. \A p \in MarketHolidays(y - 1) : p \in Int /\ p <= n - 6
  <2>1. \A p \in MarketHolidays(y - 1) : p \in (Elapsed(y - 1) + 1)..(Elapsed(y) - 5)
    BY <1>1, HolidayPlaces
  <2>2. QED
    BY <2>1, <1>2, <1>3
<1>6. n \in Int /\ d \in Int
  BY <1>2, <1>3
<1>7. YearOf(y, d) \in {y - 1, y, y + 1}
  BY DEF YearOf
<1>8. d = n => YearOf(y, d) = y
  BY <1>2, <1>3 DEF YearOf
<1>9. d \in MarketHolidays(YearOf(y, d)) <=> d = n
  <2>1. CASE d = n
    BY <1>8, <2>1
  <2>2. CASE d # n
    <3>1. d < n + 6 /\ d > n - 6
      BY <1>6
    <3>2. QED
      BY <1>2, <1>4, <1>5, <1>6, <1>7, <2>2, <3>1
  <2>3. QED
    BY <2>1, <2>2
<1>10. QED
  BY <1>9 DEF IsMarketOpen, SAT

LEMMA YearIsKept ==
  ASSUME NEW y \in Nat \ {0, 1}, NEW n \in MarketHolidays(y),
         NEW d \in (n + 1)..(n + 3), NEW e \in (d - 7)..d
  PROVE  YearOf(YearOf(y, d), e) = YearOf(y, e)
<1>1. y + 1 \in Nat \ {0} /\ y \in Nat \ {0}
  OBVIOUS
<1>2. n \in (Elapsed(y) + 1)..(Elapsed(y + 1) - 5)
  BY <1>1, HolidayPlaces
<1>3. /\ Elapsed(y) \in Int /\ Elapsed(y + 1) \in Int
      /\ DateOf(y, 1, 1) = Elapsed(y) + 1 /\ DateOf(y, 12, 31) = Elapsed(y + 1)
  BY <1>1, YearBounds
<1>4. YearOf(y, d) = y
  BY <1>2, <1>3 DEF YearOf
<1>5. QED
  BY <1>4

LEMMA LongWeekend ==
  ASSUME NEW y \in Nat \ {0, 1}, NEW n \in MarketHolidays(y)
  PROVE  LET next == NextMarketOpen(y, n) IN
         next - n <= 4 /\ PreviousMarketOpen(YearOf(y, next), next) < n
<1> DEFINE Open(d) == IsMarketOpen(YearOf(y, d), d)
           IsNext(d) == Open(d) /\ \A e \in (n + 1)..(d - 1) : ~Open(e)
<1>1. n \in Int /\ Weekday(n) \in 0..4
  <2>1. y \in Nat \ {0}
    OBVIOUS
  <2>2. QED
    BY <2>1, HolidayPlaces, YearBounds
<1>2. \A d \in (n - 5)..(n + 5) : Open(d) <=> d # n /\ Weekday(d) < 5
  BY OpenAround
<1>3. PICK w \in (n + 1)..(n + 3) : IsNext(w)
  <2>1. CASE Weekday(n) < 4
    <3>1. Open(n + 1)
      BY <1>1, <1>2, <2>1, WeekdaySteps
    <3>2. IsNext(n + 1)
      BY <1>1, <3>1
    <3>3. QED
      BY <1>1, <3>2
  <2>2. CASE Weekday(n) = 4
    <3>1. ~Open(n + 1) /\ ~Open(n + 2) /\ Open(n + 3)
      BY <1>1, <1>2, <2>2, WeekdaySteps
    <3>2. IsNext(n + 3)
      BY <1>1, <3>1
    <3>3. QED
      BY <1>1, <3>2
  <2>3. QED
    BY <1>1, <2>1, <2>2
<1> DEFINE next == NextMarketOpen(y, n)
<1>4. next = CHOOSE d \in (n + 1)..(n + 7) : IsNext(d)
  BY DEF NextMarketOpen
<1> HIDE DEF next
<1>5. next \in (n + 1)..(n + 7) /\ IsNext(next)
  BY <1>1, <1>3, <1>4
<1>6. next \in (n + 1)..(n + 3)
  BY <1>1, <1>3, <1>5
<1> DEFINE IsPrevious(d) == /\ IsMarketOpen(YearOf(YearOf(y, next), d), d)
                      /\ \A e \in (d + 1)..(next - 1) :
                           ~IsMarketOpen(YearOf(YearOf(y, next), e), e)
<1>7. \A d \in (next - 7)..(next - 1) : IsPrevious(d) <=> Open(d) /\ \A e \in (d + 1)..(next - 1) : ~Open(e)
  <2>1. \A e \in (next - 7)..next : YearOf(YearOf(y, next), e) = YearOf(y, e)
    BY <1>6, YearIsKept
  <2>2. QED
    BY <1>1, <1>6, <2>1
<1>8. \A e \in n..(next - 1) : ~Open(e)
  BY <1>1, <1>2, <1>5, <1>6
<1>9. PICK p \in (n - 3)..(n - 1) : Open(p) /\ \A e \in (p + 1)..(n - 1) : ~Open(e)
  <2>1. CASE Weekday(n) > 0
    <3>1. Open(n - 1)
      BY <1>1, <1>2, <2>1, WeekdaySteps
    <3>2. QED
      BY <1>1, <3>1
  <2>2. CASE Weekday(n) = 0
    <3>1. ~Open(n - 1) /\ ~Open(n - 2) /\ Open(n - 3)
      BY <1>1, <1>2, <2>2, WeekdaySteps
    <3>2. QED
      BY <1>1, <3>1
  <2>3. QED
    BY <1>1, <2>1, <2>2
<1>10. p \in (next - 7)..(next - 1) /\ IsPrevious(p)
  <2>1. p \in (next - 7)..(next - 1)
    BY <1>1, <1>6
  <2>2. \A e \in (p + 1)..(next - 1) : ~Open(e)
    BY <1>1, <1>6, <1>8, <1>9
  <2>3. QED
    BY <1>7, <1>9, <2>1, <2>2
<1> DEFINE previous == PreviousMarketOpen(YearOf(y, next), next)
<1>11. previous = CHOOSE d \in (next - 7)..(next - 1) : IsPrevious(d)
  BY DEF PreviousMarketOpen
<1> HIDE DEF previous, IsPrevious
<1>12. previous \in (next - 7)..(next - 1) /\ IsPrevious(previous)
  BY <1>10, <1>11
<1>13. Open(previous)
  BY <1>7, <1>12
<1>14. previous < n
  BY <1>1, <1>6, <1>8, <1>12, <1>13
<1>15. QED
  BY <1>1, <1>6, <1>14 DEF next, previous

-----------------------------------------------------------------------------
(* Ten closures, nine where January 1 is a Saturday. *)

LEMMA OneMore ==
  ASSUME NEW S, IsFiniteSet(S), NEW k \in Nat, Cardinality(S) = k, NEW n, n \notin S
  PROVE  IsFiniteSet(S \cup {n}) /\ Cardinality(S \cup {n}) = k + 1
  BY FS_AddElement

LEMMA TenClosures ==
  ASSUME NEW y \in Nat \ {0, 1}
  PROVE  Cardinality(MarketHolidays(y)) = IF Weekday(DateOf(y, 1, 1)) = SAT THEN 9 ELSE 10
<1>0. y \in Nat \ {0}
  OBVIOUS
<1>1. PICK h, new : /\ HolidaysAt(y, h) /\ Ranges(y, h)
                    /\ MarketHolidays(y) =
                         {h[1], h[2], h[3], h[4], h[5], h[6], h[7], h[8], h[9]} \cup new
                    /\ \/ Weekday(Elapsed(y) + 1) = SAT /\ new = {}
                       \/ /\ Weekday(Elapsed(y) + 1) # SAT
                          /\ \E m \in (Elapsed(y) + 1)..(Elapsed(y) + 2) : new = {m}
  BY <1>0, HolidaysInOrder
<1>2. /\ Elapsed(y) \in Int /\ LeapDay(y) \in {0, 1} /\ DateOf(y, 1, 1) = Elapsed(y) + 1
  BY <1>0, YearBounds
<1>3. /\ \A k \in 1..9 : h[k] \in Int
      /\ h[1] > Elapsed(y) + 2
      /\ h[1] < h[2] /\ h[2] < h[3] /\ h[3] < h[4] /\ h[4] < h[5] /\ h[5] < h[6]
      /\ h[6] < h[7] /\ h[7] < h[8] /\ h[8] < h[9]
  <2>1. \A k \in 1..9 : h[k] \in Int
    BY <1>1 DEF HolidaysAt
  <2>2. QED
    BY <1>1, <1>2, <2>1 DEF Ranges
<1> DEFINE A3 == {h[1], h[2], h[3]}   A6 == A3 \cup {h[4]} \cup {h[5]} \cup {h[6]}
           A9 == A6 \cup {h[7]} \cup {h[8]} \cup {h[9]}
<1>4. IsFiniteSet(A3) /\ Cardinality(A3) = 3
  <2>1. IsFiniteSet({h[1]}) /\ Cardinality({h[1]}) = 1
    BY FS_Singleton
  <2>2. IsFiniteSet({h[1]} \cup {h[2]}) /\ Cardinality({h[1]} \cup {h[2]}) = 2
    <3>1. h[2] \notin {h[1]}
      BY <1>3
    <3>2. QED
      BY <2>1, <3>1, OneMore, 1 + 1 = 2
  <2>3. h[3] \notin {h[1]} \cup {h[2]}
    BY <1>3
  <2>4. IsFiniteSet({h[1]} \cup {h[2]} \cup {h[3]}) /\ Cardinality({h[1]} \cup {h[2]} \cup {h[3]}) = 3
    BY <2>2, <2>3, OneMore, 2 + 1 = 3
  <2>5. A3 = {h[1]} \cup {h[2]} \cup {h[3]}
    OBVIOUS
  <2>6. QED
    BY <2>4, <2>5
<1>5. IsFiniteSet(A6) /\ Cardinality(A6) = 6
  <2>1. h[4] \notin A3 /\ h[5] \notin A3 \cup {h[4]} /\ h[6] \notin A3 \cup {h[4]} \cup {h[5]}
    BY <1>3
  <2> HIDE DEF A3
  <2>2. IsFiniteSet(A3 \cup {h[4]}) /\ Cardinality(A3 \cup {h[4]}) = 4
    BY <1>4, <2>1, OneMore, 3 + 1 = 4
  <2>3. IsFiniteSet(A3 \cup {h[4]} \cup {h[5]}) /\ Cardinality(A3 \cup {h[4]} \cup {h[5]}) = 5
    BY <2>2, <2>1, OneMore, 4 + 1 = 5
  <2>4. QED
    BY <2>3, <2>1, OneMore, 5 + 1 = 6
<1>6. IsFiniteSet(A9) /\ Cardinality(A9) = 9
  <2>1. h[7] \notin A6 /\ h[8] \notin A6 \cup {h[7]} /\ h[9] \notin A6 \cup {h[7]} \cup {h[8]}
    BY <1>3
  <2> HIDE DEF A6
  <2>2. IsFiniteSet(A6 \cup {h[7]}) /\ Cardinality(A6 \cup {h[7]}) = 7
    BY <1>5, <2>1, OneMore, 6 + 1 = 7
  <2>3. IsFiniteSet(A6 \cup {h[7]} \cup {h[8]}) /\ Cardinality(A6 \cup {h[7]} \cup {h[8]}) = 8
    BY <2>2, <2>1, OneMore, 7 + 1 = 8
  <2>4. QED
    BY <2>3, <2>1, OneMore, 8 + 1 = 9
<1>7. \A m \in (Elapsed(y) + 1)..(Elapsed(y) + 2) : m \notin A9
  BY <1>2, <1>3
<1>8. MarketHolidays(y) = A9 \cup new
  BY <1>1
<1> HIDE DEF A9
<1>9. CASE new = {} /\ Weekday(Elapsed(y) + 1) = SAT
  BY <1>2, <1>6, <1>8, <1>9
<1>10. ASSUME NEW m \in (Elapsed(y) + 1)..(Elapsed(y) + 2), new = {m},
              Weekday(Elapsed(y) + 1) # SAT
       PROVE  Cardinality(MarketHolidays(y)) = 10
  <2>1. m \notin A9
    BY <1>7
  <2>2. Cardinality(A9 \cup {m}) = 9 + 1
    BY <1>6, <2>1, OneMore
  <2>3. QED
    BY <1>8, <1>10, <2>2
<1>11. QED
  BY <1>1, <1>2, <1>9, <1>10

-----------------------------------------------------------------------------
(* The day after Thanksgiving is always a half-day, with at most two others. *)

LEMMA HalfDays ==
  ASSUME NEW y \in Nat \ {0, 1}
  PROVE  Cardinality({n \in DateOf(y, 1, 1)..DateOf(y, 12, 31) : IsEarlyClose(y, n)}) \in 1..3
<1> DEFINE S == {n \in DateOf(y, 1, 1)..DateOf(y, 12, 31) : IsEarlyClose(y, n)}
           t == NthWeekday(y, 11, THU, 4)
           T == {t + 1} \cup {DateOf(y, 12, 24)} \cup {DateOf(y, 7, 3)}
<1>0. y \in Nat \ {0}
  OBVIOUS
<1>1. t \in MarketHolidays(y) /\ t + 1 \in S
  <2>1. t \in MarketHolidays(y)
    BY DEF MarketHolidays
  <2>2. /\ t \in (Elapsed(y) + 1)..(Elapsed(y + 1) - 5) /\ Weekday(t) \in 0..4
    BY <1>0, <2>1, HolidayPlaces
  <2>3. /\ Elapsed(y) \in Int /\ Elapsed(y + 1) \in Int
        /\ DateOf(y, 1, 1) = Elapsed(y) + 1 /\ DateOf(y, 12, 31) = Elapsed(y + 1)
    BY <1>0, YearBounds
  <2>4. Weekday(t) = 3
    <3>1. DateOf(y, 11, 1) \in Int
      <4>1. DateOf(y, 11, 1) = Elapsed(y) + 304 + LeapDay(y) + 1 /\ LeapDay(y) \in {0, 1}
        BY <1>0, Dates, Elapse
      <4>2. QED
        BY <2>3, <4>1
    <3>2. QED
      BY <3>1, NthIsInItsWeek DEF THU
  <2> HIDE DEF t
  <2>5. t \in Int /\ t + 1 \in (t - 5)..(t + 5) /\ t + 1 # t
    BY <2>2, <2>3
  <2>6. Weekday(t + 1) < 5
    BY <2>2, <2>4, <2>5, WeekdaySteps
  <2>7. YearOf(y, t + 1) = y /\ t + 1 \in DateOf(y, 1, 1)..DateOf(y, 12, 31)
    BY <2>2, <2>3 DEF YearOf
  <2>8. IsMarketOpen(YearOf(y, t + 1), t + 1)
    BY <2>1, <2>5, <2>6, OpenAround
  <2>9. QED
    BY <2>1, <2>7, <2>8 DEF IsEarlyClose, t
<1>2. S \subseteq T
  BY DEF IsEarlyClose
<1>3. IsFiniteSet(T) /\ Cardinality(T) \in 1..3
  <2> DEFINE a == t + 1   b == DateOf(y, 12, 24)   c == DateOf(y, 7, 3)
  <2> HIDE DEF a, b, c
  <2>1. T = {a} \cup {b} \cup {c}
    BY DEF a, b, c
  <2>2. IsFiniteSet({a}) /\ Cardinality({a}) = 1
    BY FS_Singleton
  <2>3. IsFiniteSet({a} \cup {b}) /\ Cardinality({a} \cup {b}) \in {1, 2}
    BY <2>2, FS_AddElement
  <2>4. IsFiniteSet({a} \cup {b} \cup {c}) /\ Cardinality({a} \cup {b} \cup {c}) \in {1, 2, 3}
    BY <2>3, FS_AddElement
  <2>5. QED
    BY <2>1, <2>4
<1> HIDE DEF S, T
<1>4. IsFiniteSet(S) /\ Cardinality(S) <= Cardinality(T)
  BY <1>2, <1>3, FS_Subset
<1>5. Cardinality(S) \in Nat /\ Cardinality(S) # 0
  BY <1>1, <1>4, FS_CardinalityType, FS_EmptySet
<1>6. Cardinality(S) \in 1..3
  BY <1>3, <1>4, <1>5
<1>7. QED
  BY <1>6 DEF S

\* The calendar follows its rules in every year that dates exist for
\* (market_calendar.py:33-144), not only in those that a run names.
THEOREM CalendarForEveryYear == CalendarSpec => []CalendarFollowsRules
<1> DEFINE Inv == (year = 0 \/ year \in Nat \ {0, 1})
<1>1. CalendarInit => Inv
  BY DEF CalendarInit
<1>2. Inv /\ [CalendarNext]_year => Inv'
  BY YearsAssumption DEF CalendarNext, AskAbout
<1>3. Inv => CalendarFollowsRules
  <2> SUFFICES ASSUME year \in Nat \ {0, 1} PROVE CalendarFollowsRules
    BY DEF CalendarFollowsRules
  <2>1. year \in Nat \ {0}
    OBVIOUS
  <2>2. \A n \in MarketHolidays(year) : Weekday(n) < SAT /\ YearOf(year, n) = year
    <3> SUFFICES ASSUME NEW n \in MarketHolidays(year)
                 PROVE  Weekday(n) < SAT /\ YearOf(year, n) = year
      OBVIOUS
    <3>1. n \in (Elapsed(year) + 1)..(Elapsed(year + 1) - 5) /\ Weekday(n) \in 0..4
      BY <2>1, HolidayPlaces
    <3>2. /\ Elapsed(year) \in Int /\ Elapsed(year + 1) \in Int
          /\ DateOf(year, 1, 1) = Elapsed(year) + 1 /\ DateOf(year, 12, 31) = Elapsed(year + 1)
      BY <2>1, YearBounds
    <3>3. QED
      BY <3>1, <3>2 DEF YearOf, SAT
  <2>3. QED
    BY <2>1, <2>2, EasterIsPaschal, TenClosures, LongWeekend, HalfDays DEF CalendarFollowsRules
<1>4. QED
  BY <1>1, <1>2, <1>3, PTL DEF CalendarSpec

-----------------------------------------------------------------------------
\* Scans never meet a forced exit, in sessions of any length and under any
\* configuration the startup guard lets through (session_schedule.py:24-84,
\* startup_guard.py:179-202).
THEOREM ScansBeforeExits ==
  ASSUME NEW sessions \in SUBSET TradingSessions
  PROVE  ScansPrecedeExits(sessions)
<1> SUFFICES ASSUME NEW c \in Configs, NEW s \in sessions, ValidSafetyConfig(c),
                    NEW t \in ScanTimes(s, c)
             PROVE  /\ Session(s, c, t).entry
                    /\ ~Session(s, c, t).force /\ ~Session(s, c, t).emergency
  BY DEF ScansPrecedeExits
<1>1. /\ c.delay \in Int /\ c.stop \in Int /\ c.force \in Int /\ c.emergency \in Int
      /\ s.open \in Int /\ s.close \in Int
  BY RiskAssumption DEF SafetyConfigs, TradingSessions
<1>2. c.delay >= 30 /\ c.stop >= 60 /\ c.stop > c.force /\ c.force > c.emergency
  BY <1>1 DEF ValidSafetyConfig, ValidCutoffs
<1>3. t \in Int /\ s.open + c.delay <= t /\ t <= s.close - c.stop
  BY <1>1 DEF ScanTimes
<1>4. /\ s.open <= t /\ t < s.close
      /\ ~(t >= s.close - c.force) /\ ~(t >= s.close - c.emergency)
  BY <1>1, <1>2, <1>3
<1>5. QED
  BY <1>3, <1>4, Zenon DEF Session

-----------------------------------------------------------------------------
(* The watch over the governed files.  The only baseline that is not an      *)
(* acknowledgement is the one the watch writes itself, from a reading in     *)
(* which every file was absent, however much happened since the reading.     *)

WatchInv ==
    /\ WatchTypeOK
    /\ BaselineIsAcknowledged
    /\ watch.pc = "baseline" => \A f \in Files : watch.observed[f] = Absent
    /\ watch.pc \in {"idle", "baseline"} => watch.todo = {}

Watches ==
    [pc : {"idle", "baseline", "file", "alert"}, observed : [Files -> Prints],
     expected : [Files -> Prints], todo : SUBSET Files, file : SUBSET Files]

LEMMA IdleWatchType == IdleWatch \in Watches /\ IdleWatch.pc = "idle" /\ IdleWatch.todo = {}
  BY DEF IdleWatch, Watches, Prints

LEMMA WatchInitInv == WatchInit => WatchInv
<1> SUFFICES ASSUME WatchInit PROVE WatchInv
  OBVIOUS
<1>1. [f \in Files |-> Absent] \in [Files -> Prints]
  BY DEF Prints
<1>2. watch \in Watches /\ watch.pc = "idle" /\ watch.todo = {}
  BY IdleWatchType DEF WatchInit
<1>3. WatchTypeOK
  BY <1>1, <1>2 DEF WatchInit, WatchTypeOK, Watches
<1>4. BaselineIsAcknowledged
  BY DEF WatchInit, BaselineIsAcknowledged
<1>5. QED
  BY <1>2, <1>3, <1>4 DEF WatchInv

LEMMA WatchReadInv ==
  ASSUME WatchInv, WatchRead
  PROVE  /\ WatchInv'
         /\ \A f \in Files : print[f] \notin {acknowledged[f], Absent} => f \in watch'.todo
         /\ watch.todo = {}
<1> DEFINE absent == [f \in Files |-> Absent]
           expected == IF baseline = NoBaseline THEN absent ELSE baseline
           first == baseline = NoBaseline /\ \A f \in Files : print[f] = Absent
<1> HIDE DEF absent
<1>1. /\ absent \in [Files -> Prints] /\ \A f \in Files : absent[f] = Absent
  BY DEF absent, Prints
<1>2. expected \in [Files -> Prints] /\ print \in [Files -> Prints]
  BY <1>1 DEF WatchInv, WatchTypeOK
<1>3. \A f \in Files : expected[f] \in {acknowledged[f], Absent}
  BY <1>1 DEF WatchInv, BaselineIsAcknowledged
<1>4. UNCHANGED <<print, baseline, incidentOf, pendingFor, acknowledged, changes, tickCrashes>>
  BY DEF WatchRead
<1>5. CASE first
  <2>1. watch' = [pc |-> "baseline", observed |-> print, expected |-> absent, todo |-> {}, file |-> {}]
    BY <1>5 DEF WatchRead, IdleWatch, absent
  <2>2. QED
    <3>1. watch' \in Watches /\ watch'.todo = {} /\ \A f \in Files : watch'.observed[f] = Absent
      BY <2>1, <1>1, <1>2, <1>5 DEF Watches
    <3>2. QED
      BY <2>1, <3>1, <1>4, <1>5 DEF WatchInv, WatchTypeOK, Watches, BaselineIsAcknowledged, WatchRead
<1>6. CASE ~first
  <2>1. watch' = [pc |-> "file", observed |-> print, expected |-> expected,
                  todo |-> {f \in Files : print[f] # expected[f]}, file |-> {}]
    BY <1>6 DEF WatchRead, IdleWatch, absent
  <2> HIDE DEF expected
  <2>2. QED
    <3>1. watch' \in Watches /\ watch'.pc = "file"
      BY <2>1, <1>2 DEF Watches
    <3>2. \A f \in Files : print[f] \notin {acknowledged[f], Absent} => f \in watch'.todo
      BY <2>1, <1>3
    <3>3. QED
      BY <3>1, <3>2, <1>4 DEF WatchInv, WatchTypeOK, Watches, BaselineIsAcknowledged, WatchRead
<1>7. QED
  BY <1>5, <1>6

\* What every step keeps besides: a difference is settled by its incident.
LEMMA WatchStepInv ==
  ASSUME WatchInv, [WatchNext]_watchVars
  PROVE  /\ WatchInv'
         /\ WatchRead => \A f \in Files :
               print[f] \notin {acknowledged[f], Absent} => f \in watch'.todo
         /\ \A f \in watch.todo \ watch'.todo :
               incidentOf'[<<f, watch.observed[f]>>] # "none" \/ tickCrashes' # tickCrashes
<1> DEFINE Settled == \A f \in watch.todo \ watch'.todo :
               incidentOf'[<<f, watch.observed[f]>>] # "none" \/ tickCrashes' # tickCrashes
<1> USE GovernedAssumption
<1>1. ASSUME NEW f \in Files, NEW c \in Prints, Change(f, c) PROVE WatchInv' /\ Settled
  BY <1>1 DEF Change, WatchInv, WatchTypeOK, BaselineIsAcknowledged
<1>2. ASSUME NEW c \in Contents, Kill(c) PROVE WatchInv' /\ Settled
  BY <1>2 DEF Kill, WatchInv, WatchTypeOK, BaselineIsAcknowledged, Prints
<1>3. ASSUME Acknowledge PROVE WatchInv' /\ Settled
  BY <1>3 DEF Acknowledge, WatchInv, WatchTypeOK, BaselineIsAcknowledged
<1>4. ASSUME NEW i \in Ids, ResolveChange(i) \/ ArchiveChange(i) \/ DeliverChange(i)
      PROVE  WatchInv' /\ Settled
  BY <1>4 DEF ResolveChange, ArchiveChange, DeliverChange, WatchInv, WatchTypeOK,
              BaselineIsAcknowledged
<1>5. ASSUME WatchRead PROVE WatchInv' /\ Settled
  BY <1>5, WatchReadInv
<1>6. ASSUME WriteBaseline PROVE WatchInv' /\ Settled
  <2>1. watch' \in Watches /\ watch'.pc = "idle" /\ watch'.todo = {} /\ watch.todo = {}
    BY <1>6, IdleWatchType DEF WriteBaseline, WatchInv
  <2>2. baseline' \in [Files -> Prints] /\ \A f \in Files : baseline'[f] = Absent
    BY <1>6 DEF WriteBaseline, WatchInv, WatchTypeOK
  <2>3. QED
    BY <1>6, <2>1, <2>2
    DEF WriteBaseline, WatchInv, WatchTypeOK, Watches, BaselineIsAcknowledged
<1>7. ASSUME NEW f \in Files, FileChange(f) PROVE WatchInv' /\ Settled
  <2>1. <<f, watch.observed[f]>> \in Ids
    BY DEF WatchInv, WatchTypeOK, Ids
  <2>2. watch \in Watches /\ incidentOf \in [Ids -> {"none", "open", "resolved"}]
    BY DEF WatchInv, WatchTypeOK, Watches
  <2>3. /\ incidentOf' \in [Ids -> {"none", "open", "resolved"}]
        /\ incidentOf'[<<f, watch.observed[f]>>] # "none"
    BY <1>7, <2>1, <2>2 DEF FileChange
  <2>4. /\ watch' \in Watches /\ watch'.pc \in {"file", "alert"}
        /\ watch'.todo = watch.todo \ {f}
    <3>1. CASE incidentOf[<<f, watch.observed[f]>>] = "none"
      <4>1. watch' = [watch EXCEPT !.pc = "alert", !.todo = @ \ {f}, !.file = {f}]
        BY <1>7, <3>1 DEF FileChange
      <4>2. QED
        BY <4>1, <2>2 DEF Watches
    <3>2. CASE incidentOf[<<f, watch.observed[f]>>] # "none"
      <4>1. watch' = [watch EXCEPT !.todo = @ \ {f}] /\ watch.pc = "file"
        BY <1>7, <3>2 DEF FileChange
      <4>2. QED
        BY <4>1, <2>2 DEF Watches
    <3>3. QED
      BY <3>1, <3>2
  <2>5. QED
    BY <1>7, <2>3, <2>4 DEF FileChange, WatchInv, WatchTypeOK, Watches, BaselineIsAcknowledged
<1>8. ASSUME AlertChange PROVE WatchInv' /\ Settled
  <2>1. watch \in Watches /\ pendingFor \subseteq Ids
    BY DEF WatchInv, WatchTypeOK, Watches
  <2>2. {<<f, watch.observed[f]>> : f \in watch.file} \subseteq Ids
    BY <2>1 DEF Watches, Ids
  <2>3. watch' \in Watches /\ watch'.pc = "file" /\ watch'.todo = watch.todo
    BY <1>8, <2>1 DEF AlertChange, Watches
  <2>4. QED
    BY <1>8, <2>1, <2>2, <2>3
    DEF AlertChange, WatchInv, WatchTypeOK, Watches, BaselineIsAcknowledged
<1>9. ASSUME WatchEnd \/ WatchCrash PROVE WatchInv' /\ Settled
  <2>1. watch' \in Watches /\ watch'.pc = "idle" /\ watch'.todo = {}
    BY <1>9, IdleWatchType DEF WatchEnd, WatchCrash
  <2>2. watch.todo = {} \/ tickCrashes' # tickCrashes
    BY <1>9 DEF WatchEnd, WatchCrash, WatchInv, WatchTypeOK
  <2>3. QED
    BY <1>9, <2>1, <2>2
    DEF WatchEnd, WatchCrash, WatchInv, WatchTypeOK, Watches, BaselineIsAcknowledged
<1>10. ASSUME UNCHANGED watchVars PROVE WatchInv' /\ Settled
  <2>1. UNCHANGED <<print, baseline, incidentOf, pendingFor, watch, acknowledged, changes, tickCrashes>>
    BY <1>10 DEF watchVars
  <2>2. WatchTypeOK' /\ BaselineIsAcknowledged'
    BY <2>1 DEF WatchInv, WatchTypeOK, BaselineIsAcknowledged
  <2>3. WatchInv'
    BY <2>1, <2>2, Zenon DEF WatchInv
  <2>4. Settled
    BY <2>1
  <2>5. QED
    BY <2>3, <2>4
<1>11. WatchRead => \A f \in Files :
           print[f] \notin {acknowledged[f], Absent} => f \in watch'.todo
  BY WatchReadInv
<1>12. QED
  BY <1>1, <1>2, <1>3, <1>4, <1>5, <1>6, <1>7, <1>8, <1>9, <1>10, <1>11
  DEF WatchNext, Watch

\* The watch never makes a content its baseline that the owner did not
\* accept: whoever writes, kills, acknowledges or crashes in between
\* (authorization_watch.py:78-127).
THEOREM BaselineIsTheOwners == WatchSpec => [](WatchTypeOK /\ BaselineIsAcknowledged)
<1>1. WatchInv /\ [WatchNext]_watchVars => WatchInv'
  BY WatchStepInv
<1>2. QED
  BY <1>1, WatchInitInv, PTL DEF WatchSpec, WatchInv

\* So a forged file is among the differences of the next reading, and a
\* difference goes to its incident or down with the tick
\* (authorization_watch.py:129-173).
THEOREM ForgeriesAreSeen == WatchSpec => ForgeryIsSeen
<1>1. WatchInv /\ [WatchNext]_watchVars => WatchInv'
  BY WatchStepInv
<1>2. WatchInv /\ [WatchNext]_watchVars =>
        [/\ WatchRead => \A f \in Files :
              print[f] \notin {acknowledged[f], Absent} => f \in watch'.todo
         /\ \A f \in watch.todo \ watch'.todo :
              incidentOf'[<<f, watch.observed[f]>>] # "none" \/ tickCrashes' # tickCrashes
        ]_watchVars
  BY WatchStepInv
<1>3. QED
  BY <1>1, <1>2, WatchInitInv, PTL DEF WatchSpec, ForgeryIsSeen

-----------------------------------------------------------------------------
(* The bar audit looks at pairs of bars: earlier and later, neighbours once  *)
(* sorted.  The reference counts: the n-th bar is n intervals after the      *)
(* first.  Where places are a set of naturals and w the times at them, the   *)
(* two say the same.                                                         *)

Rank(places, k) == Cardinality({j \in places : j < k})

LEMMA Least ==
  ASSUME NEW T \in SUBSET Nat, T # {}
  PROVE  \E m \in T : \A k \in T : m <= k
<1>1. PICK t \in T : TRUE
  OBVIOUS
<1> DEFINE N == 1..t
           F == {1..k : k \in {u \in T : u <= t}}
<1>2. IsFiniteSet(N)
  BY FS_Interval
<1>3. F \in SUBSET (SUBSET N) /\ F # {}
  <2>1. 1..t \in F
    OBVIOUS
  <2>2. ASSUME NEW k \in T, k <= t PROVE 1..k \subseteq 1..t
    BY <2>2
  <2>3. QED
    BY <2>1, <2>2
<1> HIDE DEF N, F
<1>4. PICK M \in F : \A U \in F : U \subseteq M => U = M
  BY <1>2, <1>3, Smallest
<1>5. PICK m \in T : M = 1..m /\ m <= t
  BY <1>4 DEF F
<1>6. ASSUME NEW k \in T PROVE m <= k
  <2>1. SUFFICES ASSUME k < m PROVE FALSE
    OBVIOUS
  <2>2. 1..k \in F /\ 1..k \subseteq M /\ m \in M /\ m \notin 1..k
    BY <1>5, <2>1 DEF F
  <2>3. QED
    BY <1>4, <2>2
<1>7. QED
  BY <1>6

LEMMA Largest ==
  ASSUME NEW n \in Nat, NEW S \in SUBSET (1..n), S # {}
  PROVE  \E m \in S : \A k \in S : k <= m
<1> DEFINE T == {n - k : k \in S}
<1>1. \A k \in S : k \in Nat /\ n - k \in Nat
  OBVIOUS
<1>2. T \in SUBSET Nat /\ T # {}
  BY <1>1
<1> HIDE DEF T
<1>3. PICK t \in T : \A u \in T : t <= u
  BY <1>2, Least
<1>4. PICK m \in S : t = n - m
  BY DEF T
<1>5. ASSUME NEW k \in S PROVE k <= m
  <2>1. t <= n - k
    BY <1>3 DEF T
  <2>2. QED
    BY <1>1, <1>4, <2>1
<1>6. QED
  BY <1>5

LEMMA RankOfFirst ==
  ASSUME NEW n \in Nat, NEW S \in SUBSET (1..n), NEW f \in S, \A k \in S : f <= k
  PROVE  Rank(S, f) = 0
<1>1. \A k \in S : k \in Int
  OBVIOUS
<1>2. {j \in S : j < f} = {}
  <2>1. ASSUME NEW k \in S, k < f PROVE FALSE
    BY <1>1, <2>1
  <2>2. QED
    BY <2>1
<1>3. QED
  BY <1>2, FS_EmptySet DEF Rank

LEMMA RankGrows ==
  ASSUME NEW n \in Nat, NEW S \in SUBSET (1..n), NEW i \in S, NEW j \in S, i < j
  PROVE  /\ Rank(S, i) \in Nat /\ Rank(S, j) \in Nat
         /\ Rank(S, i) + 1 <= Rank(S, j)
         /\ (\A k \in S : k <= i \/ j <= k) => Rank(S, j) = Rank(S, i) + 1
<1> DEFINE A == {k \in S : k < i}
           B == {k \in S : k < j}
<1>1. IsFiniteSet(1..n)
  BY FS_Interval
<1>2. IsFiniteSet(S)
  BY <1>1, FS_Subset
<1>3. IsFiniteSet(A) /\ IsFiniteSet(B)
  BY <1>2, FS_Subset
<1>0. \A k \in S : k \in Int
  OBVIOUS
<1>4. A \cup {i} \in SUBSET B /\ i \notin A
  <2>1. i \in B /\ i \notin A
    BY <1>0
  <2>2. ASSUME NEW k \in A PROVE k \in B
    BY <1>0
  <2>3. QED
    BY <2>1, <2>2
<1>5. IsFiniteSet(A \cup {i}) /\ Cardinality(A \cup {i}) = Cardinality(A) + 1
  BY <1>3, <1>4, FS_AddElement
<1>6. Cardinality(A) \in Nat /\ Cardinality(B) \in Nat
  BY <1>3, FS_CardinalityType
<1>7. Cardinality(A \cup {i}) <= Cardinality(B)
  BY <1>3, <1>4, FS_Subset
<1>8. (\A k \in S : k <= i \/ j <= k) => B = A \cup {i}
  <2> SUFFICES ASSUME \A k \in S : k <= i \/ j <= k PROVE B = A \cup {i}
    OBVIOUS
  <2>1. ASSUME NEW k \in S PROVE k < j <=> k < i \/ k = i
    BY <1>0
  <2>2. QED
    BY <2>1
<1>9. QED
  BY <1>5, <1>6, <1>7, <1>8 DEF Rank

LEMMA Multiples ==
  ASSUME NEW m \in Nat, NEW n \in Nat, NEW b \in Nat \ {0}
  PROVE  /\ (m + 1) * b = m * b + b /\ m * b \in Nat
         /\ m + 1 <= n => m * b + b <= n * b
  OBVIOUS

\* From neighbour to neighbour: by the first place that is off the grid.
LEMMA GapsMakeGrid ==
  ASSUME NEW n \in Nat, NEW S \in SUBSET (1..n), NEW b \in Nat \ {0}, NEW w \in [S -> Int],
         NEW f \in S, \A k \in S : f <= k,
         \A i, j \in S : i < j => w[i] < w[j],
         \A i, j \in S : i < j /\ (\A k \in S : k <= i \/ j <= k) => w[j] - w[i] = b
  PROVE  \A k \in S : w[k] = w[f] + Rank(S, k) * b
<1> DEFINE Off == {k \in S : w[k] # w[f] + Rank(S, k) * b}
<1> SUFFICES ASSUME Off # {} PROVE FALSE
  OBVIOUS
<1>1. \A k \in S : k \in Nat /\ k <= n
  OBVIOUS
<1>2. PICK k \in Off : \A o \in Off : k <= o
  BY <1>1, Least
<1>3. Rank(S, f) = 0
  BY RankOfFirst
<1>4. k \in S /\ f < k
  <2>1. f \notin Off
    BY <1>3
  <2>2. QED
    BY <1>1, <2>1
<1> DEFINE P == {j \in S : j < k}
<1>5. P \in SUBSET (1..n) /\ P # {}
  BY <1>4
<1>6. PICK p \in P : \A j \in P : j <= p
  BY <1>5, Largest
<1>7. p \in S /\ p < k /\ \A j \in S : j <= p \/ k <= j
  BY <1>1, <1>4, <1>6
<1>8. w[p] = w[f] + Rank(S, p) * b
  <2>1. p \notin Off
    BY <1>1, <1>2, <1>7
  <2>2. QED
    BY <1>7, <2>1
<1>9. w[k] - w[p] = b
  BY <1>4, <1>7
<1>10. Rank(S, p) \in Nat /\ Rank(S, k) = Rank(S, p) + 1
  BY <1>4, <1>7, RankGrows
<1>11. Rank(S, k) * b = Rank(S, p) * b + b /\ Rank(S, p) * b \in Nat
  BY <1>10, Multiples
<1>12. w[k] = w[f] + Rank(S, k) * b
  BY <1>4, <1>7, <1>8, <1>9, <1>11
<1>13. QED
  BY <1>12, <1>2

\* On the grid time grows with the place, and from a place to the next it
\* grows by one interval.
LEMMA GridHasGaps ==
  ASSUME NEW n \in Nat, NEW S \in SUBSET (1..n), NEW b \in Nat \ {0}, NEW w \in [S -> Int],
         NEW f \in S, \A k \in S : w[k] = w[f] + Rank(S, k) * b,
         NEW i \in S, NEW j \in S, i < j
  PROVE  /\ w[i] < w[j]
         /\ (\A k \in S : k <= i \/ j <= k) => w[j] - w[i] = b
<1>1. /\ Rank(S, i) \in Nat /\ Rank(S, j) \in Nat
      /\ Rank(S, i) + 1 <= Rank(S, j)
      /\ (\A k \in S : k <= i \/ j <= k) => Rank(S, j) = Rank(S, i) + 1
  BY RankGrows
<1> DEFINE x == Rank(S, i) * b
           y == Rank(S, j) * b
<1>2. x \in Nat /\ y \in Nat /\ x + b <= y
  BY <1>1, Multiples
<1>3. Rank(S, j) = Rank(S, i) + 1 => y = x + b
  BY <1>1, Multiples
<1>4. w[i] = w[f] + x /\ w[j] = w[f] + y
  OBVIOUS
<1> HIDE DEF x, y
<1>5. w[i] < w[j]
  BY <1>2, <1>4
<1>6. Rank(S, j) = Rank(S, i) + 1 => w[j] - w[i] = b
  BY <1>2, <1>3, <1>4
<1>7. QED
  BY <1>1, <1>5, <1>6

\* What a report without an irregularity says of the stamps.
Regular(bars, received, enforce) ==
    LET S == Stamped(bars, received) IN
    /\ S # {} /\ S = Kept(bars, received)
    /\ ~ \E i, j \in S : i < j /\ bars[i].at > bars[j].at
    /\ ~ \E i, j \in S : i # j /\ bars[i].at = bars[j].at
    /\ ~ \E i, j \in S : Neighbours(bars, S, i, j) /\ bars[j].at - bars[i].at # BarInterval
    /\ ~ \E k \in S : bars[k].at >= received
    /\ ~ (enforce /\ \A k \in S : received - (bars[k].at + BarInterval) > MaxLag)

LEMMA RegularMeansNoReport ==
  ASSUME NEW bars, NEW received, NEW enforce \in BOOLEAN
  PROVE  Irregularities(bars, received, enforce) = {} <=> Regular(bars, received, enforce)
<1> DEFINE S == Stamped(bars, received)
           kept == Kept(bars, received)
           disorder == \E i, j \in S : i < j /\ bars[i].at > bars[j].at
           double == \E i, j \in S : i # j /\ bars[i].at = bars[j].at
           gap == \E i, j \in S : Neighbours(bars, S, i, j) /\ bars[j].at - bars[i].at # BarInterval
           future == \E k \in S : bars[k].at >= received
           stale == enforce /\ \A k \in S : received - (bars[k].at + BarInterval) > MaxLag
           reports ==
             {c \in {"BAR_TIMESTAMP_UNPARSABLE", "BARS_OUT_OF_ORDER", "DUPLICATE_BARS",
                     "NON_UNIFORM_BAR_INTERVAL", "BAR_FROM_FUTURE", "NEWEST_BAR_STALE"} :
                \/ c = "BAR_TIMESTAMP_UNPARSABLE" /\ S # kept
                \/ c = "BARS_OUT_OF_ORDER" /\ disorder
                \/ c = "DUPLICATE_BARS" /\ double
                \/ c = "NON_UNIFORM_BAR_INTERVAL" /\ gap
                \/ c = "BAR_FROM_FUTURE" /\ future
                \/ c = "NEWEST_BAR_STALE" /\ stale}
<1>1. Irregularities(bars, received, enforce) =
        IF S = {} THEN {IF kept = {} THEN "NO_BARS" ELSE "BAR_TIMESTAMP_UNPARSABLE"} ELSE reports
  BY DEF Irregularities
<1>2. Regular(bars, received, enforce) <=>
        S # {} /\ S = kept /\ ~disorder /\ ~double /\ ~gap /\ ~future /\ ~stale
  BY DEF Regular
<1> HIDE DEF S, kept, disorder, double, gap, future, stale
<1>3. reports = {} <=> S = kept /\ ~disorder /\ ~double /\ ~gap /\ ~future /\ ~stale
  BY Zenon
<1>4. QED
  BY <1>1, <1>2, <1>3

LEMMA GridIsRanks ==
  ASSUME NEW bars, NEW received, NEW enforce
  PROVE  LET S == Kept(bars, received) IN
         IsGrid(bars, received, enforce) <=>
           /\ \A k \in S : bars[k].at # NoStamp
           /\ \E f, l \in S :
                /\ \A k \in S :
                     /\ f <= k /\ k <= l
                     /\ bars[k].at = bars[f].at + Rank(S, k) * BarInterval
                /\ bars[l].at < received
                /\ enforce => received - bars[l].at <= BarInterval + MaxLag
<1> DEFINE S == Kept(bars, received)
<1>1. \A k : Rank(S, k) = Cardinality({j \in S : j < k})
  BY DEF Rank
<1> HIDE DEF S
<1>2. QED
  BY <1>1, Zenon DEF IsGrid, S

LEMMA AuditIsGrid ==
  ASSUME NEW bars \in Seq(Bars), NEW received \in Int, NEW enforce \in BOOLEAN
  PROVE  Regular(bars, received, enforce) <=> IsGrid(bars, received, enforce)
<1> DEFINE n == Len(bars)
           S == Kept(bars, received)
           w == [k \in S |-> bars[k].at]
<1> USE BarAssumption
<1>1. n \in Nat /\ S \in SUBSET (1..n)
  BY DEF Kept
<1>2. \A k \in 1..n : bars[k].at \in Int \cup {NoStamp}
  <2>1. \A k \in 1..n : bars[k] \in Bars
    OBVIOUS
  <2>2. QED
    BY <2>1 DEF Bars
<1>3. \A k \in S : k \in Nat
  BY <1>1
<1>4. Stamped(bars, received) = S <=> \A k \in S : bars[k].at # NoStamp
  BY DEF Stamped
<1> HIDE DEF n, S
<1>5. ASSUME Regular(bars, received, enforce) PROVE IsGrid(bars, received, enforce)
  <2>1. Stamped(bars, received) = S /\ S # {}
    BY <1>5 DEF Regular, S
  <2>2. w \in [S -> Int] /\ \A k \in S : w[k] = bars[k].at
    BY <1>1, <1>2, <1>4, <2>1
  <2> HIDE DEF w
  <2>3. \A i, j \in S : i < j => w[i] < w[j]
    <3> SUFFICES ASSUME NEW i \in S, NEW j \in S, i < j PROVE w[i] < w[j]
      OBVIOUS
    <3>1. i \in Int /\ j \in Int /\ w[i] \in Int /\ w[j] \in Int
      BY <1>3, <2>2
    <3>2. i # j
      BY <3>1
    <3>3. ~(w[i] > w[j]) /\ w[i] # w[j]
      BY <1>5, <2>1, <2>2, <3>2, Zenon DEF Regular
    <3>4. QED
      BY <3>1, <3>3
  <2>4. ASSUME NEW i \in S, NEW j \in S, i < j, \A k \in S : k <= i \/ j <= k
        PROVE  w[j] - w[i] = BarInterval
    <3>1. Neighbours(bars, S, i, j)
      BY <1>3, <2>2, <2>3, <2>4 DEF Neighbours
    <3>2. QED
      BY <1>5, <2>1, <2>2, <3>1 DEF Regular
  <2>5. PICK f \in S : \A k \in S : f <= k
    BY <1>3, <2>1, Least
  <2>6. PICK l \in S : \A k \in S : k <= l
    BY <1>1, <2>1, Largest
  <2>7. \A k \in S : w[k] = w[f] + Rank(S, k) * BarInterval
    <3>1. n \in Nat /\ S \in SUBSET (1..n) /\ BarInterval \in Nat \ {0} /\ w \in [S -> Int]
      BY <1>1, <2>2
    <3>2. \A i, j \in S : i < j /\ (\A k \in S : k <= i \/ j <= k) => w[j] - w[i] = BarInterval
      BY <2>4
    <3>3. QED
      BY <3>1, <3>2, <2>3, <2>5, GapsMakeGrid, Zenon
  <2>8. w[l] < received /\ (enforce => received - w[l] <= BarInterval + MaxLag)
    <3>1. \A k \in S : w[k] <= w[l] /\ w[k] < received
      <4> SUFFICES ASSUME NEW k \in S PROVE w[k] <= w[l] /\ w[k] < received
        OBVIOUS
      <4>1. k \in Int /\ l \in Int /\ w[k] \in Int /\ w[l] \in Int /\ k <= l
        BY <1>3, <2>2, <2>6
      <4>2. k < l => w[k] < w[l]
        BY <2>3
      <4>3. ~(w[k] >= received)
        BY <1>5, <2>1, <2>2, Zenon DEF Regular
      <4>4. QED
        BY <4>1, <4>2, <4>3
    <3>2. enforce => \E k \in S : received - (w[k] + BarInterval) <= MaxLag
      <4>1. enforce => \E k \in S : ~(received - (w[k] + BarInterval) > MaxLag)
        BY <1>5, <2>1, <2>2, Zenon DEF Regular
      <4>2. QED
        BY <4>1, <2>2
    <3>3. QED
      BY <3>1, <3>2, <2>2
  <2>9. \A k \in S : bars[k].at # NoStamp
    BY <1>4, <2>1
  <2>10. \A k \in S : f <= k /\ k <= l /\ bars[k].at = bars[f].at + Rank(S, k) * BarInterval
    BY <2>2, <2>5, <2>6, <2>7, Zenon
  <2>11. bars[l].at < received /\ (enforce => received - bars[l].at <= BarInterval + MaxLag)
    BY <2>2, <2>8, Zenon
  <2>12. QED
    BY <2>9, <2>10, <2>11, GridIsRanks, Zenon DEF S
<1>6. ASSUME IsGrid(bars, received, enforce) PROVE Regular(bars, received, enforce)
  <2>1. \A k \in S : bars[k].at # NoStamp
    BY <1>6 DEF IsGrid, S
  <2>2. w \in [S -> Int] /\ \A k \in S : w[k] = bars[k].at
    BY <1>1, <1>2, <2>1
  <2> HIDE DEF w
  <2>3. PICK f \in S, l \in S :
          /\ \A k \in S : f <= k /\ k <= l /\ w[k] = w[f] + Rank(S, k) * BarInterval
          /\ w[l] < received /\ (enforce => received - w[l] <= BarInterval + MaxLag)
    <3>1. PICK f \in S, l \in S :
            /\ \A k \in S : f <= k /\ k <= l /\ bars[k].at = bars[f].at + Rank(S, k) * BarInterval
            /\ bars[l].at < received
            /\ enforce => received - bars[l].at <= BarInterval + MaxLag
      BY <1>6, GridIsRanks, Zenon DEF S
    <3>2. QED
      BY <3>1, <2>2, Zenon
  <2>4. \A i, j \in S : i < j =>
          /\ w[i] < w[j]
          /\ (\A k \in S : k <= i \/ j <= k) => w[j] - w[i] = BarInterval
    <3>1. n \in Nat /\ S \in SUBSET (1..n) /\ BarInterval \in Nat \ {0} /\ w \in [S -> Int]
      BY <1>1, <2>2
    <3>2. \A k \in S : w[k] = w[f] + Rank(S, k) * BarInterval
      BY <2>3
    <3>3. QED
      BY <3>1, <3>2, GridHasGaps, Zenon
  <2>5. \A k \in S : w[k] <= w[l]
    BY <1>3, <2>2, <2>3, <2>4
  <2>6. ASSUME NEW i \in S, NEW j \in S, Neighbours(bars, S, i, j)
        PROVE  w[j] - w[i] = BarInterval
    <3>1. i < j
      BY <1>3, <2>2, <2>4, <2>6 DEF Neighbours
    <3>2. ASSUME NEW k \in S, i < k, k < j PROVE FALSE
      <4>1. w[i] < w[k] /\ w[k] < w[j]
        BY <2>4, <3>2
      <4>2. w[k] <= w[i] \/ w[j] <= w[k]
        BY <2>2, <2>6 DEF Neighbours
      <4>3. w[i] \in Int /\ w[j] \in Int /\ w[k] \in Int
        BY <2>2
      <4>4. QED
        BY <4>1, <4>2, <4>3
    <3>3. \A k \in S : k <= i \/ j <= k
      BY <1>3, <3>2
    <3>4. QED
      BY <2>4, <3>1, <3>3
  <2>7. Stamped(bars, received) = S /\ S # {}
    BY <1>4, <2>1, <2>3
  <2>8. /\ \A i, j \in S : i < j => ~(w[i] > w[j])
        /\ \A i, j \in S : i # j => w[i] # w[j]
        /\ \A k \in S : ~(w[k] >= received)
    <3>1. ASSUME NEW i \in S, NEW j \in S, i < j PROVE ~(w[i] > w[j]) /\ w[i] # w[j]
      BY <2>2, <2>4, <3>1
    <3>2. ASSUME NEW i \in S, NEW j \in S, i # j PROVE w[i] # w[j]
      <4>1. i < j \/ j < i
        BY <1>3, <3>2
      <4>2. QED
        BY <3>1, <4>1
    <3>3. ASSUME NEW k \in S PROVE ~(w[k] >= received)
      <4>1. w[k] \in Int /\ w[l] \in Int /\ w[k] <= w[l] /\ w[l] < received
        BY <2>2, <2>3, <2>5
      <4>2. QED
        BY <4>1
    <3>4. QED
      BY <3>1, <3>2, <3>3
  <2>9. enforce => ~(received - (w[l] + BarInterval) > MaxLag)
    BY <2>2, <2>3
  <2>10. QED
    <3>1. ~ \E i, j \in S : i < j /\ bars[i].at > bars[j].at
      BY <2>2, <2>8
    <3>2. ~ \E i, j \in S : i # j /\ bars[i].at = bars[j].at
      BY <2>2, <2>8
    <3>3. ~ \E i, j \in S : Neighbours(bars, S, i, j) /\ bars[j].at - bars[i].at # BarInterval
      BY <2>2, <2>6
    <3>4. ~ \E k \in S : bars[k].at >= received
      BY <2>2, <2>8
    <3>5. ~ (enforce /\ \A k \in S : received - (bars[k].at + BarInterval) > MaxLag)
      BY <2>2, <2>9
    <3>6. QED
      BY <2>7, <3>1, <3>2, <3>3, <3>4, <3>5, Zenon DEF Regular, S
<1>7. QED
  BY <1>5, <1>6

\* The bar audit lets a snapshot pass exactly when its bars are one unbroken
\* grid, however many bars of whatever times were read
\* (bar_time_checks.py:120-211).
THEOREM BarsAreAGrid == BarsSpec => []BarsPassAreAGrid
<1> DEFINE Inv == series \in Seq(Bars) /\ barsReceived \in Int
<1>1. BarsInit => Inv
  BY BarAssumption DEF BarsInit
<1>2. Inv /\ [BarsNext]_barVars => Inv'
  BY DEF BarsNext, ReadBar, barVars
<1>3. Inv => BarsPassAreAGrid
  <2> SUFFICES ASSUME Inv, NEW inSession \in BOOLEAN
               PROVE  SnapshotSound({series}, barsReceived, inSession) <=>
                        IsGrid(series, barsReceived, inSession)
    BY DEF BarsPassAreAGrid
  <2>1. SnapshotSound({series}, barsReceived, inSession) <=>
          Irregularities(series, barsReceived, inSession) = {}
    BY DEF SnapshotSound
  <2>2. QED
    BY <2>1, RegularMeansNoReport, AuditIsGrid
<1>4. QED
  BY <1>1, <1>2, <1>3, PTL DEF BarsSpec
=================================================================================
