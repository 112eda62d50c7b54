------------------------------- MODULE MarketGate -------------------------------
(***************************************************************************)
(* The way to formal Shadow: raw snapshots are adjudicated into six market  *)
(* checks (monitoring/market_checks.py), the owner authorizes from P0       *)
(* evidence (shadow_activation.py, main.py shadow-authorize), and the       *)
(* readiness report says GO (shadow_readiness.py).  Snapshots and probes    *)
(* are what the collector vaults; the host and the evidence a caller types  *)
(* are arguments.  Time stands for seconds in coarse units.                 *)
(***************************************************************************)
EXTENDS Integers, FiniteSets

CONSTANTS
    GateTimes,        \* 0..n
    Symbols, NoSymbol, NoTime, NoEnvelope,
    QuoteAge, ProbeAge, Contemporary, ClockSlack, TradeAge,
    P0Checks,         \* REQUIRED_P0_CHECKS
    SessionTimes      \* the receipt times inside the regular session

ASSUME GateAssumption ==
    /\ GateTimes \subseteq Nat
    /\ {QuoteAge, ProbeAge, Contemporary, ClockSlack, TradeAge} \subseteq Nat
    /\ NoTime \notin Int /\ NoSymbol \notin Symbols
    /\ P0Checks # {} /\ SessionTimes \subseteq GateTimes

VARIABLES
    gateNow,
    snapshot, probe,   \* the envelopes a verification is given, or NoEnvelope
    evidence,          \* the evidence document: results, when and from what
    authorization,     \* state/shadow_authorization.json: version and history
    report             \* the last readiness report, and what it was made from

gateVars == <<gateNow, snapshot, probe, evidence, authorization, report>>

MarketChecks ==   \* MONDAY_MARKET_CHECKS
    {"official_raw_mcp_snapshot", "raw_to_feature_reproducibility",
     "official_instrument_session", "official_account_cash_reconciliation",
     "official_orders_positions_reconciliation", "fresh_option_quote"}

Verdict(pass) == IF pass THEN "PASS" ELSE "FAIL"

-----------------------------------------------------------------------------
(* Adjudication of one envelope.  An envelope is                            *)
(*   [verified, official, complete : BOOLEAN   vault, source, required tools *)
(*    probe : BOOLEAN                          the probe marker              *)
(*    received, symbol,                        receipt, requested symbol     *)
(*    stamps : SUBSET Int                      times in the option quotes    *)
(*    rows : a set of equity quotes]                                         *)

RawSnapshot(e) == Verdict(e.verified /\ e.official /\ e.complete)
RawOk(e) == RawSnapshot(e) = "PASS"

\* Two parses of the one immutable file.
Reproducible(e) == IF RawOk(e) THEN "PASS" ELSE "UNKNOWN"

\* Times after the receipt are ignored, not faults.
QuoteTimes(e) == {t \in e.stamps : t <= e.received}
YoungerThan(e, age) == \E t \in QuoteTimes(e) : e.received - t <= age

FreshOptionQuote(e) ==
    IF \/ ~RawOk(e) \/ e.received = NoTime \/ QuoteTimes(e) = {}
    THEN "UNKNOWN" ELSE Verdict(YoungerThan(e, QuoteAge))

MutantFreshQuoteProbe(e, now, since) ==   \* any probe of any day
    Verdict(/\ e.verified /\ e.official /\ e.probe
            /\ e.received # NoTime
            /\ now - e.received >= -ClockSlack
            /\ since # NoTime => e.received >= since
            /\ YoungerThan(e, ProbeAge))

\* The replay firewall: marked, of this adjudication, not before the snapshot.
FreshQuoteProbe(e, now, since) ==
    Verdict(/\ e.verified /\ e.official /\ e.probe
            /\ e.received # NoTime
            /\ now - e.received >= -ClockSlack
            /\ now - e.received <= Contemporary
            /\ since # NoTime => e.received >= since
            /\ YoungerThan(e, ProbeAge))

SessionFromQuotes(e) ==
    LET row == CHOOSE r \in e.rows : r.symbol = e.symbol
        mine == \E r \in e.rows : r.symbol = e.symbol IN
    IF ~RawOk(e) THEN "DEPENDS_ON_RAW_SNAPSHOT"
    ELSE IF e.received = NoTime THEN "FAIL"
    ELSE IF e.rows = {} THEN "NO_EQUITY_QUOTE_RESULT"
    ELSE Verdict(/\ mine /\ row.active /\ row.traded
                 /\ row.lastTrade # NoTime /\ row.lastTrade <= e.received
                 /\ e.received \in SessionTimes => e.received - row.lastTrade <= TradeAge)

\* A claim is a typed tradability read: [symbol, active, evidenced], or none: {}.
SuppliedSession(claims, symbol) ==
    IF claims = {} THEN "UNKNOWN"
    ELSE Verdict(\A c \in claims :
           /\ symbol # NoSymbol => c.symbol = symbol
           /\ c.active /\ c.evidenced)

\* A claim speaks only where the snapshot has nothing to say.
InstrumentSession(e, claims) ==
    LET harvested == SessionFromQuotes(e)
        supplied == SuppliedSession(claims, IF RawOk(e) THEN e.symbol ELSE NoSymbol) IN
    IF harvested \in {"PASS", "FAIL"} THEN harvested ELSE supplied

\* {} is not supplied; otherwise [reconciled, evidenced].
Reconciliation(claims) ==
    IF claims = {} THEN "UNKNOWN"
    ELSE Verdict(\A c \in claims : c.reconciled /\ c.evidenced)

VerifyMarketChecks(e, p, session, account, orders, now) ==
    [official_raw_mcp_snapshot |-> RawSnapshot(e),
     raw_to_feature_reproducibility |-> Reproducible(e),
     official_instrument_session |-> InstrumentSession(e, session),
     official_account_cash_reconciliation |-> Reconciliation(account),
     official_orders_positions_reconciliation |-> Reconciliation(orders),
     fresh_option_quote |->
        IF p = NoEnvelope THEN FreshOptionQuote(e)
        ELSE FreshQuoteProbe(p, now, IF RawOk(e) THEN e.received ELSE NoTime)]

-----------------------------------------------------------------------------
(* Readiness.                                                               *)

\* load_market_check_evidence, and no document: the date of the document is
\* not read.
MarketCheckPassed(check) == evidence # {} /\ \A d \in evidence : d.results[check] = "PASS"

Authorized == authorization # {} /\ \A a \in authorization : a.version = "strategy_v1.0"

\* h: what build_shadow_readiness finds on the host.
OfflineReady(h) ==
    /\ h.config = "READ_ONLY"      \* valid, and neither live nor order tools
    /\ ~h.armed
    /\ h.policy = "DESIGN"         \* valid
    /\ h.files

MondayGo(h) == OfflineReady(h) /\ Authorized /\ \A c \in MarketChecks : MarketCheckPassed(c)

\* A qualification is [version, checks : [P0Checks -> passed, bare or open]];
\* bare is passed without evidence.
Qualified(q) ==
    q.version = "strategy_v1.0" /\ \A c \in P0Checks : q.checks[c] # "bare"

GateInit ==
    /\ gateNow = 0
    /\ snapshot = NoEnvelope /\ probe = NoEnvelope
    /\ evidence = {} /\ authorization = {}
    /\ report = [go |-> FALSE, host |-> {}, evidence |-> {}, authorization |-> {}]

GateTick ==
    /\ gateNow + 1 \in GateTimes
    /\ gateNow' = gateNow + 1
    /\ UNCHANGED <<snapshot, probe, evidence, authorization, report>>

\* The collector vaults an envelope, with its own receipt time.
TakeSnapshot(e) ==
    /\ snapshot' = e
    /\ UNCHANGED <<gateNow, probe, evidence, authorization, report>>

TakeProbe(e) ==
    /\ probe' = e
    /\ UNCHANGED <<gateNow, snapshot, evidence, authorization, report>>

\* main.py market-check-verify --out
MarketCheckVerify(p, session, account, orders) ==
    /\ snapshot # NoEnvelope
    /\ evidence' = {[results |-> VerifyMarketChecks(snapshot, p, session, account, orders, gateNow),
                     at |-> gateNow, snapshot |-> snapshot, probe |-> p]}
    /\ UNCHANGED <<gateNow, snapshot, probe, authorization, report>>

\* main.py shadow-authorize, at a terminal and with the phrase typed.
ShadowAuthorize(tty, phrase, approved, q) ==
    /\ tty /\ phrase
    /\ Qualified(q)
    /\ \A c \in P0Checks : q.checks[c] = "passed"
    /\ approved
    /\ authorization' = {[version |-> q.version, from |-> q]}
    /\ UNCHANGED <<gateNow, snapshot, probe, evidence, report>>

\* main.py shadow-readiness --market-checks
ShadowReadiness(h) ==
    /\ report' = [go |-> MondayGo(h), host |-> {h},
                   evidence |-> evidence, authorization |-> authorization]
    /\ UNCHANGED <<gateNow, snapshot, probe, evidence, authorization>>

-----------------------------------------------------------------------------
(* Whatever is vaulted, claimed, qualified and found on the host.           *)

EquityQuotes == [symbol : Symbols, active : BOOLEAN, traded : BOOLEAN,
                 lastTrade : Int \cup {NoTime}]
Envelopes ==
    [verified : BOOLEAN, official : BOOLEAN, complete : BOOLEAN, probe : BOOLEAN,
     received : Int \cup {NoTime}, symbol : Symbols \cup {NoSymbol},
     stamps : SUBSET Int, rows : SUBSET EquityQuotes]
SessionReads == [symbol : Symbols, active : BOOLEAN, evidenced : BOOLEAN]
DomainReads == [reconciled : BOOLEAN, evidenced : BOOLEAN]
Records == [version : STRING, checks : [P0Checks -> {"passed", "bare", "open"}]]
HostStates == [config : STRING, armed : BOOLEAN, policy : STRING, files : BOOLEAN]

GateSteps ==
    \/ GateTick
    \/ \E e \in Envelopes : TakeSnapshot(e) \/ TakeProbe(e)
    \/ \E p \in {NoEnvelope, probe}, session \in SUBSET SessionReads,
          account, orders \in SUBSET DomainReads :
          MarketCheckVerify(p, session, account, orders)
    \/ \E tty, phrase, approved \in BOOLEAN, q \in Records :
          ShadowAuthorize(tty, phrase, approved, q)
    \/ \E h \in HostStates : ShadowReadiness(h)

GateSpec == GateInit /\ [][GateSteps]_gateVars

-----------------------------------------------------------------------------
\* GO rests on proof of the present market (market_checks.py, shadow_readiness.py):
\* of the documents the report was made from, every check passed; the probe,
\* where one was used, shows a quote of the time of the verification; what the
\* snapshot itself says of its instrument is never talked over by a typed
\* claim; and the owner authorized this version with every P0 check evidenced.
\* It says nothing of the age of the document, nor of a snapshot verified
\* without a probe: neither is looked at.
GoIsEarned ==
    report.go =>
        /\ report.evidence # {} /\ report.authorization # {}
        /\ \A d \in report.evidence :
             /\ d.snapshot.verified /\ d.snapshot.official /\ d.snapshot.complete
             /\ d.probe # NoEnvelope =>
                  \E t \in d.probe.stamps : d.at - t <= Contemporary + ProbeAge
             /\ d.snapshot.rows # {} =>
                  \E r \in d.snapshot.rows : r.symbol = d.snapshot.symbol /\ r.active /\ r.traded
        /\ \A a \in report.authorization : \A c \in P0Checks : a.from.checks[c] = "passed"
        /\ \A h \in report.host : h.config = "READ_ONLY" /\ ~h.armed
=============================================================================
