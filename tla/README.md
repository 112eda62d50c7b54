# A TLA+ model of the shadow-trading scheduler and its records

The repository is a read-only research system.  It samples the market at fixed
slots of a trading day, simulates option trades on paper ("shadow" and "pilot"
runs), and reports what it saw.  No order is ever sent.  What can go wrong is
therefore not a trade but a *record*: a slot that silently did not run, a
collector that hangs and starves the others, an incident nobody hears of, a
trade in the report that the evidence does not support, a GO that nothing
earned.  The code guards against these with files, separate processes and long
chains of checks, and that is what is modelled here.

The modules are translated from the sources; `PROJECT.json` gives the lines of
every definition.  Paths below are relative to the repository (`src/` here).

Contents: [1 System](#1-the-system) ·
[2 Inventory](#2-inventory) ·
[3 Modules](#3-modules-and-the-code) ·
[4 Runs](#4-runs) ·
[5 Fairness](#5-fairness) ·
[6 Proofs](#6-proofs) ·
[7 Findings](#7-where-code-and-documentation-disagree) ·
[8 Not modelled](#8-what-is-not-modelled) ·
[9 Plan](#9-plan)

## 1 The system

    launchd ──fires──> self_arming_worker ──starts──> launchd_shadow_worker
       │                     │ registers                  │ ack, pid record,
       │                     v                            │ flock, summary
       │              expected/*.json <───registers──┐    v
       │                     │ scanned by            │  deterministic_slots /
       └──every 60 s──> watchdog_tick ───────────────┘  Claude CLI group
                             │ files incidents, alerts    │ writes
                             │ kills hung workers         v
                             v                        quote_trajectories/,
                        owner: resolve, retire,       calibration/, journal
                        archive                           │ read by
                                                          v
                                               eod_report, shadow_review

Facts the whole model rests on:

* `DAILY_SLOTS` has 21 slots: a CANARY at 06:10, the MARKET_GATE at 06:35, a
  PILOT_SAMPLE every 20 minutes from 07:03 to 12:43 and a CLOSE_SUMMARY at
  13:05, Pacific time.
* A worker refuses to run more than 180 s from its slot.  The start ack has a
  grace of 180 s.  The reaper calls a worker overdue 1080 s after the scheduled
  time (780 s for the CANARY), so `grace 180 < deadline 1080 < slot spacing 1200`.
  It asks at the 60 s ticks only and takes some seconds to kill, so a slot may
  live until about 1145 s, and with its fill window into the next slot's time.
* Nothing is shared but files.  Every file is written to a temporary name and
  renamed, so a file is there entirely or not at all.  A process may die between
  any two file operations.  One exclusive `flock` serializes the workers.
* Every actor takes the time once, at its start, and decides with that reading
  afterwards.  Most of what is hard here follows from that.

## 2 Inventory

Status as in `PROJECT.json`: **M** modelled, **P** partly, **–** not modelled.

| Component | Status | State it keeps | Operations | What is hard | Correct when |
|---|---|---|---|---|---|
| slot worker and flock | P `SlotWorker` | start ack, pid record, flock, summary, CLI process groups | fire, ack, lock, record, gate, collect, retry the CLI, summarize, unlink, release | a crash, kill or timeout between any two file operations | the holder of the flock can always be found; a slot ends in a receipt or an incident |
| worker reaper | M `SlotWorker` | reads pid records, writes hung incidents | read record and summary, classify, probe `ps`, kill group, kill worker, file, unlink | acts on a reading that is stale when it kills | it reports no slot that reported by its deadline, and drops no record without an outcome |
| scheduler health, watchdog scan | M `SlotWorker`, `IncidentLifecycle`, `ObservationDay` | acks, expectations, incidents | evaluate an ack, register, scan, file | the tick's `now` against the worker's | an unacknowledged slot is flagged |
| watchdog tick | P `SlotWorker`, `IncidentLifecycle` | alerts pending and sent | register, scan, reap, deliver alerts | a tick cut short between incident, alert, notification and move; a notification that times out after it was shown | an alert is shown before it counts as sent, and again only after a mishap |
| incident resolution and archive | M `IncidentLifecycle` | incidents, archive, retired expectations | resolve, retire, archive | the owner's scripts race the tick; one file name per run | only a resolution closes an incident; no record is lost |
| registration and self-arming | P `ObservationDay` | expectations of the day | plan a fire, register, delegate, prepare and pin a day, observe | sleep, late fires, half-days, a registration cut short, a pinned worker that asks no calendar | a slot that did not run is on record |
| shadow session | M `ShadowSession` | journal on disk; recorder state, order, position and sample gates in memory | decide, fill or time out an entry, observe, exit, finish the day | torn lines, refused samples, unknown fields, a future quote the gate tolerates | memory and journal agree; an exit rests on evidence |
| shadow review and experiment report | P `ShadowReview` | none (reads journals) | terminal verdict, trade count, eligibility | judges from the order of events alone | its verdict is the recorder's |
| pilot slots and quote trajectories | P `TrajectoryDay` | trajectory files | evaluate, refresh, open, watch the fill window | slots missed, killed or longer than the spacing; `now` of the start; slow probes; probe and candidate caps | one candidate per symbol, closed once, not before its horizon |
| calibration trade | P `TrajectoryDay` | `entry.json`, `exit.json` | enter, exit, skip | entry and exit in different slots, forced exit | one entry, one later exit, neither overwritten |
| end-of-day report | P `TrajectoryDay` | none (reads files) | adjudicate a trajectory | built again while slots still run | no fill, expiry or exit is taken back |
| orders and cash | M `OrderStore`, `CashLedger`, `BrokerEvents`, `RestartGate` | order files, ledger value, switch | create, transition, apply broker events, reserve, release, settle, reconcile, gate a restart | a crash before the rename; events in any order; views that disagree or are missing | a key names one order; a fill wins; reserved cash is settled cash; a gate that opens has seen every exposure |
| risk validation and startup guard | P `RiskValidator` | none (pure), around it an account | validate a configuration, evaluate an opening order, plan the scans | every order is judged alone, limits hold over many | the account never risks or loses more than the hard limits allow |
| kill switch and automation halt | P `RestartGate`, `GovernedFiles`, `HostChecks` | switch file, halt marker | kill, watch | – | a change that stands comes on record |
| frozen policies | – | TOML constants | load and compare | – | – |
| signal and decision chain | P `DecisionChain` | none (reads an input file) | load, gate, bars, regime, signal, contract, validate, decide | bars stale, out of order or turned; nulls | an entry rests on every link of the chain |
| virtual position and friction | – | none (pure decimals) | price, mark, pay out | – | – |
| MCP client and OAuth | P `TokenCache`, `DirectCollector` | token cache shared by processes | token, refresh, save, log in, handshake, call | rotation, a lost reply, a crash before the save, a login beside a refresh | the refresh token on disk is the one the server honours |
| data collectors | P `DirectCollector`, `CliCollector`, `BarsProbes` | a run; a child's stream; a budget | page, batch, harvest, degrade, probe | a child that says anything; cursors without end | a run ends, and within its budget |
| raw data vault | M `RawVault` | snapshots, index | store, index, verify | a crash between rename and index; a later edit | evidence is what a collector stored |
| market gate and qualification | P `MarketGate`, `HostChecks` | evidence document, authorization, report | adjudicate a snapshot, authorize, report; preflight, preopen, diagnostic | evidence used later than it was true; copies of one gate | GO is earned; READY means the slots can run |
| monitoring reports | P `BarTimes`, `MarketCalendar`, `GovernedFiles`, `HostChecks` | fingerprints, incidents | audit bars, compute the calendar, watch governed files, watch power | disorder, gaps; years no test names; a watch cut short | see section 4 |
| research | – | none (offline statistics) | – | – | – |
| dashboards, plists, documents | – | rendered files | – | – | – |
| command line | P | none | dispatch to the components above | – | – |

How they interact: launchd starts the self-arming job and the tick, by the clock.
The job registers expectations and starts the worker as a child.  Worker and
tick share acks, pid records, summaries and incidents, and the tick may kill the
worker.  The pilot slots leave trajectory files to later slots and to the report.
The owner runs scripts over incidents and expectations at any time.
A shadow session is one process, its journal the only thing that survives it.
The collectors put snapshots in the vault.  `market_checks` adjudicates them into
an evidence document, which together with the owner's authorization makes the GO
of the readiness report.  A decision reads one input file, and its account fields
go through the risk validator.  The order store, the cash ledger and the restart
gate are offline machinery: nothing in the repository sends an order.

The behaviours listed as hard are itemized under `hazards` in `PROJECT.json`,
each at its line and with the properties that would catch it.  Hazards that no
property covers say why.

## 3 Modules and the code

### SlotWorker, SlotLedger

`SlotWorker` is the worker process and the watchdog's reaper at the granularity
of one file operation or system call.  `pc[f]` is where fire `f` is:
`idle → fresh → acked → locked → recorded → gated/collecting →
spawned → running → finishing → releasing → done`, with `refused` and `dead` as the other ends.

| Model | Code |
|---|---|
| `ack`, `pidrec`, `summary` | `<run>.start.json`, `<run>.pid`, the slot's summary |
| `missed`, `hung` | `<run>.scheduler-incident.json`, `<run>-hung.scheduler-incident.json` |
| `lock` | the `flock`; freed by `Release` or by the death of its holder |
| `children` | the CLI process groups that are alive |
| `wd` | the tick: its captured `now`, the record and the summary it read, its verdict |

A record is read in one step and acted on in others, so a worker may finish
while the reaper is making up its mind.  A crash is allowed at every `pc`.  The
safety gate and the collectors answer any way.  `inTime` remembers which slots
had their receipt when their deadline passed: those the reaper must leave alone.
A worker that is still at it afterwards may finish between the reaper's look for
the receipt and its look for the process, and is then filed as dead
(`slot_late_receipt`).

`SlotLedger` is the abstract promise: one slot at a time collects, a slot gets
at most one outcome, a lost slot does not collect, collecting ends.
`SlotWorker!ImplementsLedger` maps the flock's holder to `collecting`, and
summary and incident to `outcome`.

### IncidentLifecycle

One run's expectation, incident, alert and notification against a tick that may
be cut short anywhere, and against an owner who resolves, retires and archives.
Notifying succeeds, fails, or times out with the banner already on the screen
(`NotifyTimesOut`); `mishaps` counts those and the ticks cut short.  `filed`
counts the incidents ever written under the one file name of a run; `archived`
says whether the archive has a record of that name.  `ArchiveCheck` and `ArchiveMove` are two
steps, as `_is_resolved` and `path.replace` are.

### ObservationDay

Above the two: who registers the runs of a day, and who notices the ones that
did not start.  `Pass` is the clock, `owed` the one fire launchd owes the job.
It may come as late as it likes (a sleeping Mac) and is not owed twice.  The job
plans from its reading of the clock (`PlanFire`), registers, and starts the
worker, which takes the time again.  The tick registers and scans with the `now`
of its start.  `JobDies` and `TickDies` cut a registration after any number of
files.  The owner may prepare a day (`Prepare`, `PrepareCut`) that the calendar
has closed.  That registers it and pins a worker plist to its date, from which
launchd starts the worker itself (`PinnedFires`): on that day, or, after a
sleep, on any later one, as the worker takes the slot its own clock is near.
`ObserverState` is what the read-only observer shows of a run.

A worker ends its part here with the ack.  What follows is `SlotWorker`'s.

### ShadowSession, ShadowReview

One process that drives a `ShadowSessionController` either through a replay or
one shot.  Every sample passes the gate of its channel (`gates`: ids seen, last
source time) before the runner sees it.  The runner holds the order and the position, the recorder
its state, all lost in a crash.  `log` is the journal.  `Crash` may leave a torn line.  `ShadowReview` says what
review and report conclude from a journal alone; `ShadowSession` extends it.

### TrajectoryDay

The pilot slots of one day in order.  A slot is missed, finds the flock held by
an earlier one, or starts within `MaxLag` of its schedule, captures `now`, evaluates, refreshes the open
trajectories with a probe that takes at most `ProbeCap` instruments, opens at
most `CandidateCap` candidates, watches each through its fill window, and then
works on the calibration trade.  It may die between any two steps.  Every call
to the broker takes some time out of `Delays`.  Only the files (`events`,
`entry`, `exit`) survive the slot.  `Outcome(t)` is the report's verdict on a
trajectory.  `SlotWorker` is what entitles this module to run one slot at a time.
How long a slot lives is left open: `MaxLife` only bounds the runs, and may
exceed the spacing, in which case `clock` carries the moment the flock came free
over to the next slot.  No assumption or theorem relates it to anything.  A worker
takes the flock at the instant it reads its clock, and a slot that finds it held
does nothing more.

### OrderStore, CashLedger, BrokerEvents, RestartGate

`OrderStore` has one file per order and callers who check, write `.tmp` and
rename (`Create`, `Transition`, `Replace`), and may die in between (`Die`).
`CashLedger` is the value of that name with the day it is asked.
`BrokerEvents` is the loop of `simulate_order_events`, one event a step;
`stopped` is its `break`.  `RestartGate` evaluates all reconciliations over
arbitrary broker orders, positions, official cash and flags; whether the kill
switch is engaged is an argument of the startup gate, as in the code, and read
from the file by the execution boundary.  The broker is external.  It extends the first two, so the gate reads the store's own orders.
`States` and `Allowed` are the enumeration and the transition table, an edge a
record, as the code lists them.

### RawVault, TokenCache, DirectCollector, CliCollector, BarsProbes

`RawVault` stores in three steps (temporary file, rename, index).  A snapshot is
an *envelope*: which tools answered, whether it is partial, its times.
`stored` remembers what each identifier was stored with, once.
`TokenCache` has the server's side too: the refresh tokens it honours (`live`),
with or without rotation.  `DirectCollector` composes the two: every POST asks
the cache for a token, an answer may be anything (202 and 204 accept a
notification, 401 and 403 refuse the token), a finished run is stored.
`CliCollector` generates every transcript of the child up to a repeat of each
tool (`ChildCalls`, `ChildResult`, `ChildEnds`) and harvests it in the strict,
resilient or probe mode of the code.  `BarsProbes` is the loop over chunks with
the deadline.

### MarketGate, GovernedFiles, HostChecks, BarTimes, MarketCalendar

`MarketGate` follows one snapshot from its six checks to the evidence document,
the authorization and the report.  `Verdict` is PASS, FAIL or UNKNOWN as in the
code.  Typed claims (session, account) and the probe are arguments of the
command.  A report remembers the evidence and the authorization it was made from.
`Envelopes` and its neighbours type what a caller may bring; the run enumerates a
few of each.  `GovernedFiles` is the watch of every tick over files that
others change, one write a step; the run has the arming marker and the halt, the
two that `kill` touches; the authorization is a third, which the watch treats alike.  `HostChecks` represents the host by the facts
that do *not* hold and has each tool's own list of facts.  The gate of the slots
is there twice, as in the code: `PreopenGate` over the status file preopen built,
and `WorkerGate` over the configuration and the markers the worker reads itself.
`BarTimes` and
`MarketCalendar` are pure; each is checked against a reference written
differently (`IsGrid`, `PaschalSunday` with the Easter tables).  The only state
of the calendar is the `year` its callers last asked about (`AskAbout`), of the
bars the `series` read so far (`ReadBar`).  The code drops the padding, sorts the
stamps and compares neighbours; `BarTimes` says the same of the places in the
series (`Kept`, `Stamped`, `Neighbours`), which keeps sorting, and with it
recursion, out of what is proved.

### RiskValidator, DecisionChain

`RiskValidator` is `validate_safety_config` and `evaluate_opening_order` as
conjunctions of the code's groups of checks, and an account around it: what was
approved may fill or not, is sold for any proceeds, settles the next day.
`Blanked` takes one field away, since every unknown must reject.
`DecisionChain` extends it with the way from an input file to a decision;
`Decide` is the order of the returns of `evaluate_shadow_candidate`.
`ShadowInputs` is what the schema of an input file admits, unknowns included.

## 4 Runs

| Run | Instance | Distinct states | What it shows |
|---|---|---|---|
| `slot_safety` | 2 slots (gate by the CLI at 0, pilot in process at 2), grace 0, deadline 1, time 0–4, 1 failure | 2,160,331 | a slot that reported by its deadline is never reported hung or dead; no record is dropped without an outcome; every step is a step of `SlotLedger`; `IInv` holds |
| `slot_progress` | 1 CLI slot at 1, grace 1, deadline 2, time 0–4, 2 failures | 135,992 | the slot is resolved, a recorded orphan killed, an unacknowledged slot flagged, and `SlotLedger` implemented with its fairness, though collecting may hang for ever |
| `slot_silent_crash` | as `slot_progress` | – | violation, section 7 |
| `slot_late_receipt` | as `slot_progress`, no failure | – | violation, section 7 |
| `incident_safety` | 2 runs, 2 incidents each, 1 mishap (a cut tick or a timeout) | 250,156 | only a resolution closes an incident; an alert is shown before it is sent, and again only after a mishap; misses are put on record |
| `observation_day` | a closed day that may be prepared, then a half-day, slots at 1 and 4 of 7 and close at 3; match 1, guard 1, grace 1, 1 process cut short | 579,465 | a slot the observer shows as missed is filed; what runs unexpected is a pinned worker after a cut preparation or a sleep; every expected run is resolved |
| `session_pilot_evidence` | the desk *session* | – | violation, section 7 |
| `trajectory_day` | 2 symbols, 3 slots 8 apart that may live 9, room for 1 in a probe and 1 candidate a slot, fast and slow calls, any slot missed or killed | 3,584,358 | candidates, closes and the calibration trade keep their rules; a report takes no fill, expiry or exit back |
| `trajectory_horizon` | 2 slots a horizon apart, nothing missed, nothing fails | – | violation, section 7 |
| `orders_and_cash` | desks *store* (2 intents, 2 keys, one caller), *gate* (any stored orders, at most 2 orders and positions at the broker), *cash* (capital 2, 3 days), *events* (8 events), *session* (2 sample ids, times 0–3, age 1, skew 1, hold 2, one limit with asks below, above and absent, marks on both sides) | 148,251 | journal and review agree; an exit rests on a fill and a fresh quote; a key names one order; a gate that opens has seen every exposure; reservations are covered; a fill wins every race |
| `collection` | desks *direct* (one client, 2 pages, 2 batches, 2 tokens), *tokens* (2 clients and the login, 3 tokens), *cli* (every transcript and mode, then an edit), *probes* (5 symbols, budget 8, 4 a call) | 543,453 | evidence is what was collected; the cache holds a live token; probes are whole and in budget; a run ends |
| `market_gate` | desks *gate*, *governed*, *host*, *bars*, *calendar*, *decision*, *account*, see below | 608,721 | GO and an entry are earned; the account keeps its limits; READY means the slots can run; the audit accepts exactly a grid; the calendar follows its rules; a standing change comes on record |

A *desk* is a group of modules that share no state with the others: each
behaviour exercises one of them, chosen in the initial state, while the rest
stays as it starts.  That keeps the product of independent state spaces out of
the runs.

Why the bounds suffice:

* *SlotWorker.*  Two slots is the least with an overlap.  Every race is between
  one worker, the slot behind it and the reaper.  The clock keeps only the order
  of grace, deadline and spacing, and four ticks let the reaper come too early,
  in time and again.  `slot_safety` meets one failure, `slot_progress` two (a
  dead worker and an aborted tick).  The theorems hold for any number.
* *IncidentLifecycle.*  Two runs, so that one may be filed while the other is
  delivered or archived.  Two incidents per run reach the second filing under
  the same name.  The theorems hold for any number of mishaps.
* *ObservationDay.*  After the last slot a fire falls into no match window.  The
  closed day comes first, so that a worker pinned to it may wake on the open one;
  it is the day where registration must *not* happen by itself.
* *Session.*  An id may repeat, a time may be late, equal or out of order
  and a quote stale or from the future with four source times.  A session has at
  most one fill, so its length is bounded by the ids and times.
* *TrajectoryDay.*  Three slots: one opens, one may be missed, one closes.  Caps
  of one with two symbols exercise both limits.  Slots may live one unit longer
  than the spacing: a slot then finds the flock held or starts late beside quotes
  just written, and the refresh of a slot may fill the candidate before it.  With
  the horizon equal to the spacing a start's lag decides the close.  The hold ends
  after the slot behind the entry, so a due and a forced exit both occur.
* *Orders and cash.*  Two intents compete for one key; two broker orders or
  positions are the first that must be refused.  The *gate* desk starts from
  every content of the store.  Eight events repeat every kind of event.
* *Collection.*  Caps of 2 for the code's 20 pages and its batches: one within,
  one at the cap.  Two clients and a login are all who write the token cache.
  Five symbols make two chunks or five, and the third width was never measured.
* *Gate.*  Times 0–2: before, at and after an age limit.  One document is
  verified per behaviour, as it replaces the one before; the readiness report
  and the authorization come any time after it.
* *Governed, host.*  Three changes: a forgery that is accepted, its removal and its
  return; with two, nothing could come back after it was accepted.  A tick may be
  cut short.  Two broken facts at once, which differ between the tools and between
  the two copies of the gate.
* *Bars, calendar.*  Every series of three bars over seven times finds every
  pair of faults.  28 years cover the fourteen year types (weekday of 1 January,
  leap or not), the century exceptions 1900, 2000 and 2100, the earliest Easter
  (2285), the latest (2038), the exceptions of its tables (1954, 1981, 2076) and
  the years the program will run in; `CalendarForEveryYear` covers the others.
* *Decision.*  Inputs with one fault in one link of the chain, and all pairs of
  the two symbols' bar paths.
* *Account.*  A history of 0 or 4 trades reaches both sides of the first stage
  (5 trades) within `MaxTrades` = 6, proceeds none, equal or above the premium.
  One unknown field at a time.

`MaxTime`, `MaxFailures`, `MaxFiled`, `MaxMishaps`, `MaxCrashes`, `MaxLife`, `MaxEvents`, `MaxIssued`,
`MaxChanges`, `MaxTickCrashes`, `MaxBroken`, `MaxBars`, `MaxTrades` and the number
of days, slots and ids are bounds of the model; everything else is a parameter
of the code.  Deadlock checking is off where the day, the session or the desk
ends.

Each property was also run against a mutated definition (`mutants` in
`PROJECT.json`: a dropped guard, a swapped order, a missing reset), kept in the
modules as `Mutant…` just before the definition it changes, which violates it.

## 5 Fairness

* `SlotWorker`: the clock (`Tick`) and the `Watchdog`, since launchd runs the tick
  every 60 s and every call the tick makes has a timeout; and of a worker only the
  steps that are a single file operation with nothing to wait for
  (`WriteRecord`, `UnlinkRecord`, `Release`).  Nothing is assumed of collecting:
  it may hang for ever, which is what the reaper is for.
* `IncidentLifecycle`: the `Watchdog` again.  `Notify` is strongly fair: of the
  attempts repeated for ever one succeeds.  The owner owes nothing.
* `SlotLedger`: collecting ends (`End`).  `slot_progress` shows that `SlotWorker`'s fairness gives it.
* `ObservationDay`: the clock, the `Watchdog`, and that a planned job comes to
  its worker, two file loops and a process start away.  launchd may defer the
  job for ever.
* *collection*: the steps of the one collecting process, which has a timeout on
  every call; nothing of the server, the owner or the other clients.
* *market_gate*: the steps of the watch over the governed files, part of the
  watchdog's tick.  Those who change files owe nothing, nor do the other desks.
* `TrajectoryDay` and `orders_and_cash` (with `ShadowSession`) state safety only: a
  process may stop anywhere.

## 6 Proofs

Proved with TLAPS for every value of the constants that meets the named
assumptions.
The runs evaluate the same assumptions on their instances (`ASSUME`
in the module that declares the constant), except `OneFirePerSlot`,
`OneCaller` and `Cli \notin Clients`, which are hypotheses of the theorems that
need them.  Each module of
runs that exercises one desk at a time has, per component, a specification of its
own (`GateSpec`, `HostSpec`, `RiskSpec`, `ChainSpec`, `CashSpec`, `SimSpec`,
`StoreSpec`, `BrokerSpec`, `WatchSpec`, `BarsSpec`, `TokenSpec`, `ProbesSpec`, `CollectionSpec`) with
unbounded inputs; the theorems are about these.

### SlotWorkerProofs

From `SlotAssumption`, `NoneAssumption` and `OneFirePerSlot` (launchd has one
job loaded per slot):

| Theorem | Property |
|---|---|
| `TypeCorrect` | `TypeOK` |
| `InductiveInvariant` | `IInv` |
| `RecordGuardsLockHolds` | `RecordGuardsLock` |
| `IncidentMeansLockFreeHolds` | `IncidentMeansLockFree` |
| `DeathIsRealHolds` | `DeathIsReal` |
| `RecordOutlivesOutcomeHolds` | `RecordOutlivesOutcome` |
| `OutcomesStay` | `OutcomesAreFinal`, `LostIsNotCollecting` of `SlotLedger` |
| `ImplementsLedgerSteps` | `LedgerSteps`: every step is a step of `SlotLedger` or a stutter |

None of these is inductive.  `RecordGuardsLock` needs that no reaper is about to
unlink the record of a working worker, and that depends on what the reaper has
read.  `IInv` therefore adds what each `pc` means for the slot's files
(`WorkerFiles`), that a record lies under its own slot's name
(`RecordsNameTheirSlot`), and what the reaper's memory still says of the present
(`ReaderKnows`, `VerdictKnows`): a summary it saw is still there, a death it
concluded is final, and a slot on its list has passed its start.  A stale reading is
harmless because each of these facts, once true, stays true.  `DeathIsReal` needs
one more (`InTimeKnows`): a tick that finds a worker overdue has taken its `now`
after the deadline, and so read the receipt of a slot that made it in time.

The refinement maps the holder of the flock to `collecting`, and summary and
incident to `outcome`.  `IInv` gives what a step of the ledger asks of the
worker: who writes a summary holds the flock, or never collected; who files an
incident has left nobody collecting.  `OutcomesStay` carries what the ledger
promises over to the worker: a slot has one outcome for good, and who is lost or
skipped does not hold the flock.

### TrajectoryDayProofs

From `TrajectoryAssumption` and `NoneAssumption`:

| Theorem | Property |
|---|---|
| `DayInvariant` | `DayInv` |
| `OneCandidatePerSymbolHolds` | `OneCandidatePerSymbol` |
| `ClosedOnceAtHorizonHolds` | `ClosedOnceAtHorizon` |
| `CalibrationRoundTripHolds` | `CalibrationRoundTrip` |
| `CalibrationWrittenOnceHolds` | `CalibrationWrittenOnce` |
| `OpenedCanCloseHolds` | `OpenedCanClose` |
| `ReportIsStableHolds` | `ReportIsStable` |

`DayInv` says that every file is older than the running slot's clock, or than the
moment the flock comes free for the next one (`FilesAreOlder`), that a candidate
was decided on as some slot started that left room for its horizon
(`FilesHaveTheirSlot`), and that the slot's memory agrees with the files
(`MemoryAgrees`).  `MaxLag < Spacing` (180 < 1200 s) and `MaxLag <= MaxLife` are all
it asks of the times: no limit on a slot's life enters.  In particular a
candidate's window need not be over when the next slot starts.
`ReportIsStable` therefore does not say that only the own slot fills: NO_FILL may
become a fill in the slot that watches the candidate, or in the refresh of one that started
before the window was over.  What carries it is `EarlyObservation`: a slot's
observations are not before its start, so a later start is too late to fill.

### ObservationDayProofs

From `DayAssumption` (a slot, the match window and the time to start a worker
fit in the slot's day) and `NoneAssumption`:

| Theorem | Property |
|---|---|
| `DayInvariant` | `DayInv` |
| `MissesOnRecordHolds` | `MissesOnRecord` |
| `RunIsExpectedHolds` | `RunIsExpected` |

`DayInv` adds what job and tick have registered by the time they delegate or
scan (`JobKnows`, `TickKnows`), and that a pinned day is registered unless its
script was cut short (`PinsAreKnown`).  `RunIsExpected` holds the job to days the
market trades; a pinned worker may run on a closed day, expected or, after a cut or
a sleep, not.  The job plans with one reading of the clock and
the worker takes another; that both lie in one day is the lemma `JobDay`, for
days and slots of any length (`SameDay`).

### IncidentLifecycleProofs

From `LifecycleAssumption`:

| Theorem | Property |
|---|---|
| `LifecycleInvariant`, `LifecycleTypeCorrect` | `LifecycleInv`, `TypeOK` |
| `SentAlertsWereShown` | `SentWasShown` |
| `RepeatsAreMishaps` | `RepeatsOnlyAfterMishap` |
| `OpenIncidentsAreKept` | `OnlyResolutionCloses` |

How often an alert is shown is a matter of counting.  `ShowingsAreBudgeted`
charges every showing, and every alert still to be shown or still to be
written, to an incident, a crash or a timeout.

### ShadowSessionProofs

From `SessionAssumption`:

| Theorem | Property |
|---|---|
| `SessionInvariant`, `SessionTypeCorrect` | `SessionInv`, `TypeOK` |
| `CompletedSessionsAreFlat` | `CompletedIsFlat` |
| `ReviewIsRight` | `ReviewTellsTheTruth` |
| `ExitsHaveEvidence` | `ExitEvidence` |
| `SamplesMoveForward` | `SamplesInOrder` |
| `PilotTradesAreNotCounted` | `PilotTradeNeverCounted` |
| `MemoryIsTheRecorders` | `MemoryMatchesState`, `OnlyOpenPositionRaises` |

Two layers.  The recorder alone guarantees `JournalInv`: each event its table
allows keeps the order and the counts of the journal.  The rest relates the
memory of the process to the journal: an open position to the fill on record
(`FillOnRecord`), a gate to the samples it let pass (`SamplesPassed`), the tag of
the decision to the run (`DecisionOnRecord`).  A crash loses the second layer and
leaves the first, which is all the review reads.

### OrdersProofs

| Theorem | Property | From |
|---|---|---|
| `CashIsCovered` | `CashCovered` | `CapitalAssumption`, `LastDayAssumption` |
| `FillsWin` | `FillWins` | – |
| `StoreStaysSound` | `StoreInv` | `StoreAssumption`, `OneCaller` |
| `KeysNameOneOrder` | `KeyNamesOneOrder` | `StoreAssumption`, `OneCaller` |
| `GateSeesExposure` | `GateSeesEveryExposure` | `UnknownAssumption`, `ToleranceAssumption` |

`CashCovered` is inductive once the sums of lots are known to split; the prover
has no induction over sets, so the lemmas on sums take a smallest counterexample
among the finite subsets (`WFMin`).  The store's argument is `CallIsCurrent`:
what a caller has read is still what is on disk, because it is the only one.
`OneCaller` is what the code needs and nothing in the repository breaks
(section 8).  `GateSeesExposure` lets broker and owner do anything and leaves
what the order files and the ledger hold open; no two orders at the broker share
a key, or they would count once (section 7).  The cash part of the gate is a
lemma of its own (`CashSafeMeansCovered`), so that the rest quantifies over its
answer only.

### GateProofs

| Theorem | Property | From |
|---|---|---|
| `ReadinessIsEarned` | `GoIsEarned` | `GateAssumption` |
| `ReadyMorning` | `ReadyMeansSlotsCanRun` | `HostAssumption` |
| `LimitsHold` | `LossIsBounded` | `RiskAssumption` |
| `EntriesAreEarned` | `EntryIsEarned` | `RiskAssumption`, `ChainAssumption` |
| `CalendarForEveryYear` | `CalendarFollowsRules` | `YearsAssumption` |
| `BarsAreAGrid` | `BarsPassAreAGrid` | `BarAssumption` |
| `BaselineIsTheOwners` | `BaselineIsAcknowledged`, `WatchTypeOK` | – |
| `ForgeriesAreSeen` | `ForgeryIsSeen` | – |
| `ScansBeforeExits` | – (a formula without state) | `RiskAssumption` |

`ReadyMorning` follows preopen's status from the file to the worker: what
preopen's copy of the gate accepts of a status it has just built, the worker's
copy accepts of configuration and markers, unless something changed since
(`GatesAgree`).  The run's mutant lets the two copies drift.

`GateInv` says that an evidence document is what verification makes of the
envelopes it names, at the time it names; from that, a PASS can be read back to
the envelope.  `RiskInv` knows three situations of the account (`Idle`, `Asked`,
`Owned`) and the limits of the order in each; the money argument is then that
one position is held at a time and every premium was covered by settled cash.
`EntriesAreEarned` holds for every file `ShadowInputs` admits, with bars of any
length: the newest two bars of a sound series are the newest in time, again by a
smallest counterexample.  `ChainAssumption` says that the policy is one
`validate_strategy_policy` accepts in this respect (two confirming bars).

`CalendarForEveryYear` leaves no year out; `YearsAssumption` only says that dates
begin with year 1 and that the year before can be asked about.  A date is the
days elapsed before its year and its place in the year (`Elapsed`, `Dates`), and
a weekday a remainder by seven, so that all is linear once the quotients have
names.  `EasterIsSunday` undoes the algorithm's `l`, whose remainder is that of
the first of March (`FirstOfMarch`); `MoonFollowsEpact` shows its `h` to be the
tables' epact; the algorithm's `m` is their two exceptions.  Both dates are then
Sundays within the same seven days (`EasterIsPaschal`).  The other holidays lie
in ranges of days at least six apart, also across the turn of the year
(`HolidaysInOrder`, `HolidayPlaces`), so that around a holiday every weekday is
open (`OpenAround`), from which the long weekend follows.  `ScansBeforeExits`
needs no more than the guard's order of the cutoffs.

`BarsAreAGrid` is for series of any length and any times.  The rank of a place is
how many kept places stand before it (`Rank`); if each neighbour is one interval
later, the n-th bar is n intervals after the first (`GapsMakeGrid`, by a smallest
place that is not), and in a grid neighbours differ by one in rank
(`GridHasGaps`).

The watch writes two baselines: the owner's acknowledgement, and its own at the
first tick, from a reading in which every file was absent.  A file may have
changed since that reading, but the baseline says absent, so the change is a
difference of the next (`WatchInv`).  That is the safety half of
`StandingChangeOnRecord`: no unaccepted content is taken for the owner's
(`BaselineIsTheOwners`), and each is on the list of the next reading and leaves
the list only with its incident or with the tick (`ForgeriesAreSeen`).  The
liveness half, that the ticks get through the list, stays with TLC.

The attempts corrected two properties.  `StandingChangeOnRecord` asked
for an incident even when an accepted content was removed and came back, which the
watch rightly takes for unchanged; it held only because the run had too few
changes to get there.  It now excuses what the owner accepted last.  `EntryIsEarned` once bounded every limit by
the premium of the first stage, which holds on the desk of the run but not for
an input with five completed trades and a valid second stage.  It now has both
stages and the desk has such inputs.

### CollectionProofs

| Theorem | Property | From |
|---|---|---|
| `CacheStaysAlive` | `CacheHoldsLiveToken` | `SkewAssumption`, `TokenAssumption` |
| `ProbesKeepTheirBudget` | `ProbesWholeInBudget` | `BudgetAssumption`, `MeasuredAssumption` |
| `EvidenceIsGenuine` | `EvidenceIsCollected` | `ClockSkewAssumption`, `ClientsWrite`, `CliWrites` |
| `RunsGetShorter` | `RunsShrink` (behind `RunsEnd`) | `CapAssumption`, `OwnerAssumption`, `ClientsWrite`, `Cli \notin Clients` |

`TokenInv` keeps apart the refresh tokens that are pending in a client, in the
temporary file and on disk: those still to be saved are alive and used by nobody
(`PendingUnused`), and no two are the same (`PendingDistinct`).  Without rotation
no token dies (`NoneDies`).  With it, a dead token on disk is in `lost` or some
client is about to save its successor (`Covered`), and a client at its rename
finds a temporary file there, its own or another's (`RenameWillReplace`).
`EvidenceIsGenuine` is about `CollectionSpec`, in which the runs give up their
desks: any number of direct clients, the CLI child and an editor of files work on
one vault at once.  `VaultInv` says nothing of the files.  Whoever stores an
envelope stores a sound one under a new identifier, the index only names what was
stored, and verification compares the file with the index.

`RunsEnd` needs fairness and cannot be proved here; what it rests on can.
`Ahead(c)` counts the steps a collector may still take: the POSTs that its plan
and the caps allow, in each of them the steps of a token, after them those of the
store.  `RunsGetShorter` says that this natural number falls with every step of
the collector, whatever the server answers and whoever else is at work, and rises
only when a new run starts.  The page cap is what the argument needs: without it
`get_option_instruments` could ask for ever (the mutant of `RunsEnd`).  The other
half, that an unfinished run always has a step to take, is ENABLED and stays with
TLC.  That the
CLI child's collector and the owner's login are none of the direct clients are the
two hypotheses on names.

### Only model-checked

Everything temporal with fairness (`RecordedSlotResolved`, `RecordedOrphanDies`,
`UnackedSlotFlagged`, `MissIsFiled`, `AlertIsShown`, `ExpectedIsResolved`,
`RunsEnd`, `StandingChangeOnRecord`, and the liveness part of `ImplementsLedger`):
beyond the prover.  For three of them the safety they rest on is proved:
`LedgerSteps`, `RunsShrink`, `ForgeryIsSeen`.

Every other property of a passing run is a theorem.  The proved properties that
the runs do not list (`TypeOK`, the `...Inv`, `RecordGuardsLock`,
`IncidentMeansLockFree`, `OpenedCanClose`, `CalibrationWrittenOnce`,
`MemoryMatchesState`, `OutcomesAreFinal`,
`BaselineIsAcknowledged`, `ForgeryIsSeen`, `RunsShrink`) are parts or consequences
of those they do, or are left to the proof.

## 7 Where code and documentation disagree

### Shown by a run

* `slot_silent_crash`.  A worker that dies after its ack and before its pid
  record leaves a healthy-looking slot: the scan sees the ack, the reaper sees
  no record, no incident is ever filed.  The comment in
  `launchd_shadow_worker.py:588-591` promises one.
* `session_pilot_evidence`.  A pilot session whose decision is no entry carries
  no pilot tag, so its day counts as strategy evidence
  (`MONDAY_SHADOW_RUNBOOK.md:160`, `README.md:144-145`).
* `slot_late_receipt`.  The reaper looks for the receipt, then for the process,
  and not again for the receipt.  An overdue worker that finishes in between gets
  WORKER_DIED_NO_SUMMARY and an alert that its sample is lost, beside its
  COMPLETED receipt (`worker_reaper.py:40`, `:181`).
* `trajectory_horizon`.  A horizon that coincides with the schedule of the last
  slot is compared with the `now` of the worker's start, and counts from the `now`
  of the opening worker's.  If the opening slot lagged more than the last one, the
  last writes a QUOTE and the trajectory is never closed
  (`trajectory_recorder.py:321`), against `deterministic_slots.py:159-161`.

### Met while modelling, not carried as runs

In the modules' behaviour:

* The CLI group is started before its id is in the pid record.  A worker killed
  in between leaves a group that survives the reap, which
  `worker_reaper.py:122-124` rules out.  No property catches it:
  `RecordedOrphanDies` is about groups in the record.
* A resolved incident archived while its expectation still stands is filed
  again; archiving the second overwrites the first, against "Never deletes any
  file" (`cleanup_expired_incidents.py:43-44`).
* On a half-day the whole day is registered, the afternoon fires are refused,
  and each of those slots becomes a CRITICAL incident.
  `self_arming_worker.py:96`: "do not run (or register) slots at/after the close".
* Two jobs loaded for one slot (calendar and self-arming labels differ): the
  skipped fire writes `OVERLAP_SKIPPED` to the summary path of the running one.
  If that one hangs, the reaper finds a summary and drops the record without a kill,
  and the flock is never freed (`launchd_shadow_worker.py:555`).  The theorems
  assume `OneFirePerSlot` for this reason.
* A fire replayed on wake within 180 s before the next slot is accepted as that
  slot, which then fires again; `generate_self_arming_plist.py:22-24` says stale
  fires are refused.  `observation_day` has such behaviours; it is another way
  to two fires of one slot.
* A fire accepted at the edge of the guard may be flagged as missed when the
  tick's clock passes the grace before the ack is written
  (`scheduler_health.py:8-10` says it must never be).  `UnackedSlotFlagged` allows
  a slot that is both acknowledged and flagged.
* The reaper may kill a worker that wrote its summary between the reaper's look
  and the kill.
* The gate of a worker does not look at unresolved incidents
  (`_safety_ok`), while `README.md:95-96` says they block new runs.
* A tick cut short between incident and alert leaves an incident nobody is
  notified of; one cut short between notification and move notifies twice, and so
  does an osascript that times out with the banner shown (`watchdog_tick.py:55`).
  `README.md` says one notification.
* An expectation that is valid JSON but no object is not MALFORMED: it raises
  AttributeError at `scheduler_watchdog.py:175`, which line 185 does not catch, and
  every tick ends there.  The model takes the malformed file for one that cannot be
  decoded.
* A tick finds a worker overdue up to 60 s after its 1080 s and takes seconds to
  kill it (`worker_reaper.py:80,102-146`), so about 1145 s: with the 65 s of fill
  window and skew that exceeds the spacing of 1200, and the refresh of the next slot
  may turn a NO_FILL into a fill.  `trajectory_day` has such behaviours, and
  `ReportIsStable` allows them.
* A day slept through until after midnight is never registered:
  `ensure_day_registered` takes the day of its own `now`, while
  `ROBUSTNESS_UPGRADE_2026-07-25.md:48,58` says the day is registered on wake.
* `prepare_observation_day.py` registers a day without asking the calendar, and
  the plist it pins to the day starts a worker that never asks either.  Replayed on
  wake after a sleep, or fired a year on (an interval names no year), that worker
  takes the slot of the day it finds itself on, registered or not, while
  `generate_shadow_worker_plist.py:4-6` says that "automation never silently recurs
  onto a day the owner did not explicitly prepare".
* A quote that arrives after the fill wait fills, because `observe_entry` looks
  at the fill before `timed_out` (`shadow_runner.py:138`).
* A pilot session without an entry is quarantined as unauthorized.
* A probe takes the first six instrument ids, so with more open the later ids are
  not re-quoted in that slot, nor in the next (`deterministic_slots.py:350`).  No property
  promises them one: `ClosedOnceAtHorizon` never requires a close.

In the stores, collectors and gates:

* The incident of a governed change is named for the file and its content, so a
  change that was reverted and resolved is not reported when it is repeated,
  until the incident is archived (`authorization_watch.py:140`), against "it must
  never be quiet" (`watchdog_tick.py:106`).
* The pre-market diagnostic drops the result of its summary and exits with 0
  whatever failed (`premarket_diagnostic.py:174,380`), while
  `launch_production_system.sh:44` branches on it.
* Preopen looks for the scheduler `shadow-worker-v2`
  (`preopen_qualification.py:130`), preflight for the self-arming job that
  replaced it.
* Nothing reads the date of the market-check evidence document
  (`shadow_readiness.py:78-108`): a PASS of an earlier day still makes GO.
  Without a probe the age of the snapshot is not looked at either, and with an
  unusable snapshot a typed session claim may pass.
* The lag limit of a bar is not enforced where the caller gives the lag
  (`market_regime.py:79-123`); two bars with a gap between confirm each other;
  bars received after the decision are accepted.
* The decision time is the receipt time in the file, not the clock.
  `near_forced_exit` and `within_entry_window` are typed claims:
  `evaluate_instrument_session` has no caller.
* A `HALTED` local order whose order is still open at the broker reconciles as
  safe, and duplicate broker orders with one key count once.  In the simulator an
  order halted by a rejection after a fill may become `FILLED` again, with
  entries still blocked.
* `instrument_id` is loaded as `str(...)`, so a null is the text "None", which no
  later check takes for missing: a simulated entry can be recorded for a contract of
  no identity (`shadow_input.py:188`).  Lines 186-187 say "an input that cannot say
  WHICH contract it describes must never be evaluable".
* The startup gate takes the state of the kill switch from its caller
  (`startup_reconciliation.py:34`) and does not read the file.
* Twenty pages of instruments are stored as complete when a 21st was offered
  (`robinhood_direct_collector.py:217`).
* A later result of one tool call replaces an earlier one, where the
  documentation says exactly one.  The first request of any kind ends the wait of
  the login page.

In constants:

* `FORCED_EXIT_SLOT` is (11, 23), "the last pilot slot"; the schedule's last is 12:43.
* Deterministic slots have no timeout of their own; only the reaper's 1080 s
  ends them, against `deterministic_slots.py:72-75` and `worker_reaper.py:28-32`.

## 8 What is not modelled

* Prices, P&L, friction, indicators, features and statistics: arithmetic on
  decimals and floats without control flow of its own.  A ranking or a market
  answer is a nondeterministic choice where it is read.
* Two callers of the order store: the check for a used key and the write are not
  atomic across processes, and with two callers `KeyNamesOneOrder` does not hold.
  Nothing in the repository starts a second one.
* Torn writes.  Every file is written by rename, except for the journal line and
  the malformed expectation, which are modelled, and the vault's index line and
  two processes in one `.tmp` of the token cache, which are not: the first makes
  the whole vault unverifiable, the second can lose the tokens.
* Discovery, client registration and PKCE of OAuth; the legacy snapshot collector;
  the read adapter.
* The executor that would trade: there is none, so the account of
  `RiskValidator` is external and knows no fees.
* The computation of indicators, the option surface, the universe and the AI
  signal contract in front of `DecisionChain`: its input is what they would give.
* That evidence documents are written only by `market-check-verify`, and that a
  verified envelope is not replaced before it is read again, is assumed.
* The CANARY's second collection attempt, the rebuild of dashboards, the push to
  a phone, the report a tick writes when the close slot did not, and
  `run_close_summary`.
* What a worker started from a pinned plist collects: to `ObservationDay` it ends with
  its ack, and `SlotWorker` has one fire per slot.
* A plist's day coming round again in a later year: a pinned day is one day of the
  model.
* A start ack of another run or schedule (`scheduler_health.py:105-108`): each is
  written whole by its slot's own worker under the name the scan looks for.
* Clocks that go backwards and changes of daylight saving.
* The components with status – in section 2: research is offline statistics,
  dashboards and plists are rendering, the policy loaders compare constants, and
  positions and friction are price arithmetic.  They have next to no states that a
  model could explore.

## 9 Plan

Left to prove is the two-process form of the store, to show exactly which step
`OneCaller` protects; it needs that second caller in the model first.

What could be modelled further: `SlotBudget`, the minutes of starts, caps and
deadlines, where a late start (180 s) and a full agent budget (900 s) meet the
reaper at exactly 1080 s; two callers of the order store; the composition of
`ObservationDay`, `SlotWorker` and `IncidentLifecycle` under one ledger of the
day, of which `SlotLedger` is the part that exists; and the splits of
`walk_forward` without leakage.
