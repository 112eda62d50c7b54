------------------------------- MODULE HostChecks -------------------------------
(***************************************************************************)
(* The checks of the morning, each over the host as it is at that moment:   *)
(* preflight at 05:45 (scripts/preflight_check.py), the preopen             *)
(* qualification of a day (preopen_qualification.py), the pre-market        *)
(* diagnostic (premarket_diagnostic.py), and the power watch of every       *)
(* watchdog tick (monitoring/power_watch.py).  Each has its own copy of     *)
(* the safety gate the slot worker applies (launchd_shadow_worker.py).      *)
(* The host is the set of facts that do not hold: at most MaxBroken.        *)
(***************************************************************************)
EXTENDS Naturals, FiniteSets

CONSTANTS DaySlots,     \* slots of the observation day
          MaxBroken

ASSUME HostAssumption == MaxBroken \in Nat

SafetyFacts == {"READ_ONLY", "LIVE_OFF", "ORDERS_OFF", "KILL_ENGAGED"}
Facts ==
    SafetyFacts \cup
    {"CONFIG_VALID", "NOT_HALTED",                       \* what build_status reads
     "OFFLINE_FILES",                                    \* the rest of readiness
     "LEGACY_QUIET", "WATCHDOG", "WORKER_V2",            \* automations and launchd jobs
     "SELF_ARMING", "SCHEDULE", "CLI", "MCP_KNOWN", "MCP_ANSWERS",
     "AC_POWER", "DISK", "IMPORTS", "NO_PYC", "NO_CRON", "LOGS", "SAMPLES", "FEW_INCIDENTS"}

VARIABLES
    broken,        \* facts that do not hold now
    registered,    \* slots of the day with an EXPECTED manifest
    marketDay,
    morning,       \* the last report of a check, or the qualification under way,
                   \* and whether the host changed since it began
    powerIncidents

hostVars == <<broken, registered, marketDay, morning, powerIncidents>>

Holds(facts) == facts \cap broken = {}

\* main.py build_status; it raises on an invalid configuration, so whoever
\* reads it also needs CONFIG_VALID.
BuildStatus ==
    [mode |-> IF "READ_ONLY" \in broken THEN "OTHER" ELSE "READ_ONLY",
     live |-> "LIVE_OFF" \in broken,
     tools |-> "ORDERS_OFF" \in broken,
     kill |-> "KILL_ENGAGED" \notin broken,
     halted |-> "NOT_HALTED" \in broken]

MutantWorkerGate ==   \* unresolved scheduler incidents gate the collector
    /\ Holds({"CONFIG_VALID", "FEW_INCIDENTS"})
    /\ BuildStatus.mode = "READ_ONLY" /\ ~BuildStatus.live /\ ~BuildStatus.tools
    /\ BuildStatus.kill /\ "NOT_HALTED" \notin broken

\* The worker's gate, _safety_ok: it reads the halt itself; incidents are
\* reported and gate nothing.
WorkerGate ==
    /\ Holds({"CONFIG_VALID"})
    /\ BuildStatus.mode = "READ_ONLY" /\ ~BuildStatus.live /\ ~BuildStatus.tools
    /\ BuildStatus.kill /\ "NOT_HALTED" \notin broken

\* The qualification's copy of it, over the status it read (safety_ok).
PreopenGate(status) ==
    /\ status.mode = "READ_ONLY" /\ ~status.live /\ ~status.tools
    /\ status.kill /\ ~status.halted

HostInit ==
    /\ broken \in {b \in SUBSET Facts : Cardinality(b) <= MaxBroken}
    /\ registered = {}
    /\ marketDay \in BOOLEAN
    /\ morning = [tool |-> "none", ok |-> FALSE, failed |-> FALSE, changed |-> FALSE]
    /\ powerIncidents = {}

Reports(tool, ok, failed) ==
    /\ morning' = [tool |-> tool, ok |-> ok, failed |-> failed, changed |-> FALSE]
    /\ UNCHANGED <<broken, registered, marketDay>>

-----------------------------------------------------------------------------
HostChanges(fact) ==
    /\ broken' = IF fact \in broken THEN broken \ {fact} ELSE broken \cup {fact}
    /\ Cardinality(broken') <= MaxBroken
    /\ morning' = [morning EXCEPT !.changed = TRUE]
    /\ UNCHANGED <<registered, marketDay, powerIncidents>>

\* A slot gets its EXPECTED manifest, or is retired by the owner.
RegisterSlot(s) ==
    /\ registered' = IF s \in registered THEN registered \ {s} ELSE registered \cup {s}
    /\ morning' = [morning EXCEPT !.changed = TRUE]
    /\ UNCHANGED <<broken, marketDay, powerIncidents>>

\* check_jobs_loaded to check_safety_gate: the probe call is made on market
\* days only.
PreflightFacts ==
    {"SELF_ARMING", "WATCHDOG", "SCHEDULE", "CLI", "AC_POWER", "DISK", "CONFIG_VALID"}
        \cup SafetyFacts \cup (IF marketDay THEN {"MCP_ANSWERS"} ELSE {})

\* Only on a market day does the process fail and alert.
Preflight ==
    /\ Reports("preflight", Holds(PreflightFacts), marketDay /\ ~Holds(PreflightFacts))
    /\ UNCHANGED powerIncidents

\* Legacy automations paused, the jobs of launchd, the CLI and its MCP server.
PreopenFacts ==
    {"OFFLINE_FILES", "LEGACY_QUIET", "WATCHDOG", "WORKER_V2", "CLI", "MCP_KNOWN"}

\* build_report reads the status, which raises on an invalid configuration,
\* and goes on to ask launchd and the CLI: no report yet.
PreopenReadsStatus ==
    /\ Holds({"CONFIG_VALID"})
    /\ Reports("qualifying", PreopenGate(BuildStatus), FALSE)
    /\ UNCHANGED powerIncidents

\* ... and its verdict, over the status read and the rest as it is now.
PreopenQualification ==
    /\ morning.tool = "qualifying"
    /\ morning' = [morning EXCEPT !.tool = "preopen",
                       !.ok = @ /\ Holds(PreopenFacts) /\ registered = DaySlots]
    /\ UNCHANGED <<broken, registered, marketDay, powerIncidents>>

\* The critical checks; cron entries, the halt and many incidents only warn,
\* and the CLI and the network are imported, not asked.
DiagnosticFacts ==
    {"IMPORTS", "CONFIG_VALID", "READ_ONLY", "NO_PYC", "LOGS", "SAMPLES"}

\* failed: the summary says NOT READY.  run_diagnostics drops the 1 that
\* print_summary then returns, so the process exits with 0: ok.
PremarketDiagnostic ==
    /\ Reports("diagnostic", TRUE, ~Holds(DiagnosticFacts))
    /\ UNCHANGED powerIncidents

\* check_power inside the collection window of a market day: one incident a
\* day for each of the two reasons.
CheckPower(reading) ==
    /\ marketDay
    /\ reading \in IF "AC_POWER" \in broken THEN {"ON_BATTERY", "POWER_STATE_UNKNOWN"}
                   ELSE {"ON_AC", "POWER_STATE_UNKNOWN"}
    /\ powerIncidents' = powerIncidents \cup ({reading} \ {"ON_AC"})
    /\ UNCHANGED <<broken, registered, marketDay, morning>>

HostNext ==
    \/ \E fact \in Facts : HostChanges(fact)
    \/ \E s \in DaySlots : RegisterSlot(s)
    \/ Preflight
    \/ PreopenReadsStatus
    \/ PreopenQualification
    \/ PremarketDiagnostic
    \/ \E reading \in {"ON_AC", "ON_BATTERY", "POWER_STATE_UNKNOWN"} : CheckPower(reading)

HostSpec == HostInit /\ [][HostNext]_hostVars

-----------------------------------------------------------------------------
\* PREOPEN_READY speaks for the day's slots (preopen_qualification.py:133-154):
\* unless something changed since the status was read, the worker's own gate,
\* which is not the qualification's, lets every slot run, every slot is expected,
\* and the watchdog that would notice a missing one is loaded.
ReadyMeansSlotsCanRun ==
    morning.tool = "preopen" /\ morning.ok /\ ~morning.changed =>
        /\ WorkerGate
        /\ registered = DaySlots
        /\ Holds({"WATCHDOG", "CLI", "MCP_KNOWN"})
=============================================================================
