-------------------------- MODULE IncidentLifecycle --------------------------
(***************************************************************************)
(* What becomes of a run nobody acknowledged.  The watchdog tick scans the *)
(* expectation files, files an incident and an alert, and delivers pending *)
(* alerts (monitoring/scheduler_watchdog.py, scripts/watchdog_tick.py).    *)
(* The owner resolves incidents, retires the expectations of past days     *)
(* (scripts/retire_stale_expectations.py) and moves resolved incidents to  *)
(* archive/ (scripts/cleanup_expired_incidents.py), at any time.           *)
(*                                                                         *)
(* Every file has one name per run, so a second incident of a run takes    *)
(* the path of the first; filed counts the records ever written.  A file   *)
(* write or move is one step, a check before it another.                   *)
(***************************************************************************)
EXTENDS Naturals, FiniteSets

CONSTANTS
    Runs,          \* run ids of one day
    MaxFiled,      \* bound on the incidents of one run
    MaxMishaps     \* bound on aborted ticks and notifications that time out

ASSUME LifecycleAssumption ==
    MaxFiled \in Nat \ {0} /\ MaxMishaps \in Nat

VARIABLES
    past,         \* the day of the runs is over
    due,          \* runs whose grace expired without a valid start ack
    expectation,  \* logs/scheduler/expected/<run>.expected.json
    incident,     \* logs/incidents/<run>.scheduler-incident.json
    filed,        \* how many incidents were ever written for the run
    archived,     \* logs/incidents/archive/ holds a record of the run
    alert,        \* logs/incidents/alerts/<run>.alert.json is pending
    sent,         \* ... has been moved to sent/
    notified,     \* notifications shown for the run
    tick,         \* the watchdog process
    archiver,     \* the run whose file cleanup found resolved, or none: {}
    mishaps       \* ticks cut short, notifications shown but timed out

disk == <<expectation, incident, filed, archived, alert, sent>>
vars == <<past, due, disk, notified, tick, archiver, mishaps>>

TickType ==
    [pc : {"idle", "scan", "file", "alert", "deliver", "move"},
     todo : SUBSET Runs,
     run : SUBSET Runs,      \* the run at hand, as a set of at most one
     alerts : BOOLEAN]       \* whether an alert follows the incident

IdleTick == [pc |-> "idle", todo |-> {}, run |-> {}, alerts |-> FALSE]

TypeOK ==
    /\ past \in BOOLEAN
    /\ due \subseteq Runs
    /\ expectation \in [Runs -> {"none", "EXPECTED", "MALFORMED", "RETIRED"}]
    /\ incident \in [Runs -> {"none", "open", "resolved"}]
    /\ filed \in [Runs -> 0..MaxFiled]
    /\ archived \subseteq Runs
    /\ alert \subseteq Runs
    /\ sent \subseteq Runs
    /\ notified \in [Runs -> 0..(MaxFiled + MaxMishaps)]
    /\ tick \in TickType
    /\ archiver \subseteq Runs
    /\ mishaps \in 0..MaxMishaps

\* A file of an older schema may be on disk when the day begins.
Init ==
    /\ past = FALSE
    /\ due = {}
    /\ expectation \in [Runs -> {"none", "MALFORMED"}]
    /\ incident = [r \in Runs |-> "none"]
    /\ filed = [r \in Runs |-> 0]
    /\ archived = {}
    /\ alert = {}
    /\ sent = {}
    /\ notified = [r \in Runs |-> 0]
    /\ tick = IdleTick
    /\ archiver = {}
    /\ mishaps = 0

-----------------------------------------------------------------------------
(* The day: registrations, missed slots, midnight.                         *)

\* register_expected_run overwrites what is there; it is called for today
\* only, by the self-arming worker, the watchdog and the CLI.
Register(r) ==
    /\ ~past
    /\ expectation' = [expectation EXCEPT ![r] = "EXPECTED"]
    /\ UNCHANGED <<past, due, incident, filed, archived, alert, sent, notified,
                   tick, archiver, mishaps>>

BecomeDue(r) ==
    /\ due' = due \union {r}
    /\ UNCHANGED <<past, disk, notified, tick, archiver, mishaps>>

NextDay ==
    /\ past' = TRUE
    /\ UNCHANGED <<due, disk, notified, tick, archiver, mishaps>>

-----------------------------------------------------------------------------
(* The watchdog tick.                                                      *)

TickStart ==
    /\ tick.pc = "idle"
    /\ tick' = [tick EXCEPT !.pc = "scan",
                  !.todo = {r \in Runs : expectation[r] # "none"}]
    /\ UNCHANGED <<past, due, disk, notified, archiver, mishaps>>

\* scan_expected_runs: an invalid manifest is an incident without an alert,
\* a retired one is skipped, an expected one is checked against its ack.
\* Invalid is what is no JSON or another envelope; a JSON that is no object,
\* which no program here writes, would end the tick instead.
ScanRun(r) ==
    /\ tick.pc = "scan"
    /\ r \in tick.todo
    /\ tick' =
         IF \/ expectation[r] = "MALFORMED"
            \/ expectation[r] = "EXPECTED" /\ r \in due
         THEN [pc |-> "file", todo |-> tick.todo \ {r}, run |-> {r},
               alerts |-> expectation[r] = "EXPECTED"]
         ELSE [tick EXCEPT !.todo = @ \ {r}]
    /\ UNCHANGED <<past, due, disk, notified, archiver, mishaps>>

BackToScan == [tick EXCEPT !.pc = "scan", !.run = {}, !.alerts = FALSE]

MutantFileIncident ==   \* an incident that exists is written again
    /\ tick.pc = "file"
    /\ \E r \in tick.run :
         /\ incident' = [incident EXCEPT ![r] = "open"]
         /\ filed' = [filed EXCEPT ![r] = @ + 1]
         /\ tick' = IF tick.alerts THEN [tick EXCEPT !.pc = "alert"] ELSE BackToScan
    /\ UNCHANGED <<past, due, expectation, archived, alert, sent,
                   notified, archiver, mishaps>>

MutantRealert ==   \* an incident that exists is alerted again
    /\ tick.pc = "file"
    /\ \E r \in tick.run :
         IF incident[r] = "none"
         THEN /\ incident' = [incident EXCEPT ![r] = "open"]
              /\ filed' = [filed EXCEPT ![r] = @ + 1]
         ELSE UNCHANGED <<incident, filed>>
    /\ tick' = IF tick.alerts THEN [tick EXCEPT !.pc = "alert"] ELSE BackToScan
    /\ UNCHANGED <<past, due, expectation, archived, alert, sent, notified,
                   archiver, mishaps>>

\* An incident that exists is kept, resolved or not, and raises no alert.
FileIncident ==
    /\ tick.pc = "file"
    /\ \E r \in tick.run :
         IF incident[r] = "none"
         THEN /\ incident' = [incident EXCEPT ![r] = "open"]
              /\ filed' = [filed EXCEPT ![r] = @ + 1]
              /\ tick' = IF tick.alerts THEN [tick EXCEPT !.pc = "alert"]
                         ELSE BackToScan
         ELSE /\ tick' = BackToScan
              /\ UNCHANGED <<incident, filed>>
    /\ UNCHANGED <<past, due, expectation, archived, alert, sent, notified,
                   archiver, mishaps>>

FileAlert ==
    /\ tick.pc = "alert"
    /\ alert' = alert \union tick.run
    /\ tick' = BackToScan
    /\ UNCHANGED <<past, due, expectation, incident, filed, archived, sent,
                   notified, archiver, mishaps>>

DeliverStart ==
    /\ tick.pc = "scan"
    /\ tick.todo = {}
    /\ tick' = [tick EXCEPT !.pc = "deliver", !.todo = alert]
    /\ UNCHANGED <<past, due, disk, notified, archiver, mishaps>>

MutantNotifyFails(r) ==   \* an alert that could not be shown counts as sent
    /\ tick.pc = "deliver"
    /\ r \in tick.todo
    /\ tick' = [tick EXCEPT !.pc = "move", !.run = {r}]
    /\ UNCHANGED <<past, due, disk, notified, archiver, mishaps>>

\* deliver_pending_alerts: osascript, then (best effort) the phone.
Notify(r) ==
    /\ tick.pc = "deliver"
    /\ r \in tick.todo
    /\ notified' = [notified EXCEPT ![r] = @ + 1]
    /\ tick' = [tick EXCEPT !.pc = "move", !.run = {r}]
    /\ UNCHANGED <<past, due, disk, archiver, mishaps>>

\* osascript shows the alert but does not return in time (TimeoutExpired is
\* a SubprocessError): it stays for the next tick all the same.
NotifyTimesOut(r) ==
    /\ tick.pc = "deliver"
    /\ r \in tick.todo
    /\ mishaps < MaxMishaps
    /\ mishaps' = mishaps + 1
    /\ notified' = [notified EXCEPT ![r] = @ + 1]
    /\ tick' = [tick EXCEPT !.todo = @ \ {r}]
    /\ UNCHANGED <<past, due, disk, archiver>>

\* The notification failed: the alert stays for the next tick.
NotifyFails(r) ==
    /\ tick.pc = "deliver"
    /\ r \in tick.todo
    /\ tick' = [tick EXCEPT !.todo = @ \ {r}]
    /\ UNCHANGED <<past, due, disk, notified, archiver, mishaps>>

MoveAlert ==
    /\ tick.pc = "move"
    /\ alert' = alert \ tick.run
    /\ sent' = sent \union tick.run
    /\ tick' = [tick EXCEPT !.pc = "deliver", !.todo = @ \ tick.run, !.run = {}]
    /\ UNCHANGED <<past, due, expectation, incident, filed, archived, notified,
                   archiver, mishaps>>

TickEnd ==
    /\ tick.pc = "deliver"
    /\ tick.todo = {}
    /\ tick' = IdleTick
    /\ UNCHANGED <<past, due, disk, notified, archiver, mishaps>>

Crash ==
    /\ tick.pc # "idle"
    /\ mishaps < MaxMishaps
    /\ mishaps' = mishaps + 1
    /\ tick' = IdleTick
    /\ UNCHANGED <<past, due, disk, notified, archiver>>

-----------------------------------------------------------------------------
(* The owner.                                                              *)

\* resolve_incidents, or the resolution object written by hand.
Resolve(r) ==
    /\ incident[r] = "open"
    /\ incident' = [incident EXCEPT ![r] = "resolved"]
    /\ UNCHANGED <<past, due, expectation, filed, archived, alert, sent,
                   notified, tick, archiver, mishaps>>

MutantRetire(r) ==   \* today's expectations are retired too
    /\ expectation[r] = "EXPECTED"
    /\ expectation' = [expectation EXCEPT ![r] = "RETIRED"]
    /\ UNCHANGED <<past, due, incident, filed, archived, alert, sent, notified,
                   tick, archiver, mishaps>>

\* retire_expectations touches the expectations of past days only.
Retire(r) ==
    /\ past
    /\ expectation[r] = "EXPECTED"
    /\ expectation' = [expectation EXCEPT ![r] = "RETIRED"]
    /\ UNCHANGED <<past, due, incident, filed, archived, alert, sent, notified,
                   tick, archiver, mishaps>>

\* archive_resolved_incidents looks for a resolution and then moves whatever
\* file is there onto the archived record of the same name.
ArchiveCheck(r) ==
    /\ archiver = {}
    /\ incident[r] = "resolved"
    /\ filed[r] < MaxFiled
    /\ archiver' = {r}
    /\ UNCHANGED <<past, due, disk, notified, tick, mishaps>>

ArchiveMove ==
    /\ archiver # {}
    /\ incident' = [r \in Runs |-> IF r \in archiver THEN "none" ELSE incident[r]]
    /\ archived' = archived \union archiver
    /\ archiver' = {}
    /\ UNCHANGED <<past, due, expectation, filed, alert, sent, notified, tick,
                   mishaps>>

Watchdog ==
    \/ TickStart \/ FileIncident \/ FileAlert \/ DeliverStart \/ MoveAlert \/ TickEnd
    \/ \E r \in Runs : ScanRun(r) \/ Notify(r) \/ NotifyTimesOut(r) \/ NotifyFails(r)

Owner == ArchiveMove \/ \E r \in Runs : Resolve(r) \/ Retire(r) \/ ArchiveCheck(r)

Next ==
    \/ NextDay \/ Crash
    \/ \E r \in Runs : Register(r) \/ BecomeDue(r)
    \/ Watchdog
    \/ Owner

(* launchd runs the tick again and again, and no step of it waits without  *)
(* bound; a notification that is tried forever is shown in the end.  The   *)
(* owner owes nothing.                                                     *)
Fairness ==
    /\ WF_vars(Watchdog)
    /\ \A r \in Runs : SF_vars(Notify(r))

Spec == Init /\ [][Next]_vars /\ Fairness

-----------------------------------------------------------------------------
(* Properties.                                                             *)

\* An open incident is only closed by a resolution: neither the watchdog nor
\* the archiver, whose check and move are two steps, makes it vanish.
OnlyResolutionCloses ==
    [][\A r \in Runs : incident[r] = "open" =>
          incident'[r] \in {"open", "resolved"}]_vars

\* A missed run of a day that is still on is put on record before the
\* expectation can be retired, unless midnight comes first.
MissIsFiled ==
    \A r \in Runs :
        expectation[r] = "EXPECTED" /\ r \in due ~> filed[r] > 0 \/ past

\* An alert is shown before it is filed as sent, however ticks are cut short.
SentWasShown == \A r \in sent : notified[r] > 0

\* An alert that is pending is shown in the end, however often osascript
\* fails or times out and ticks are cut short.
AlertIsShown == \A r \in Runs : r \in alert ~> notified[r] > 0

\* A notification is repeated only when a tick was cut short or osascript
\* timed out with the banner on the screen (watchdog_tick.py:32-55).
RepeatsOnlyAfterMishap == \A r \in Runs : notified[r] <= filed[r] + mishaps

=============================================================================
