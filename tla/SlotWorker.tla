----------------------------- MODULE SlotWorker -----------------------------
(***************************************************************************)
(* The scheduled collection slot: launchd fires a worker process for every *)
(* slot of the day (scripts/launchd_shadow_worker.py), and an independent  *)
(* watchdog ticks beside it (scripts/watchdog_tick.py).  They share only   *)
(* files and one flock:                                                    *)
(*   ack[s]      logs/scheduler/<run_id>.start.json                        *)
(*   pidrec[s]   logs/scheduler/<run_id>.pid                               *)
(*   summary[s]  <log_root>/<run_id>.json, the slot's terminal receipt     *)
(*   missed[s]   logs/incidents/<run_id>.scheduler-incident.json           *)
(*   hung[s]     logs/incidents/<run_id>-hung.scheduler-incident.json      *)
(*   lock        the exclusive flock on launchd-shadow-worker.lock         *)
(*                                                                         *)
(* Granularity: one action per file operation or system call, so a crash,  *)
(* a kill or a watchdog step can fall between any two of them.  A file     *)
(* write is atomic (temporary file and rename).                            *)
(*                                                                         *)
(* Simplifications: time is a coarse clock that keeps only the order       *)
(* Grace < Deadline < slot spacing (180 s, 780 or 1080 s, 1200 s); a run  *)
(* is named by its slot; the safety gate and the collectors answer         *)
(* nondeterministically; a recycled pid never belongs to another worker.   *)
(***************************************************************************)
EXTENDS Integers, FiniteSets

CONSTANTS
    Slots,        \* registered slots of the day
    AgentSlots,   \* the slots collected by a Claude CLI process (MARKET_GATE)
    Fires,        \* worker processes launchd starts, over all loaded jobs
    SlotOf,       \* SlotOf[f]: the slot fire f is meant for
    Sched,        \* Sched[s]: the time slot s is scheduled for
    Grace,        \* 180 s: freshness guard and start-ack grace
    Deadline,     \* Deadline[s]: time from Sched[s] until a worker is hung
    MaxTime,      \* bound on the clock
    MaxFailures,  \* bound on worker crashes and aborted watchdog ticks
    None

ASSUME SlotAssumption ==
    /\ AgentSlots \subseteq Slots
    /\ SlotOf \in [Fires -> Slots]
    /\ Sched \in [Slots -> Nat]
    /\ Grace \in Nat
    /\ Deadline \in [Slots -> Nat]
    /\ MaxTime \in Nat
    /\ MaxFailures \in Nat

PidRecord == [worker : Fires, started : Nat, child : 0..2]

ASSUME NoneAssumption ==
    /\ None \notin Slots
    /\ None \notin Fires
    /\ None \notin Nat
    /\ None \notin PidRecord

VARIABLES
    now,        \* the wall clock
    pc,         \* pc[f]: where worker f is
    firedAt,    \* firedAt[f]: the "now" main() captured, None before it
    attempt,    \* attempt[f]: CLI attempts started
    children,   \* the CLI process groups <<f, attempt>> that are alive
    lock,       \* the fire holding the flock, or None
    ack, pidrec, summary, missed, hung,
    inTime,     \* slots whose worker wrote its receipt by the deadline
    failures,   \* crashes and aborted ticks so far
    wd          \* the watchdog process: see WatchdogType

worker == <<pc, firedAt, attempt>>
files == <<ack, pidrec, summary, inTime>>
incidents == <<missed, hung>>
vars == <<now, worker, children, lock, files, incidents, failures, wd>>

Quiet == {"idle", "refused", "done", "dead"}
Holding == {"locked", "recorded", "collecting", "gated", "spawned", "running",
            "finishing", "releasing"}
Working == {"recorded", "collecting", "gated", "spawned", "running"}
WorkerState == Quiet \union {"fresh", "acked"} \union Holding

SummaryStatus == {"absent", "COMPLETED", "FAILED", "OVERLAP_SKIPPED"}
MissReason == {"none", "SCHEDULED_RUN_MISSED", "START_ACK_INVALID", "START_ACK_LATE"}
Verdicts == {"RUNNING_OK", "FINISHED_STALE", "OVERDUE_KILL",
             "DIED_NO_SUMMARY", "PID_REUSED", "INVALID_RECORD"}
HungType == {"none", "OVERDUE_KILL", "DIED_NO_SUMMARY", "PID_REUSED"}

WatchdogType ==
    [pc : {"idle", "scan", "reap", "probe", "killChild", "killWorker",
           "file", "unlink"},
     now : Nat,                       \* captured when the tick starts
     todo : SUBSET Slots,             \* pid records still to visit
     slot : Slots \union {None},      \* the pid record being reaped
     rec : PidRecord \union {None},   \* ... as it was read
     summary : BOOLEAN,               \* ... whether its summary existed
     verdict : Verdicts \union {None}]

IdleWatchdog == [pc |-> "idle", now |-> 0, todo |-> {}, slot |-> None,
                 rec |-> None, summary |-> FALSE, verdict |-> None]

TypeOK ==
    /\ now \in Nat
    /\ pc \in [Fires -> WorkerState]
    /\ firedAt \in [Fires -> Nat \union {None}]
    /\ attempt \in [Fires -> 0..2]
    /\ children \subseteq Fires \X (1..2)
    /\ lock \in Fires \union {None}
    /\ ack \in [Slots -> Nat \union {None}]
    /\ pidrec \in [Slots -> PidRecord \union {None}]
    /\ summary \in [Slots -> SummaryStatus]
    /\ missed \in [Slots -> MissReason]
    /\ hung \in [Slots -> HungType]
    /\ inTime \subseteq Slots
    /\ failures \in 0..MaxFailures
    /\ wd \in WatchdogType

Init ==
    /\ now = 0
    /\ pc = [f \in Fires |-> "idle"]
    /\ firedAt = [f \in Fires |-> None]
    /\ attempt = [f \in Fires |-> 0]
    /\ children = {}
    /\ lock = None
    /\ ack = [s \in Slots |-> None]
    /\ pidrec = [s \in Slots |-> None]
    /\ summary = [s \in Slots |-> "absent"]
    /\ missed = [s \in Slots |-> "none"]
    /\ hung = [s \in Slots |-> "none"]
    /\ inTime = {}
    /\ failures = 0
    /\ wd = IdleWatchdog

Tick ==
    /\ now < MaxTime
    /\ now' = now + 1
    /\ UNCHANGED <<worker, children, lock, files, incidents, failures, wd>>

-----------------------------------------------------------------------------
(* The worker process: main, _execute_slot, _run_agent_once.               *)

Goto(f, state) == pc' = [pc EXCEPT ![f] = state]

\* The freshness guard of _resolve_slot: 180 s either side of the slot.
Fresh(s, t) == t - Sched[s] <= Grace /\ Sched[s] - t <= Grace

\* Mutants of the worker, for the sensitivity of the runs.
MutantTryLock(f) ==   \* the flock does not exclude
    /\ pc[f] = "acked"
    /\ lock' = f
    /\ Goto(f, "locked")
    /\ UNCHANGED <<now, firedAt, attempt, children, files, incidents, failures, wd>>

MutantOverlapSkip(f) ==   \* a slot is skipped though nobody holds the flock
    /\ pc[f] = "acked"
    /\ summary' = [summary EXCEPT ![SlotOf[f]] = "OVERLAP_SKIPPED"]
    /\ Goto(f, "done")
    /\ UNCHANGED <<now, firedAt, attempt, children, lock, inTime, ack, pidrec,
                   incidents, failures, wd>>

MutantUnlinkRecord(f) ==   \* the record always goes
    /\ pc[f] = "finishing"
    /\ pidrec' = [pidrec EXCEPT ![SlotOf[f]] = None]
    /\ Goto(f, "releasing")
    /\ UNCHANGED <<now, firedAt, attempt, children, lock, inTime, ack, summary,
                   incidents, failures, wd>>

\* launchd starts the process, at the slot or (a replay after sleep) much
\* later; main() captures now and resolves the slot, or refuses.
Fire(f) ==
    /\ pc[f] = "idle"
    /\ firedAt' = [firedAt EXCEPT ![f] = now]
    /\ Goto(f, IF Fresh(SlotOf[f], now) THEN "fresh" ELSE "refused")
    /\ UNCHANGED <<now, attempt, children, lock, files, incidents, failures, wd>>

\* write_start_ack records the captured time, not the time of the write.
WriteAck(f) ==
    /\ pc[f] = "fresh"
    /\ ack' = [ack EXCEPT ![SlotOf[f]] = firedAt[f]]
    /\ Goto(f, "acked")
    /\ UNCHANGED <<now, firedAt, attempt, children, lock, inTime, pidrec, summary,
                   incidents, failures, wd>>

TryLock(f) ==
    /\ pc[f] = "acked"
    /\ lock = None
    /\ lock' = f
    /\ Goto(f, "locked")
    /\ UNCHANGED <<now, firedAt, attempt, children, files, incidents, failures, wd>>

OverlapSkip(f) ==
    /\ pc[f] = "acked"
    /\ lock # None
    /\ summary' = [summary EXCEPT ![SlotOf[f]] = "OVERLAP_SKIPPED"]
    /\ Goto(f, "done")
    /\ UNCHANGED <<now, firedAt, attempt, children, lock, inTime, ack, pidrec,
                   incidents, failures, wd>>

WriteRecord(f) ==
    /\ pc[f] = "locked"
    /\ pidrec' = [pidrec EXCEPT ![SlotOf[f]] =
                    [worker |-> f, started |-> firedAt[f], child |-> 0]]
    /\ Goto(f, "recorded")
    /\ UNCHANGED <<now, firedAt, attempt, children, lock, inTime, ack, summary,
                   incidents, failures, wd>>

\* When the worker of slot s that started at t is overdue: the deadline runs
\* from the slot's time, or from an early start.
Earliest(a, b) == IF a < b THEN a ELSE b
Due(s, t) == Earliest(t, Sched[s]) + Deadline[s]

\* The receipt is written last; the finally clause follows.
Report(f, status) ==
    /\ summary' = [summary EXCEPT ![SlotOf[f]] = status]
    /\ inTime' = IF now <= Due(SlotOf[f], firedAt[f]) THEN inTime \union {SlotOf[f]}
                 ELSE inTime
    /\ Goto(f, "finishing")
    /\ UNCHANGED <<now, firedAt, lock, ack, pidrec, incidents, failures, wd>>

\* _safety_ok is false: the slot reports SAFETY_GATE_FAILED.
SafetyGateFails(f) ==
    /\ pc[f] = "recorded"
    /\ Report(f, "FAILED")
    /\ UNCHANGED <<attempt, children>>

SafetyGatePasses(f) ==
    /\ pc[f] = "recorded"
    /\ Goto(f, IF SlotOf[f] \in AgentSlots THEN "gated" ELSE "collecting")
    /\ UNCHANGED <<now, firedAt, attempt, children, lock, files, incidents,
                   failures, wd>>

\* CANARY, PILOT_SAMPLE and CLOSE_SUMMARY collect inside this process.
Collect(f) ==
    /\ pc[f] = "collecting"
    /\ \E status \in {"COMPLETED", "FAILED"} : Report(f, status)
    /\ UNCHANGED <<attempt, children>>

\* An exception nothing catches (build_status, the prompt file, a canary
\* error other than the two kinds it retries): no receipt is written.
Raise(f) ==
    /\ pc[f] \in {"recorded", "collecting", "gated"}
    /\ Goto(f, "finishing")
    /\ UNCHANGED <<now, firedAt, attempt, children, lock, files, incidents,
                   failures, wd>>

SpawnAgent(f) ==
    /\ pc[f] = "gated"
    /\ attempt[f] < 2
    /\ attempt' = [attempt EXCEPT ![f] = @ + 1]
    /\ children' = children \union {<<f, attempt[f] + 1>>}
    /\ Goto(f, "spawned")
    /\ UNCHANGED <<now, firedAt, lock, files, incidents, failures, wd>>

\* No CLI binary, or the second Popen failed: the slot reports a failure.
\* A first Popen that fails is a fast failure and is retried.
SpawnFails(f) ==
    /\ pc[f] = "gated"
    /\ \/ /\ Report(f, "FAILED")
          /\ UNCHANGED attempt
       \/ /\ attempt[f] = 0
          /\ attempt' = [attempt EXCEPT ![f] = 1]
          /\ UNCHANGED <<now, pc, firedAt, lock, files, incidents, failures, wd>>
    /\ UNCHANGED children

\* The new group id goes into the pid record, if the record is still there.
RecordChild(f) ==
    /\ pc[f] = "spawned"
    /\ pidrec' = IF pidrec[SlotOf[f]] = None THEN pidrec
                 ELSE [pidrec EXCEPT ![SlotOf[f]].child = attempt[f]]
    /\ Goto(f, "running")
    /\ UNCHANGED <<now, firedAt, attempt, children, lock, inTime, ack, summary,
                   incidents, failures, wd>>

\* The CLI ends by itself.
ChildExits(c) ==
    /\ c \in children
    /\ children' = children \ {c}
    /\ UNCHANGED <<now, worker, lock, files, incidents, failures, wd>>

\* communicate() returned: a fast failure of attempt 1 is retried once,
\* anything else is reported.
AgentReturned(f) ==
    /\ pc[f] = "running"
    /\ <<f, attempt[f]>> \notin children
    /\ \/ \E status \in {"COMPLETED", "FAILED"} : Report(f, status)
       \/ /\ attempt[f] = 1
          /\ Goto(f, "gated")
          /\ UNCHANGED <<now, firedAt, lock, files, incidents, failures, wd>>
    /\ UNCHANGED <<attempt, children>>

\* communicate() timed out: the worker kills the group it started.
AgentTimeout(f) ==
    /\ pc[f] = "running"
    /\ <<f, attempt[f]>> \in children
    /\ children' = children \ {<<f, attempt[f]>>}
    /\ Report(f, "FAILED")
    /\ UNCHANGED attempt

\* The finally clause: the record goes only if a summary exists.
UnlinkRecord(f) ==
    /\ pc[f] = "finishing"
    /\ pidrec' = IF summary[SlotOf[f]] = "absent" THEN pidrec
                 ELSE [pidrec EXCEPT ![SlotOf[f]] = None]
    /\ Goto(f, "releasing")
    /\ UNCHANGED <<now, firedAt, attempt, children, lock, inTime, ack, summary,
                   incidents, failures, wd>>

Release(f) ==
    /\ pc[f] = "releasing"
    /\ lock' = None
    /\ Goto(f, "done")
    /\ UNCHANGED <<now, firedAt, attempt, children, files, incidents, failures, wd>>

\* The kernel drops the flock of a process that ends.
LockAfterDeathOf(f) == IF lock = f THEN None ELSE lock

Crash(f) ==
    /\ pc[f] \notin Quiet
    /\ failures < MaxFailures
    /\ failures' = failures + 1
    /\ Goto(f, "dead")
    /\ lock' = LockAfterDeathOf(f)
    /\ UNCHANGED <<now, firedAt, attempt, children, files, incidents, wd>>

Worker(f) ==
    \/ Fire(f) \/ WriteAck(f) \/ TryLock(f) \/ OverlapSkip(f) \/ WriteRecord(f)
    \/ SafetyGateFails(f) \/ SafetyGatePasses(f) \/ Collect(f) \/ Raise(f)
    \/ SpawnAgent(f) \/ SpawnFails(f) \/ RecordChild(f) \/ AgentReturned(f)
    \/ AgentTimeout(f) \/ UnlinkRecord(f) \/ Release(f)

-----------------------------------------------------------------------------
(* The watchdog tick: scan_expected_runs, then reap_overdue_workers.       *)
(* ensure_day_registered runs first, so every slot has an expectation.     *)

Alive(f) == pc[f] \notin Quiet

\* The reaper goes on to its next record, forgetting this one.
NextRecord ==
    [wd EXCEPT !.pc = "reap", !.todo = @ \ {wd.slot}, !.slot = None,
               !.rec = None, !.summary = FALSE, !.verdict = None]

\* Mutants of the watchdog.
MutantAckHealth(s, t, readable) ==   \* a missing ack stays pending
    IF ack[s] # None /\ ack[s] - Sched[s] > Grace THEN "START_ACK_LATE" ELSE "none"

MutantClassify(s, rec, summaryExists, t) ==   \* the receipt is not asked for
    IF rec = None THEN {"INVALID_RECORD"}
    ELSE IF t <= Due(s, rec.started) THEN {"RUNNING_OK"}
    ELSE IF ~Alive(rec.worker) THEN {"DIED_NO_SUMMARY", "PID_REUSED"}
    ELSE {"OVERDUE_KILL"}

MutantAfterVerdictSpares(v) ==   \* the group of a dead worker is left alone
    CASE v = "OVERDUE_KILL" -> "killChild"
      [] v \in {"DIED_NO_SUMMARY", "PID_REUSED"} -> "file"
      [] OTHER -> "unlink"

MutantReapKillWorker ==   \* the worker survives SIGTERM
    /\ wd.pc = "killWorker"
    /\ wd' = [wd EXCEPT !.pc = "file"]
    /\ UNCHANGED <<now, worker, children, lock, files, incidents, failures>>

TickStart ==
    /\ wd.pc = "idle"
    /\ wd' = [wd EXCEPT !.pc = "scan", !.now = now]
    /\ UNCHANGED <<now, worker, children, lock, files, incidents, failures>>

\* evaluate_start_ack; "none" is a valid or a still pending ack.  An ack that
\* is read has the slot's own run id and schedule: it is written whole, by the
\* slot's worker, under the name the scan looks for.
AckHealth(s, t, readable) ==
    IF ack[s] = None
    THEN IF t > Sched[s] + Grace THEN "SCHEDULED_RUN_MISSED" ELSE "none"
    ELSE IF ~readable THEN "START_ACK_INVALID"
    ELSE IF ack[s] - Sched[s] > Grace THEN "START_ACK_LATE" ELSE "none"

\* check_expected_run for every slot: an incident that exists is never
\* rewritten.  Reading an ack may fail, which counts as a failure.  Then the
\* reaper lists the pid records, glob("*.pid").
Scan ==
    /\ wd.pc = "scan"
    /\ \E unread \in {{}} \union {{s} : s \in Slots} :
         /\ failures' = failures + Cardinality(unread)
         /\ failures' <= MaxFailures
         /\ missed' = [s \in Slots |->
                         IF missed[s] = "none" THEN AckHealth(s, wd.now, s \notin unread)
                         ELSE missed[s]]
    /\ wd' = [wd EXCEPT !.pc = "reap", !.todo = {s \in Slots : pidrec[s] # None}]
    /\ UNCHANGED <<now, worker, children, lock, files, hung>>

\* The record (gone since the glob: an empty one) and whether its summary
\* exists are read before the process is probed.
ReapRead(s) ==
    /\ wd.pc = "reap"
    /\ s \in wd.todo
    /\ wd' = [wd EXCEPT !.pc = "probe", !.slot = s, !.rec = pidrec[s],
                !.summary = pidrec[s] # None /\ summary[s] # "absent"]
    /\ UNCHANGED <<now, worker, children, lock, files, incidents, failures>>

\* classify_worker; a dead worker's pid may meanwhile be someone else's.
Classify(s, rec, summaryExists, t) ==
    IF rec = None THEN {"INVALID_RECORD"}
    ELSE IF summaryExists THEN {"FINISHED_STALE"}
    ELSE IF t <= Due(s, rec.started) THEN {"RUNNING_OK"}
    ELSE IF ~Alive(rec.worker) THEN {"DIED_NO_SUMMARY", "PID_REUSED"}
    ELSE {"OVERDUE_KILL"}

AfterVerdict(v) ==
    CASE v \in {"OVERDUE_KILL", "DIED_NO_SUMMARY"} -> "killChild"
      [] v = "PID_REUSED" -> "file"
      [] OTHER -> "unlink"

ReapProbe ==
    /\ wd.pc = "probe"
    /\ \E v \in Classify(wd.slot, wd.rec, wd.summary, wd.now) :
         wd' = IF v = "RUNNING_OK" THEN NextRecord
               ELSE [wd EXCEPT !.pc = AfterVerdict(v), !.verdict = v]
    /\ UNCHANGED <<now, worker, children, lock, files, incidents, failures>>

\* _kill_child_group kills the group named in the record it read.
ReapKillChild ==
    /\ wd.pc = "killChild"
    /\ children' = children \ {<<wd.rec.worker, wd.rec.child>>}
    /\ wd' = [wd EXCEPT !.pc =
                IF wd.verdict = "OVERDUE_KILL" THEN "killWorker" ELSE "file"]
    /\ UNCHANGED <<now, worker, lock, files, incidents, failures>>

ReapKillWorker ==
    /\ wd.pc = "killWorker"
    /\ LET f == wd.rec.worker IN
         IF Alive(f)
         THEN Goto(f, "dead") /\ lock' = LockAfterDeathOf(f)
         ELSE UNCHANGED <<pc, lock>>
    /\ wd' = [wd EXCEPT !.pc = "file"]
    /\ UNCHANGED <<now, firedAt, attempt, children, files, incidents, failures>>

\* _file_incident: the first incident of a run is kept.
ReapFile ==
    /\ wd.pc = "file"
    /\ hung' = [hung EXCEPT ![wd.slot] = IF @ = "none" THEN wd.verdict ELSE @]
    /\ wd' = [wd EXCEPT !.pc = "unlink"]
    /\ UNCHANGED <<now, worker, children, lock, files, missed, failures>>

ReapUnlink ==
    /\ wd.pc = "unlink"
    /\ pidrec' = [pidrec EXCEPT ![wd.slot] = None]
    /\ wd' = NextRecord
    /\ UNCHANGED <<now, worker, children, lock, inTime, ack, summary, incidents, failures>>

TickEnd ==
    /\ wd.pc = "reap"
    /\ wd.todo = {}
    /\ wd' = IdleWatchdog
    /\ UNCHANGED <<now, worker, children, lock, files, incidents, failures>>

\* The tick is killed, or ps runs into its timeout and the exception ends it.
TickAborts ==
    /\ wd.pc # "idle"
    /\ failures < MaxFailures
    /\ failures' = failures + 1
    /\ wd' = IdleWatchdog
    /\ UNCHANGED <<now, worker, children, lock, files, incidents>>

Watchdog ==
    \/ TickStart \/ Scan \/ (\E s \in Slots : ReapRead(s)) \/ ReapProbe
    \/ ReapKillChild \/ ReapKillWorker \/ ReapFile \/ ReapUnlink \/ TickEnd

Next ==
    \/ Tick
    \/ \E f \in Fires : Worker(f) \/ Crash(f)
    \/ \E c \in children : ChildExits(c)
    \/ Watchdog
    \/ TickAborts

(***************************************************************************)
(* Fairness.  launchd runs the watchdog every 60 s, and its steps have no  *)
(* unbounded wait.  The few worker steps that only touch local files are   *)
(* not blocked either.  Nothing is assumed of the steps that collect: they *)
(* may hang forever, which is what the reaper is for.                      *)
(***************************************************************************)
Fairness ==
    /\ WF_vars(Tick)
    /\ WF_vars(Watchdog)
    /\ \A f \in Fires :
         /\ WF_vars(WriteRecord(f))
         /\ WF_vars(UnlinkRecord(f))
         /\ WF_vars(Release(f))

Spec == Init /\ [][Next]_vars /\ Fairness

-----------------------------------------------------------------------------
(* Properties.  The first group holds when every slot has one fire; the    *)
(* second is what comments in the code say, and is refuted.                *)

OneFirePerSlot == \A f, g \in Fires : SlotOf[f] = SlotOf[g] => f = g

SlotHasRecord(f) ==
    /\ pidrec[SlotOf[f]] # None
    /\ pidrec[SlotOf[f]].worker = f

\* A worker that holds the flock and is collecting without a receipt yet has
\* its pid record on disk, whatever the reaper did in between: a hang there
\* can always be found (worker_reaper.py, "PID record for its whole
\* lifetime").
RecordGuardsLock ==
    \A f \in Fires : lock = f /\ pc[f] \in Working => SlotHasRecord(f)

\* When a hung-worker incident is on file its slot's workers do not hold the
\* flock, as the alert tells the owner (_file_incident).
IncidentMeansLockFree ==
    \A f \in Fires : hung[SlotOf[f]] # "none" => lock # f

\* A slot that reported by its deadline is never reported hung or dead, and
\* DIED_NO_SUMMARY and PID_REUSED are only filed of a worker that has ended
\* (classify_worker, over a summary and a process read at different times).
DeathIsReal ==
    \A f \in Fires :
        /\ hung[SlotOf[f]] # "none" => SlotOf[f] \notin inTime
        /\ hung[SlotOf[f]] \in {"DIED_NO_SUMMARY", "PID_REUSED"} => ~Alive(f)

\* No record is dropped, by worker or reaper, while its slot has neither a
\* receipt nor an incident (the comments on the finally clause of main()).
RecordOutlivesOutcome ==
    [][\A s \in Slots : pidrec[s] # None /\ pidrec'[s] = None =>
          summary[s] # "absent" \/ hung[s] # "none"]_vars

\* A slot whose worker recorded itself ends in a receipt or an incident,
\* however its worker stops.
RecordedSlotResolved ==
    \A s \in Slots :
        pidrec[s] # None ~> summary[s] # "absent" \/ hung[s] # "none"

\* A CLI group that outlives its worker and is named in the pid record when
\* no tick is under way does not live forever: a later tick kills it, unless
\* the worker's pid was recycled (the reaper then leaves the group alone).
RecordedOrphanDies ==
    \A f \in Fires : \A k \in 1..2 :
        (/\ pc[f] = "dead" /\ wd.pc = "idle"
         /\ <<f, k>> \in children
         /\ SlotHasRecord(f) /\ pidrec[SlotOf[f]].child = k)
            ~> <<f, k>> \notin children \/ wd.verdict = "PID_REUSED"

\* A slot nobody acknowledged in time is flagged, also when its fire was
\* refused or never came.
UnackedSlotFlagged ==
    \A s \in Slots : <>(ack[s] # None \/ missed[s] # "none")

\* The inductive invariant behind the first four: what each state of a
\* worker means for its slot's files, and what the reaper knows while it
\* acts on a record it has read.
Unstarted == {"idle", "refused", "fresh", "acked", "locked"}
Past(f) == pc[f] \in {"finishing", "releasing", "done", "dead"}

WorkerFiles ==
    \A f \in Fires :
        /\ pc[f] \in Holding <=> lock = f
        /\ pc[f] \in Working =>
             SlotHasRecord(f) /\ summary[SlotOf[f]] = "absent"
        /\ pc[f] \in Unstarted =>
             /\ pidrec[SlotOf[f]] = None
             /\ summary[SlotOf[f]] = "absent"
        /\ pc[f] \in {"fresh", "acked", "locked"} => firedAt[f] \in Nat
        /\ hung[SlotOf[f]] # "none" => pc[f] \in {"done", "dead"}

RecordsNameTheirSlot ==
    \A s \in Slots : pidrec[s] # None =>
        SlotOf[pidrec[s].worker] = s /\ pidrec[s].started = firedAt[pidrec[s].worker]

Acting == {"killChild", "killWorker", "file", "unlink"}

ReaderKnows ==
    /\ wd.pc \in Acting \union {"probe"} => wd.slot \in wd.todo
    /\ \A s \in wd.todo : \A f \in Fires : SlotOf[f] = s => pc[f] \notin Unstarted
    /\ wd.rec # None => SlotOf[wd.rec.worker] = wd.slot
    /\ wd.summary => wd.rec # None /\ summary[wd.slot] # "absent"
    /\ wd.pc \in Acting \union {"probe"} /\ wd.rec = None =>
         /\ pidrec[wd.slot] = None
         /\ \A f \in Fires : SlotOf[f] = wd.slot => Past(f)

VerdictKnows ==
    wd.pc \in Acting =>
        /\ wd.verdict \in Verdicts \ {"RUNNING_OK"}
        /\ wd.verdict = "INVALID_RECORD" => wd.pc = "unlink" /\ wd.rec = None
        /\ wd.verdict = "FINISHED_STALE" => wd.pc = "unlink" /\ wd.summary
        /\ wd.verdict \in HungType => wd.rec # None
        /\ wd.verdict \in {"DIED_NO_SUMMARY", "PID_REUSED"} =>
             pc[wd.rec.worker] \in {"done", "dead"}
        /\ wd.verdict = "OVERDUE_KILL" /\ wd.pc \in {"file", "unlink"} =>
             pc[wd.rec.worker] \in {"done", "dead"}
        /\ wd.pc = "unlink" /\ wd.verdict \in HungType => hung[wd.slot] # "none"

\* What reported in time was on disk before a tick could find it overdue: such
\* a tick started later and read the receipt.
InTimeKnows ==
    /\ \A s \in inTime : summary[s] # "absent" /\ hung[s] = "none"
    /\ wd.now <= now
    /\ wd.pc \in Acting \union {"probe"} /\ wd.rec # None =>
         wd.rec.started = firedAt[wd.rec.worker]
    /\ wd.pc \in Acting \union {"probe"} /\ wd.rec # None /\ ~wd.summary
         /\ wd.slot \in inTime => wd.now <= Due(wd.slot, wd.rec.started)
    /\ wd.pc \in Acting /\ wd.verdict \in HungType =>
         wd.slot \notin inTime /\ wd.now > Due(wd.slot, wd.rec.started)

IInv ==
    /\ TypeOK
    /\ WorkerFiles
    /\ RecordsNameTheirSlot
    /\ ReaderKnows
    /\ VerdictKnows
    /\ InTimeKnows

SlotOfLock == IF lock = None THEN None ELSE SlotOf[lock]

OutcomeOf ==
    [s \in Slots |->
        CASE summary[s] = "OVERLAP_SKIPPED" -> "skipped"
          [] summary[s] \in {"COMPLETED", "FAILED"} -> "reported"
          [] summary[s] = "absent" /\ hung[s] # "none" -> "lost"
          [] OTHER -> "open"]

Ledger == INSTANCE SlotLedger WITH
            Nobody <- None, collecting <- SlotOfLock, outcome <- OutcomeOf

\* Every step of workers, flock, receipts and reaper is a step of the ledger:
\* one slot collects at a time, a slot gets one outcome and keeps it.
LedgerSteps == Ledger!Steps

\* The scheduler implements the ledger, its fairness included: the flock is
\* always given back.
ImplementsLedger == Ledger!Spec

\* DIED_NO_SUMMARY is "overdue, process gone, no summary - crashed hard"
\* (worker_reaper.py:40), and its alert says that the sample is lost: no such
\* incident stands beside a COMPLETED receipt.
DiedMeansSampleLost ==
    \A s \in Slots : hung[s] = "DIED_NO_SUMMARY" => summary[s] # "COMPLETED"

\* launchd_shadow_worker.py: a crash between ack and summary does not stay
\* invisible, the reaper files WORKER_DIED_NO_SUMMARY.
CrashAfterAckReported ==
    \A s \in Slots :
        ack[s] # None ~> summary[s] # "absent" \/ hung[s] # "none"

=============================================================================
