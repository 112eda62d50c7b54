--------------------------- MODULE ObservationDay ---------------------------
(***************************************************************************)
(* Who starts the slots of a day and who notices the ones nobody started.  *)
(* launchd fires the self-arming job at every slot time of every day       *)
(* (scripts/self_arming_worker.py); the job looks at the market calendar,  *)
(* registers the day's expectations and starts the worker of the nearest   *)
(* slot.  The watchdog tick registers the day too, then scans all          *)
(* expectations (scripts/watchdog_tick.py); the observer derives the same  *)
(* picture from the start acks (monitoring/collection_observer.py).        *)
(*                                                                         *)
(* The owner may also prepare a day by hand: that registers it and renders *)
(* a plist pinned to its date, from which launchd starts the worker of     *)
(* that day's slots itself, without the job and its calendar.              *)
(*                                                                         *)
(* Any step may be late: a sleeping Mac is a process that does not step    *)
(* while the clock goes on.  launchd owes the job one run, however many    *)
(* slot times passed meanwhile, and never runs it twice at a time.         *)
(*                                                                         *)
(* Simplifications: a day has TimesOfDay units, a run is its day and its   *)
(* slot's time of day; which days are open or close early is a constant;   *)
(* what the worker does once it has acknowledged is SlotWorker's, what     *)
(* becomes of an incident IncidentLifecycle's.  A registration writes one  *)
(* file per slot, in order, and may be cut short.                          *)
(***************************************************************************)
EXTENDS Integers

CONSTANTS
    LastDay,      \* the days are numbered from 0
    Open,         \* days on which the market trades
    Early,        \* ... on which it closes early
    TimesOfDay,   \* units of time in a day
    Slots,        \* DAILY_SLOTS: times of day
    Cutoff,       \* early close, 10:00 in the session's time zone
    Match,        \* SLOT_MATCH_WINDOW_SECONDS, 300
    Guard,        \* the worker's freshness guard, 180 s
    Grace,        \* START_ACK_GRACE_SECONDS, 180
    MaxStart,     \* longest time from the plan of a fire to its worker
    Prepared,     \* days the owner may prepare by hand
    MaxCrashes,   \* bound on registrations cut short
    None

Days == 0..LastDay

ASSUME DayAssumption ==
    /\ LastDay \in Nat
    /\ Early \subseteq Open /\ Open \subseteq Days
    /\ Prepared \subseteq Days
    /\ TimesOfDay \in Nat \ {0}
    /\ Slots \subseteq 0..(TimesOfDay - 1)
    /\ {Cutoff, Match, Guard, Grace, MaxStart, MaxCrashes} \subseteq Nat
    /\ \A s \in Slots : s + Match + MaxStart < TimesOfDay

VARIABLES
    now,        \* the wall clock
    owed,       \* launchd owes the self-arming job a run
    job,        \* the self-arming job: its plan
    tick,       \* the watchdog tick and the `now` it captured
    expected,   \* logs/scheduler/expected: runs registered
    acked,      \* logs/scheduler/<run>.start.json
    missed,     \* logs/incidents/<run>.scheduler-incident.json
    plists,     \* days a worker plist has been pinned to; launchd may have
                \* loaded any of them, by hand or at a login
    due,        \* launchd owes a pinned worker a run
    checked,    \* the `now` of the last scan, or None
    crashes

files == <<expected, acked, missed>>
pinned == <<plists, due>>
vars == <<now, owed, job, tick, files, pinned, checked, crashes>>

Runs == [day : Days, slot : Slots]
Times == 0..(((LastDay + 1) * TimesOfDay) - 1)
Day(t) == t \div TimesOfDay
TimeOfDay(t) == t % TimesOfDay
Scheduled(r) == r.day * TimesOfDay + r.slot
Distance(a, b) == IF a < b THEN b - a ELSE a - b

Job == [pc : {"planned", "registered", "collecting"}, at : Times, slot : Slots]
Tick == [pc : {"register", "scan"}, now : Times]

ASSUME NoneAssumption == None \notin Nat /\ None \notin Job /\ None \notin Tick

\* expected_runs_for_date: every slot of the table, whatever the day.
ExpectedRuns(d) == {r \in Runs : r.day = d}

Init ==
    /\ now = 0 /\ owed = FALSE
    /\ job = None /\ tick = None
    /\ expected = {} /\ acked = {} /\ missed = {}
    /\ plists = {} /\ due = FALSE
    /\ checked = None /\ crashes = 0

\* Time goes on; at a slot time launchd owes the job a run, and the worker
\* one if it has loaded the plist pinned to this day.
Pass ==
    /\ now + 1 \in Times
    /\ job # None /\ job.pc # "collecting" => now < job.at + MaxStart
    /\ now' = now + 1
    /\ owed' = (owed \/ TimeOfDay(now') \in Slots)
    /\ \/ UNCHANGED due
       \/ TimeOfDay(now') \in Slots /\ Day(now') \in plists /\ due' = TRUE
    /\ UNCHANGED <<job, tick, files, plists, checked, crashes>>

-----------------------------------------------------------------------------
(* The self-arming job.                                                    *)

\* s is the slot nearest to the time of day t, the earlier one of two.
Nearest(s, t) ==
    \A u \in Slots \ {s} :
        \/ Distance(s, t) < Distance(u, t)
        \/ Distance(s, t) = Distance(u, t) /\ s < u

MarketAllows(t) ==
    Day(t) \in Open /\ ~(Day(t) \in Early /\ TimeOfDay(t) >= Cutoff)

\* plan_fire: the slot a fire is for, none if it is refused.
PlanFire(t) ==
    {s \in Slots :
        /\ MarketAllows(t)
        /\ Nearest(s, TimeOfDay(t))
        /\ Distance(s, TimeOfDay(t)) <= Match}

\* launchd starts the job, at the slot time or as late as it likes.
Fire ==
    /\ owed /\ job = None
    /\ owed' = FALSE
    /\ \/ /\ PlanFire(now) = {}
          /\ UNCHANGED job
       \/ \E s \in PlanFire(now) : job' = [pc |-> "planned", at |-> now, slot |-> s]
    /\ UNCHANGED <<now, tick, files, pinned, checked, crashes>>

\* The expectations of a day, or those of its first slots.
Register(d) == expected' = expected \cup ExpectedRuns(d)
RegisterUpTo(d, s) == expected' = expected \cup {r \in ExpectedRuns(d) : r.slot < s}

JobRegisters ==
    /\ job # None /\ job.pc = "planned"
    /\ Register(Day(job.at))
    /\ job' = [job EXCEPT !.pc = "registered"]
    /\ UNCHANGED <<now, owed, tick, acked, missed, pinned, checked, crashes>>

MutantWorkerAcks ==   \* delegates before it registers
    /\ job # None /\ job.pc = "planned"
    /\ Distance(job.slot, TimeOfDay(now)) <= Guard
    /\ acked' = acked \cup {[day |-> Day(now), slot |-> job.slot]}
    /\ job' = [job EXCEPT !.pc = "collecting"]
    /\ UNCHANGED <<now, owed, tick, expected, missed, pinned, checked, crashes>>

\* The worker takes the time again and refuses a slot more than Guard away;
\* it does not look at the calendar.
WorkerAcks ==
    /\ job # None /\ job.pc = "registered"
    /\ Distance(job.slot, TimeOfDay(now)) <= Guard
    /\ acked' = acked \cup {[day |-> Day(now), slot |-> job.slot]}
    /\ job' = [job EXCEPT !.pc = "collecting"]
    /\ UNCHANGED <<now, owed, tick, expected, missed, pinned, checked, crashes>>

WorkerRefuses ==
    /\ job # None /\ job.pc = "registered"
    /\ Distance(job.slot, TimeOfDay(now)) > Guard
    /\ job' = None
    /\ UNCHANGED <<now, owed, tick, files, pinned, checked, crashes>>

JobEnds ==
    /\ job # None /\ job.pc = "collecting"
    /\ job' = None
    /\ UNCHANGED <<now, owed, tick, files, pinned, checked, crashes>>

JobDies ==
    /\ job # None /\ job.pc # "collecting" /\ crashes < MaxCrashes
    /\ crashes' = crashes + 1
    /\ \/ UNCHANGED expected
       \/ job.pc = "planned" /\ \E s \in Slots : RegisterUpTo(Day(job.at), s)
    /\ job' = None
    /\ UNCHANGED <<now, owed, tick, acked, missed, pinned, checked>>

-----------------------------------------------------------------------------
(* The watchdog tick.                                                      *)

TickStart ==
    /\ tick = None
    /\ tick' = [pc |-> "register", now |-> now]
    /\ UNCHANGED <<now, owed, job, files, pinned, checked, crashes>>

MutantEnsureDayRegistered ==   \* only the slots still to come
    /\ tick # None /\ tick.pc = "register"
    /\ IF Day(tick.now) \in Open
       THEN expected' = expected \cup
                {r \in ExpectedRuns(Day(tick.now)) : Scheduled(r) >= tick.now}
       ELSE UNCHANGED expected
    /\ tick' = [tick EXCEPT !.pc = "scan"]
    /\ UNCHANGED <<now, owed, job, acked, missed, pinned, checked, crashes>>

\* ensure_day_registered
EnsureDayRegistered ==
    /\ tick # None /\ tick.pc = "register"
    /\ IF Day(tick.now) \in Open THEN Register(Day(tick.now)) ELSE UNCHANGED expected
    /\ tick' = [tick EXCEPT !.pc = "scan"]
    /\ UNCHANGED <<now, owed, job, acked, missed, pinned, checked, crashes>>

MutantScan ==   \* the expectations of today only
    /\ tick # None /\ tick.pc = "scan"
    /\ missed' = missed \cup
            {r \in ExpectedRuns(Day(tick.now)) \cap (expected \ acked) :
                tick.now > Scheduled(r) + Grace}
    /\ checked' = tick.now
    /\ tick' = None
    /\ UNCHANGED <<now, owed, job, expected, acked, pinned, crashes>>

\* scan_expected_runs: expectations of any day, the start ack absent.
Scan ==
    /\ tick # None /\ tick.pc = "scan"
    /\ missed' = missed \cup
            {r \in expected \ acked : tick.now > Scheduled(r) + Grace}
    /\ checked' = tick.now
    /\ tick' = None
    /\ UNCHANGED <<now, owed, job, expected, acked, pinned, crashes>>

TickDies ==
    /\ tick # None /\ crashes < MaxCrashes
    /\ crashes' = crashes + 1
    /\ \/ UNCHANGED expected
       \/ /\ tick.pc = "register" /\ Day(tick.now) \in Open
          /\ \E s \in Slots : RegisterUpTo(Day(tick.now), s)
    /\ tick' = None
    /\ UNCHANGED <<now, owed, job, acked, missed, pinned, checked>>

-----------------------------------------------------------------------------
(* The owner prepares a day to come; nothing here asks the calendar.       *)

\* scripts/prepare_observation_day.py pins the worker's plist to the day,
\* then registers it; main.py scheduler-expect-day only registers.
Prepare(d) ==
    /\ d \in Prepared /\ d >= Day(now)
    /\ plists' \in {plists, plists \cup {d}}
    /\ Register(d)
    /\ UNCHANGED <<now, owed, job, tick, acked, missed, due, checked, crashes>>

\* The script dies with the plist on disk, before the last registration.
PrepareCut(d) ==
    /\ d \in Prepared /\ d >= Day(now) /\ crashes < MaxCrashes
    /\ crashes' = crashes + 1
    /\ plists' = plists \cup {d}
    /\ \E s \in Slots : RegisterUpTo(d, s)
    /\ UNCHANGED <<now, owed, job, tick, acked, missed, due, checked>>

\* The worker finds the slot itself: the nearest one of today, whatever day
\* its plist is pinned to.
PinnedSlot(t) ==
    {s \in Slots : Nearest(s, TimeOfDay(t)) /\ Distance(s, TimeOfDay(t)) <= Guard}

\* launchd starts the pinned worker, after a sleep on whatever day that is;
\* it acknowledges its slot or refuses.
PinnedFires ==
    /\ due /\ due' = FALSE
    /\ acked' = acked \cup {[day |-> Day(now), slot |-> s] : s \in PinnedSlot(now)}
    /\ UNCHANGED <<now, owed, job, tick, expected, missed, plists, checked, crashes>>

Watchdog == TickStart \/ EnsureDayRegistered \/ Scan
Start == JobRegisters \/ WorkerAcks \/ WorkerRefuses

Next ==
    \/ Pass
    \/ Fire \/ JobRegisters \/ WorkerAcks \/ WorkerRefuses \/ JobEnds \/ JobDies
    \/ Watchdog \/ TickDies
    \/ \E d \in Prepared : Prepare(d) \/ PrepareCut(d)
    \/ PinnedFires

\* launchd runs the tick every 60 s; the clock goes on; a planned job comes
\* to its worker.  launchd may defer the job itself for ever.
Spec == Init /\ [][Next]_vars /\ WF_vars(Pass) /\ WF_vars(Watchdog) /\ WF_vars(Start)

-----------------------------------------------------------------------------
(* Properties.                                                             *)

\* Type correctness; a planned slot is near the fire, no clock reading is
\* ahead of the clock.
TypeOK ==
    /\ now \in Times /\ owed \in BOOLEAN
    /\ job \in Job \cup {None} /\ tick \in Tick \cup {None}
    /\ expected \subseteq Runs /\ acked \subseteq Runs /\ missed \subseteq Runs
    /\ plists \subseteq Prepared /\ due \in BOOLEAN
    /\ checked \in Times \cup {None} /\ crashes \in 0..MaxCrashes
    /\ job # None => job.at <= now /\ Distance(job.slot, TimeOfDay(job.at)) <= Match
    /\ tick # None => tick.now <= now
    /\ checked # None => checked <= now

\* observe_collection: what the observer shows of a run at the time t.
ObserverState(r, t) ==
    IF r \in acked THEN "RAN"
    ELSE IF t > Scheduled(r) + Grace THEN "MISSED" ELSE "PENDING"

\* A slot the observer shows as missed is a miss the last scan has filed,
\* whoever registered the day, however late, and whoever died doing it
\* (ensure_day_registered before scan_expected_runs in watchdog_tick).
MissesOnRecord ==
    checked # None /\ Day(checked) \in Open =>
        \A r \in ExpectedRuns(Day(checked)) :
            ObserverState(r, checked) = "MISSED" => r \in missed

\* What the job started was expected and on a day the market trades; any
\* other run is the worker of a plist pinned to that day, closed or not, and
\* expected unless the script that pinned it was cut short, or of a plist
\* pinned to an earlier day, replayed after a sleep
\* (register_todays_expectations before the worker starts; prepare).
RunIsExpected ==
    \A r \in acked :
        \/ r \in expected /\ r.day \in Open
        \/ r.day \in plists /\ (r \in expected \/ crashes > 0)
        \/ \E d \in plists : d < r.day

\* The inductive invariant behind the two (ObservationDayProofs).  A job is
\* for a day the market trades, has registered all of it before it delegates,
\* and comes to its worker on that day.
JobKnows ==
    job # None =>
        /\ Day(job.at) \in Open
        /\ job.pc = "registered" => ExpectedRuns(Day(job.at)) \subseteq expected
        /\ job.pc # "collecting" => now <= job.at + MaxStart

\* A tick has registered the day of its `now` before it scans.
TickKnows ==
    tick # None /\ tick.pc = "scan" /\ Day(tick.now) \in Open =>
        ExpectedRuns(Day(tick.now)) \subseteq expected

\* A pinned day has all its expectations unless its script was cut short,
\* and launchd owes a pinned worker nothing before its first pinned day.
PinsAreKnown ==
    /\ \A d \in plists : ExpectedRuns(d) \subseteq expected \/ crashes > 0
    /\ due => \E d \in plists : d <= Day(now)

DayInv ==
    /\ TypeOK
    /\ JobKnows
    /\ TickKnows
    /\ PinsAreKnown
    /\ MissesOnRecord
    /\ RunIsExpected

\* Every run anybody expected is acknowledged or filed as missed in the end,
\* also when the Mac slept from its slot into another day.
ExpectedIsResolved ==
    \A r \in Runs : r \in expected ~> r \in acked \cup missed
=============================================================================
