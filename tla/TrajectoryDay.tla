--------------------------- MODULE TrajectoryDay ---------------------------
(***************************************************************************)
(* The quote trajectories of one observation day.  Every pilot slot runs   *)
(* scripts/deterministic_slots.py run_pilot_sample: it re-quotes the       *)
(* trajectories still open, opens candidates for the qualified symbols and *)
(* watches each through its fill window, then works on the calibration     *)
(* trade.  Each step writes files; the end-of-day report adjudicates from  *)
(* the files alone (scripts/eod_report.py).  A slot may be missed, may     *)
(* fail at any probe and may be killed between any two steps.              *)
(*                                                                         *)
(* events, entry and exit are files; now, fresh and probing are the memory *)
(* of the slot that runs, which ends with it.                              *)
(*                                                                         *)
(* Simplifications: times are integers, slots are evenly spaced; a symbol  *)
(* stands for its one candidate contract, and the order of the symbols is  *)
(* that of the instrument ids; the evaluation answers any set of symbols   *)
(* (empty when not admissible) and any ranking; a price is only whether it *)
(* is known (candidate, close) or at most the limit (quote).  One slot     *)
(* runs at a time: a worker that finds the flock held when it starts skips *)
(* its slot (SlotWorker).  How long a slot lives is not known: the reaper  *)
(* asks at its own ticks and takes time to kill, so a slot may well reach  *)
(* into the time of the next ones.                                         *)
(***************************************************************************)
EXTENDS Integers, FiniteSets, FiniteSetsExt

CONSTANTS
    Symbols,        \* the universe
    LastSlot,       \* pilot slots are 0 .. LastSlot
    Spacing,        \* time between two slots (20 minutes)
    Minute,         \* one minute, the grain of _horizon_is_observable
    MaxLag,         \* a worker may start this late (180 s)
    MaxLife,        \* bound on what a slot's calls may take, from its scheduled time
    Horizon,        \* TARGET_HORIZON_MINUTES
    Window,         \* FILL_WINDOW_SECONDS
    Skew,           \* FILL_WINDOW_SKEW_SECONDS
    ProbeBudget,    \* FILL_PROBE_BUDGET_SECONDS
    ProbeCap,       \* MAX_PROBE_INSTRUMENTS
    CandidateCap,   \* MAX_CANDIDATES_PER_SLOT
    EntryLast,      \* ENTRY_LAST_SLOT of the calibration trade
    ForcedSlot,     \* FORCED_EXIT_SLOT of the calibration trade
    Hold,           \* HOLD_MINUTES of the calibration trade
    Delays,         \* durations of a call to the broker's data service
    MayFail,        \* whether slots may be missed or killed, and probes fail
    None

ASSUME TrajectoryAssumption ==
    /\ Symbols \subseteq Nat /\ IsFiniteSet(Symbols)
    /\ {LastSlot, MaxLag, MaxLife, Skew, ProbeBudget, EntryLast, ForcedSlot,
        Hold, CandidateCap, ProbeCap} \subseteq Nat
    /\ {Spacing, Minute, Horizon, Window} \subseteq Nat \ {0}
    /\ Delays \subseteq Nat \ {0}
    /\ Spacing % Minute = 0     \* slots start on a minute
    /\ MaxLag < Spacing         \* 180 < 1200 seconds
    /\ MaxLag <= MaxLife
    /\ MayFail \in BOOLEAN

VARIABLES
    slot,       \* the next slot, or the one that runs
    pc,         \* where the running slot is
    now,        \* the time the worker started, the slot's `now`
    clock,      \* the wall clock while a slot runs; else when the flock
                \* came free, if that was after the next slot was due
    fresh,      \* symbols this slot has still to open
    probing,    \* the candidate whose fill window is watched, or None
    events,     \* the files under logs/quote_trajectories/<day>
    entry,      \* the calibration trade's entry.json, or None
    exit        \* the calibration trade's exit.json, or None

slotVars == <<slot, pc, now, clock>>
calibration == <<entry, exit>>
vars == <<slot, pc, now, clock, fresh, probing, events, entry, exit>>

Slots == 0..LastSlot
Scheduled(s) == s * Spacing
Times == 0..(Scheduled(LastSlot) + MaxLife)
Kinds == {"CANDIDATE", "QUOTE", "HORIZON_CLOSE"}
Trajectories == [sym : Symbols, decided : Times]
Event == [traj : Trajectories, kind : Kinds, received : Times, good : BOOLEAN]
Entry == [slot : Slots, at : Times]
Exit == [slot : Slots, at : Times, reason : {"HORIZON", "FORCED"}]

ASSUME NoneAssumption == None \notin Event \cup Entry \cup Exit

Of(kind) == {e \in events : e.kind = kind}
EventsOf(t) == {e \in events : e.traj = t}
Opened == {e.traj : e \in Of("CANDIDATE")}
Closed == {e.traj : e \in Of("HORIZON_CLOSE")}

-----------------------------------------------------------------------------
(* The recorder: research/trajectory_recorder.py. *)

(* write_event: the file is named by trajectory, kind and time of receipt. *)
Written(new) ==
    LET Name(e) == <<e.traj, e.kind, e.received>>
    IN {e \in events : \A n \in new : Name(e) # Name(n)} \cup new

MutantTargets ==   \* closed trajectories are re-observed
    Opened

(* open_refresh_targets: every trajectory without a close. *)
Targets == Opened \ Closed

TargetKind(t) == IF now >= t.decided + Horizon THEN "HORIZON_CLOSE" ELSE "QUOTE"

(* The first ProbeCap instrument ids of the targets. *)
Probed(targets) ==
    {t \in targets : Cardinality({u \in targets : u.sym < t.sym}) < ProbeCap}

-----------------------------------------------------------------------------
Init ==
    /\ slot = 0 /\ pc = "IDLE" /\ now = 0 /\ clock = 0
    /\ fresh = {} /\ probing = None
    /\ events = {}
    /\ entry = None /\ exit = None

(* A call that takes d, while the slot lives. *)
Takes(d) ==
    /\ clock + d <= Scheduled(slot) + MaxLife
    /\ clock' = clock + d

Goto(next) == pc' = next /\ UNCHANGED <<slot, now>>

(* The slot's worker finds the flock free. *)
Start ==
    /\ pc = "IDLE" /\ slot \in Slots
    /\ \E lag \in 0..MaxLag : now' = Scheduled(slot) + lag
    /\ now' >= clock
    /\ clock' = now'
    /\ pc' = "EVALUATE"
    /\ UNCHANGED <<slot, fresh, probing, events, calibration>>

EndSlot ==
    /\ slot' = slot + 1 /\ pc' = "IDLE"
    /\ now' = 0
    /\ clock' = IF clock <= Scheduled(slot + 1) THEN 0 ELSE clock
    /\ fresh' = {} /\ probing' = None
    /\ UNCHANGED <<events, calibration>>

(* The slot never runs or finds the flock held (OVERLAP_SKIPPED); its bars *)
(* or evaluation fail (FAILED_CLOSED), or it dies between two steps: what  *)
(* it has written stays.                                                   *)
Miss ==
    /\ pc = "IDLE" /\ slot \in Slots
    /\ MayFail \/ clock > Scheduled(slot)
    /\ EndSlot
Die == MayFail /\ pc # "IDLE" /\ EndSlot

(* Steps 1 and 2; the decision is chosen where it is read, in OpenFresh and *)
(* CalibrationEnter.                                                        *)
Evaluate ==
    /\ pc = "EVALUATE"
    /\ \E d \in Delays : Takes(d)
    /\ Goto("REFRESH")
    /\ UNCHANGED <<fresh, probing, events, calibration>>

(* Step 3: one probe for the open trajectories; those it did not ask for,  *)
(* or that the answer leaves out, are passed over.  A probe that fails     *)
(* answers nothing.                                                        *)
Refresh ==
    /\ pc = "REFRESH" /\ Targets # {}
    /\ \E d \in Delays :
        /\ Takes(d)
        /\ \E answered \in IF MayFail THEN SUBSET Probed(Targets) ELSE {Probed(Targets)} :
            \E priced \in IF MayFail THEN SUBSET answered ELSE {answered} :
                events' = Written({[traj |-> t, kind |-> TargetKind(t),
                                    received |-> clock', good |-> t \in priced]
                                   : t \in answered})
    /\ Goto("OPEN")
    /\ UNCHANGED <<fresh, probing, calibration>>

RefreshNothing ==
    /\ pc = "REFRESH" /\ Targets = {}
    /\ Goto("OPEN")
    /\ UNCHANGED <<clock, fresh, probing, events, calibration>>

-----------------------------------------------------------------------------
(* Step 4: opening candidates. *)

(* _horizon_is_observable *)
Observable == (now - (now % Minute)) + Horizon <= Scheduled(LastSlot)

MutantOpenToday ==   \* only what this slot has opened itself
    {t.sym : t \in {u \in Opened : u.decided = now}}

(* symbols_open_today *)
OpenToday == {t.sym : t \in Opened}

OpenFresh ==
    /\ pc = "OPEN"
    /\ IF Observable
       THEN \E qualified \in SUBSET Symbols :
                LET unopened == qualified \ OpenToday
                    n == Min({Cardinality(unopened), CandidateCap})
                IN fresh' \in kSubset(n, unopened)
       ELSE fresh' = {}
    /\ Goto("EACH")
    /\ UNCHANGED <<clock, probing, events, calibration>>

OpenCandidate(sym) ==
    /\ pc = "EACH" /\ sym \in fresh
    /\ \E d \in Delays, priced \in IF MayFail THEN BOOLEAN ELSE {TRUE} :
        /\ Takes(d)
        /\ probing' = [traj |-> [sym |-> sym, decided |-> now], kind |-> "CANDIDATE",
                       received |-> clock', good |-> priced]
    /\ events' = Written({probing'})
    /\ fresh' = fresh \ {sym}
    /\ Goto("WINDOW")
    /\ UNCHANGED calibration

(* No label, no quoted contract near the money, or a failed snapshot. *)
SkipCandidate(sym) ==
    /\ pc = "EACH" /\ sym \in fresh
    /\ fresh' = fresh \ {sym}
    /\ UNCHANGED <<slotVars, probing, events, calibration>>

OpenDone ==
    /\ pc = "EACH" /\ fresh = {}
    /\ Goto("CALIBRATE")
    /\ UNCHANGED <<clock, fresh, probing, events, calibration>>

(* _observe_fill_window: wait, then quote once.  The answer may come after *)
(* the deadline, and is recorded all the same.                             *)
ObserveWindow ==
    LET fireAt == Max({clock, probing.received + Window - ProbeBudget})
    IN /\ pc = "WINDOW"
       /\ fireAt < probing.received + Window
       /\ \E d \in Delays, meets \in BOOLEAN :
            /\ Takes(fireAt - clock + d)
            /\ events' = Written({[traj |-> probing.traj, kind |-> "QUOTE",
                                   received |-> clock', good |-> meets]})
       /\ probing' = None
       /\ Goto("EACH")
       /\ UNCHANGED <<fresh, calibration>>

(* WINDOW_CLOSED_BEFORE_PROBE, INSTRUMENT_NOT_IN_PROBE or a failed probe. *)
WindowUnobserved ==
    /\ pc = "WINDOW" /\ MayFail
    /\ probing' = None
    /\ Goto("EACH")
    /\ UNCHANGED <<clock, fresh, events, calibration>>

-----------------------------------------------------------------------------
(* Step 5: the calibration trade, research/calibration_trade.py. *)

EntryAllowed == slot <= EntryLast

MutantExitDue ==   \* due in every slot
    {"HORIZON"}

(* exit_due: the reasons for which the trade may be closed now. *)
ExitDue ==
    CASE now - entry.at >= Hold -> {"HORIZON"}
      [] now - entry.at < Hold /\ slot = ForcedSlot -> {"FORCED"}
      [] OTHER -> {}

CalibrationEnter ==
    /\ pc = "CALIBRATE" /\ entry = None /\ EntryAllowed
    /\ \E d \in Delays : Takes(d)
    /\ entry' = [slot |-> slot, at |-> clock']
    /\ Goto("FINISH")
    /\ UNCHANGED <<fresh, probing, events, exit>>

CalibrationExit ==
    /\ pc = "CALIBRATE" /\ entry # None /\ exit = None
    /\ \E d \in Delays, reason \in ExitDue :
        /\ Takes(d)
        /\ exit' = [slot |-> slot, at |-> clock', reason |-> reason]
    /\ Goto("FINISH")
    /\ UNCHANGED <<fresh, probing, events, entry>>

(* Nothing to do, no contract qualifies, or the probe failed. *)
CalibrationSkip ==
    /\ pc = "CALIBRATE"
    /\ Goto("FINISH")
    /\ UNCHANGED <<clock, fresh, probing, events, calibration>>

Finish == pc = "FINISH" /\ EndSlot

Next ==
    \/ Start \/ Miss \/ Die \/ Evaluate \/ Refresh \/ RefreshNothing
    \/ OpenFresh \/ OpenDone \/ ObserveWindow \/ WindowUnobserved
    \/ \E sym \in Symbols : OpenCandidate(sym) \/ SkipCandidate(sym)
    \/ CalibrationEnter \/ CalibrationExit \/ CalibrationSkip \/ Finish

Spec == Init /\ [][Next]_vars

-----------------------------------------------------------------------------
(* The report: scripts/eod_report.py reconstruct_trade, from the files of  *)
(* one trajectory.  FillWindow + skew is measured from the candidate.      *)

CandidateOf(t) == CHOOSE e \in EventsOf(t) : e.kind = "CANDIDATE"

FillQuotes(t) ==
    {e \in EventsOf(t) : /\ e.kind = "QUOTE" /\ e.good
                         /\ e.received > CandidateOf(t).received
                         /\ e.received - CandidateOf(t).received <= Window + Skew}

MutantLateQuote(t) ==   \* window_expired_seen is not reset
    TRUE

LateQuote(t) ==
    \E e \in EventsOf(t) : /\ e.kind = "QUOTE"
                           /\ e.received - CandidateOf(t).received > Window + Skew

(* closes[0]: the earliest, by the order of the file names. *)
FirstClose(t) ==
    CHOOSE e \in EventsOf(t) : /\ e.kind = "HORIZON_CLOSE"
                               /\ \A f \in EventsOf(t) : f.kind = "HORIZON_CLOSE"
                                                         => e.received <= f.received

Outcome(t) ==
    CASE ~CandidateOf(t).good -> "NO_LIMIT_PRICE"
      [] CandidateOf(t).good /\ FillQuotes(t) = {} ->
            IF LateQuote(t) THEN "NO_FILL_WINDOW_EXPIRED" ELSE "NO_FILL"
      [] OTHER -> IF t \in Closed /\ FirstClose(t).good
                  THEN "FILLED_AND_EXITED" ELSE "FILLED_NO_HORIZON_CLOSE"

-----------------------------------------------------------------------------
(* Properties. *)

(* Every variable has its type. *)
TypeOK ==
    /\ slot \in 0..(LastSlot + 1)
    /\ pc \in {"IDLE", "EVALUATE", "REFRESH", "OPEN", "EACH", "WINDOW", "CALIBRATE", "FINISH"}
    /\ now \in Times /\ clock \in Times
    /\ fresh \subseteq Symbols
    /\ probing \in Event \cup {None}
    /\ (pc = "WINDOW") = (probing # None)
    /\ events \subseteq Event
    /\ entry \in Entry \cup {None}
    /\ exit \in Exit \cup {None}

(* A symbol has at most one candidate a day, whatever slots died between   *)
(* writing one and finishing (deterministic_slots.py:380-381).             *)
OneCandidatePerSymbol ==
    \A e, f \in Of("CANDIDATE") : e.traj.sym = f.traj.sym => e = f

(* A trajectory is closed at most once, at or after its horizon, and is    *)
(* never observed again (open_refresh_targets); every observation belongs  *)
(* to a candidate on disk and comes after it.                              *)
ClosedOnceAtHorizon ==
    /\ \A e, f \in Of("HORIZON_CLOSE") : e.traj = f.traj => e = f
    /\ \A e \in Of("HORIZON_CLOSE") :
        /\ e.received >= e.traj.decided + Horizon
        /\ \A f \in EventsOf(e.traj) : f.received <= e.received
    /\ \A e \in events \ Of("CANDIDATE") :
        \E c \in Of("CANDIDATE") : c.traj = e.traj /\ c.received < e.received

(* A report is final but for late quotes and closes: rebuilt at any later  *)
(* moment (watchdog, close slot), it takes no fill, no expiry and no exit  *)
(* back, and NO_FILL only turns into a fill by the slot that watches the   *)
(* candidate, or by one that starts before the candidate's window is over  *)
(* (deterministic_slots.py:347-376, eod_report.py:250-283).                *)
ReportIsStable ==
    [][\A t \in Opened :
        Outcome(t)' # Outcome(t) =>
            \/ Outcome(t) = "NO_FILL" /\ Outcome(t)' = "NO_FILL_WINDOW_EXPIRED"
            \/ Outcome(t) = "FILLED_NO_HORIZON_CLOSE" /\ Outcome(t)' = "FILLED_AND_EXITED"
            \/ /\ Outcome(t) = "NO_FILL" /\ Outcome(t)' = "FILLED_NO_HORIZON_CLOSE"
               /\ \/ pc = "WINDOW" /\ probing.traj = t
                  \/ pc = "REFRESH" /\ now <= CandidateOf(t).received + Window + Skew]_vars

(* When the day's slots are over, every trajectory has been closed:        *)
(* "A slot scheduled at the horizon does observe it: it starts after the   *)
(* minute turns and reaches the refresh step later still"                  *)
(* (deterministic_slots.py:159-160).  It does not hold: whether a refresh  *)
(* closes is decided by the time the worker started                        *)
(* (trajectory_recorder.py:321), and a candidate's horizon counts from the *)
(* time its own worker did.                                                *)
HorizonSlotCloses ==
    slot > LastSlot => Opened \subseteq Closed

(* A candidate is opened only if a slot is still to come that may see its  *)
(* horizon: every trajectory leaves a whole horizon before the last slot.  *)
OpenedCanClose ==
    \A t \in Opened : Scheduled(t.decided \div Spacing) + Horizon <= Scheduled(LastSlot)

(* The calibration trade is closed by a later slot than the one that       *)
(* entered it, after the holding time unless the exit was forced, and was  *)
(* entered no later than the last entry slot.                              *)
CalibrationRoundTrip ==
    /\ exit # None =>
        /\ entry # None /\ exit.slot > entry.slot
        /\ exit.at - entry.at >= Hold \/ exit.reason = "FORCED"
    /\ entry # None => entry.slot <= EntryLast

(* write_once: the calibration records are never overwritten by a later    *)
(* slot ("Never overwrites an entry").                                     *)
CalibrationWrittenOnce ==
    [][/\ entry # None => entry' = entry
       /\ exit # None => exit' = exit]_vars

(* The inductive invariant behind the rules above (TrajectoryDayProofs).    *)
(* The running slot started when it was due, and every file is older than  *)
(* it, or than the moment the flock comes free: what is written next is    *)
(* newer than all there is.                                                *)
FilesAreOlder ==
    /\ pc # "IDLE" =>
        /\ slot \in Slots
        /\ Scheduled(slot) <= now /\ now <= Scheduled(slot) + MaxLag
        /\ now <= clock /\ clock <= Scheduled(slot) + MaxLife
    /\ \A e \in events : e.received <= clock \/ (pc = "IDLE" /\ e.received <= Scheduled(slot))

(* A candidate was decided on as some slot started, which leaves a horizon *)
(* before the last one.                                                    *)
Fires(s, t) == Scheduled(s) <= t /\ t <= Scheduled(s) + MaxLag
Roomy(s) == Scheduled(s) + Horizon <= Scheduled(LastSlot)

FilesHaveTheirSlot ==
    \A c \in Of("CANDIDATE") : \E s \in Slots : Fires(s, c.traj.decided) /\ Roomy(s)

(* What the running slot remembers agrees with the files: a symbol to open *)
(* has none and can reach its horizon, the candidate it watches has been   *)
(* observed by nobody, and only the slot that has just entered the         *)
(* calibration trade is not a later one.                                   *)
MemoryAgrees ==
    /\ fresh \cap OpenToday = {}
    /\ fresh # {} => Roomy(slot)
    /\ pc = "WINDOW" => /\ probing \in Of("CANDIDATE")
                        /\ EventsOf(probing.traj) = {probing}
    /\ entry # None => entry.slot < slot \/ (entry.slot = slot /\ pc = "FINISH")

DayInv ==
    /\ TypeOK
    /\ FilesAreOlder
    /\ FilesHaveTheirSlot
    /\ MemoryAgrees
    /\ OneCandidatePerSymbol
    /\ ClosedOnceAtHorizon
    /\ CalibrationRoundTrip
=============================================================================
