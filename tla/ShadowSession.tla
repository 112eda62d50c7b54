--------------------------- MODULE ShadowSession ---------------------------
(***************************************************************************)
(* One read-only shadow session: a process (main.py shadow-replay or       *)
(* shadow-evaluate) drives a ShadowSessionController, which passes every   *)
(* sample through the gate of its channel and hands the accepted ones to   *)
(* the ShadowRunner; the runner simulates one option position and appends  *)
(* every event to a journal file (journal/shadow_recorder.py).  The        *)
(* process may die between any two steps, or in the middle of writing a    *)
(* line; afterwards the daily review and the experiment report read what   *)
(* is on disk and nothing else.                                            *)
(*                                                                         *)
(* log is durable; every other variable is the memory of the process.      *)
(*                                                                         *)
(* Simplifications: the decision chain answers nondeterministically; a     *)
(* sample is its id, its source time and the time it was received; times   *)
(* are integers whose unit is a part of the 10 second staleness limit;     *)
(* the reasons given for a refusal or an exit are left out.                *)
(***************************************************************************)
EXTENDS ShadowReview

CONSTANTS
    SampleIds,     \* non-empty sample ids
    MaxAge,        \* 10 s: a sample older than this is stale
    Skew,          \* 2 s: a sample may be this far ahead of its receipt
    MaxHold,       \* 60 minutes: longest holding time of a position
    MaxTime,       \* bound on the times of the samples
    Limits,        \* limit prices the decision chain proposes
    Asks,          \* observed asks
    Marks,         \* observed marks
    Missing,       \* a value the source did not deliver
    None

ASSUME SessionAssumption ==
    /\ MaxAge \in Nat /\ Skew \in Nat /\ MaxHold \in Nat /\ MaxTime \in Nat
    /\ Limits \subseteq Nat \ {0}
    /\ Asks \subseteq Nat
    /\ Marks \subseteq Nat
    /\ Missing \notin Nat
    /\ None \notin Nat

VARIABLES
    pc,         \* where the driving process is
    caller,     \* "replay" or "oneshot"
    pilot,      \* pilot_mode
    state,      \* recorder.state
    sequence,   \* recorder.sequence
    pending,    \* runner.pending_limit_price
    fill,       \* runner.entry_fill_price
    filledAt,   \* runner.entry_filled_at
    gates,      \* gates[c]: ids seen and last source time of channel c
    log         \* the session's journal file

run == <<pc, caller, pilot>>
recorder == <<state, sequence, log>>
position == <<pending, fill, filledAt>>
vars == <<run, recorder, position, gates>>

Times == 0..MaxTime
Channels == {"DECISION", "ENTRY_QUOTE", "POSITION_QUOTE"}
SessionStates == {"NEW", "OBSERVING", "ENTRY_PENDING", "POSITION_OPEN", "COMPLETE",
           "ERROR"}
Ended == {"done", "raised", "crashed"}
Blank == "blank"   \* a sample without an id

Sample == [id : SampleIds \union {Blank}, src : Times \union {Missing},
           recv : Times]

-----------------------------------------------------------------------------
(* The recorder.                                                           *)

\* Mutant: a filled entry is taken for a finished session.
MutantTransitions ==
    [NEW |-> [SESSION_STARTED |-> "OBSERVING", SESSION_ERROR |-> "ERROR"],
     OBSERVING |-> [DECISION_RECORDED |-> "OBSERVING",
                    ENTRY_WORKING |-> "ENTRY_PENDING",
                    SESSION_COMPLETED |-> "COMPLETE",
                    SESSION_ERROR |-> "ERROR"],
     ENTRY_PENDING |-> [ENTRY_FILLED |-> "COMPLETE",
                        ENTRY_UNFILLED |-> "COMPLETE",
                        SESSION_ERROR |-> "ERROR"],
     POSITION_OPEN |-> [POSITION_SNAPSHOT |-> "POSITION_OPEN",
                        EXITED |-> "COMPLETE",
                        SESSION_ERROR |-> "ERROR"],
     COMPLETE |-> <<>>,
     ERROR |-> <<>>]

Transitions ==
    [NEW |-> [SESSION_STARTED |-> "OBSERVING", SESSION_ERROR |-> "ERROR"],
     OBSERVING |-> [DECISION_RECORDED |-> "OBSERVING",
                    ENTRY_WORKING |-> "ENTRY_PENDING",
                    SESSION_COMPLETED |-> "COMPLETE",
                    SESSION_ERROR |-> "ERROR"],
     ENTRY_PENDING |-> [ENTRY_FILLED |-> "POSITION_OPEN",
                        ENTRY_UNFILLED |-> "COMPLETE",
                        SESSION_ERROR |-> "ERROR"],
     POSITION_OPEN |-> [POSITION_SNAPSHOT |-> "POSITION_OPEN",
                        EXITED |-> "COMPLETE",
                        SESSION_ERROR |-> "ERROR"],
     COMPLETE |-> <<>>,
     ERROR |-> <<>>]

NoPayload == <<>>   \* a payload no property reads

\* The process appends one event and goes on at next, or the recorder
\* refuses the event and the exception ends the process.
Record(type, payload, next) ==
    IF type \in DOMAIN Transitions[state]
    THEN /\ log' = Append(log, [type |-> type, seq |-> sequence + 1,
                                data |-> payload])
         /\ sequence' = sequence + 1
         /\ state' = Transitions[state][type]
         /\ pc' = next
    ELSE /\ pc' = "raised"
         /\ UNCHANGED recorder

-----------------------------------------------------------------------------
(* The gate of a channel.                                                  *)

Stamped(s) == s.src # Missing

Accepts(c, s) ==
    /\ s.id # Blank
    /\ s.id \notin gates[c].seen
    /\ Stamped(s)
    /\ s.recv - s.src >= -Skew
    /\ s.recv - s.src <= MaxAge
    /\ gates[c].last # None => s.src > gates[c].last

\* Mutant: the source time of the accepted sample is not kept.
MutantGatePasses(c, s) ==
    /\ Accepts(c, s)
    /\ gates' = [gates EXCEPT ![c].seen = @ \union {s.id}]

GatePasses(c, s) ==
    /\ Accepts(c, s)
    /\ gates' = [gates EXCEPT ![c] = [seen |-> @.seen \union {s.id},
                                      last |-> s.src]]

GateRefuses(c, s, next) ==
    /\ ~Accepts(c, s)
    /\ Record("SESSION_ERROR", NoPayload, next)
    /\ UNCHANGED <<caller, pilot, position, gates>>

-----------------------------------------------------------------------------
Init ==
    /\ pc = "new"
    /\ caller \in {"replay", "oneshot"}
    /\ pilot \in BOOLEAN
    /\ state = "NEW"
    /\ sequence = 0
    /\ pending = None
    /\ fill = None
    /\ filledAt = None
    /\ gates = [c \in Channels |-> [seen |-> {}, last |-> None]]
    /\ log = <<>>

Start ==
    /\ pc = "new"
    /\ Record("SESSION_STARTED", [pilot |-> pilot], "decide")
    /\ UNCHANGED <<caller, pilot, position, gates>>

\* A refused decision sample ends the run: DATA_REJECTED.
DecisionRefused ==
    /\ pc = "decide"
    /\ \E s \in Sample : GateRefuses("DECISION", s, "done")

\* Mutant: the entry of a pilot run is not tagged.
MutantDecisions ==
    [status : {"NO_TRADE"}, tagged : {FALSE}, hard : {FALSE}]
    \union [status : {"REJECTED"}, tagged : {FALSE}, hard : BOOLEAN]
    \union [status : {"PILOT_SIMULATED_ENTRY"}, tagged : {FALSE},
            hard : {FALSE}]

\* The decision chain: an entry of a pilot run is tagged
\* PILOT_NOT_STRATEGY_EVIDENCE; a rejection may be a hard one.
Decisions ==
    [status : {"NO_TRADE"}, tagged : {FALSE}, hard : {FALSE}]
    \union [status : {"REJECTED"}, tagged : {FALSE}, hard : BOOLEAN]
    \union [status : {"PILOT_SIMULATED_ENTRY"}, tagged : {pilot},
            hard : {FALSE}]

AfterDecision == IF caller = "replay" THEN "entry" ELSE "finish"

Decide ==
    /\ pc = "decide"
    /\ \E s \in Sample, d \in Decisions :
         /\ GatePasses("DECISION", s)
         /\ Record("DECISION_RECORDED", d,
                   IF d.status = "PILOT_SIMULATED_ENTRY" THEN "working"
                   ELSE AfterDecision)
    /\ UNCHANGED <<caller, pilot, position>>

\* The second append of evaluate: the simulated limit order.
EntryWorking ==
    /\ pc = "working"
    /\ \E p \in Limits : pending' = p
    /\ Record("ENTRY_WORKING", NoPayload, AfterDecision)
    /\ UNCHANGED <<caller, pilot, fill, filledAt, gates>>

EntryRefused ==
    /\ pc = "entry" /\ state = "ENTRY_PENDING"
    /\ \E s \in Sample : GateRefuses("ENTRY_QUOTE", s, "entry")

Fillable(ask) == ask # Missing /\ ask > 0 /\ ask <= pending

\* observe_entry raises when nothing is pending (MemoryMatchesState: it never
\* is so here).  A fill is taken before "timed_out" is looked at.  The sample is
\* not in the journal line; the properties read it.
EntryFilled ==
    /\ pc = "entry" /\ state = "ENTRY_PENDING"
    /\ \E s \in Sample, ask \in Asks \union {Missing} :
         /\ GatePasses("ENTRY_QUOTE", s)
         /\ pending # None /\ Fillable(ask)
         /\ fill' = pending
         /\ filledAt' = s.recv
         /\ Record("ENTRY_FILLED",
                   [sample |-> s, ask |-> ask, price |-> pending],
                   "entry")
    /\ pending' = None
    /\ UNCHANGED <<caller, pilot>>

EntryTimesOut ==
    /\ pc = "entry" /\ state = "ENTRY_PENDING"
    /\ \E s \in Sample, ask \in Asks \union {Missing} :
         /\ GatePasses("ENTRY_QUOTE", s)
         /\ pending # None /\ ~Fillable(ask)
         /\ Record("ENTRY_UNFILLED", NoPayload, "entry")
    /\ pending' = None
    /\ UNCHANGED <<caller, pilot, fill, filledAt>>

EntryStillWaits ==
    /\ pc = "entry" /\ state = "ENTRY_PENDING"
    /\ \E s \in Sample, ask \in Asks \union {Missing} :
         /\ GatePasses("ENTRY_QUOTE", s)
         /\ pending # None /\ ~Fillable(ask)
    /\ UNCHANGED <<run, recorder, position>>

\* The scenario has no further entry quote, or the entry is resolved.
EntryQuotesEnd ==
    /\ pc = "entry"
    /\ pc' = "position"
    /\ UNCHANGED <<caller, pilot, recorder, position, gates>>

PositionRefused ==
    /\ pc = "position" /\ state = "POSITION_OPEN"
    /\ \E s \in Sample : GateRefuses("POSITION_QUOTE", s, "position")

Observation == [mark : Marks \union {Missing},
                vwapValid : BOOLEAN \union {Missing},
                due : BOOLEAN]   \* the forced or the emergency exit is due

\* Mutant: a quote from the future is as good as a fresh one.
MutantStateKnown(s) ==
    /\ s.recv - filledAt >= 0
    /\ s.recv - s.src <= MaxAge

\* The age and the holding time observe_position requires.
StateKnown(s) ==
    /\ s.recv - filledAt >= 0
    /\ s.recv - s.src >= 0
    /\ s.recv - s.src <= MaxAge

\* evaluate_exit: unknown data needs a human; the stop is 20 per cent below
\* the fill, the target 30 per cent above it.
ExitAction(s, o) ==
    IF ~StateKnown(s) \/ o.mark = Missing \/ o.vwapValid = Missing
    THEN "MANUAL_INTERVENTION"
    ELSE IF \/ o.due
            \/ ~o.vwapValid
            \/ 10 * o.mark <= 8 * fill
            \/ 10 * o.mark >= 13 * fill
            \/ s.recv - filledAt >= MaxHold
         THEN "EXIT"
         ELSE "HOLD"

PositionHeld ==
    /\ pc = "position" /\ state = "POSITION_OPEN"
    /\ \E s \in Sample, o \in Observation :
         /\ GatePasses("POSITION_QUOTE", s)
         /\ fill # None /\ ExitAction(s, o) = "HOLD"
         /\ Record("POSITION_SNAPSHOT", [sample |-> s], "position")
    /\ UNCHANGED <<caller, pilot, position>>

PositionExits ==
    /\ pc = "position" /\ state = "POSITION_OPEN"
    /\ \E s \in Sample, o \in Observation :
         /\ GatePasses("POSITION_QUOTE", s)
         /\ fill # None /\ ExitAction(s, o) = "EXIT"
         /\ Record("EXITED", [sample |-> s, price |-> fill], "position")
    /\ fill' = None
    /\ filledAt' = None
    /\ UNCHANGED <<caller, pilot, pending>>

PositionNeedsHuman ==
    /\ pc = "position" /\ state = "POSITION_OPEN"
    /\ \E s \in Sample, o \in Observation :
         /\ GatePasses("POSITION_QUOTE", s)
         /\ fill # None /\ ExitAction(s, o) = "MANUAL_INTERVENTION"
         /\ Record("SESSION_ERROR", NoPayload, "position")
    /\ UNCHANGED <<caller, pilot, position>>

\* The scenario has no further observation, or the position is closed; its
\* finish_day flag says whether finish_day is called.
ObservationsEnd ==
    /\ pc = "position"
    /\ pc' \in {"finish", "done"}
    /\ UNCHANGED <<caller, pilot, recorder, position, gates>>

\* finish_day.
FinishDay ==
    /\ pc = "finish"
    /\ CASE state = "OBSERVING" ->
              /\ Record("SESSION_COMPLETED", NoPayload, "done")
              /\ UNCHANGED pending
         [] state = "ENTRY_PENDING" ->
              /\ Record("ENTRY_UNFILLED", NoPayload, "done")
              /\ pending' = None
         [] state \in {"COMPLETE", "ERROR"} ->
              /\ pc' = "done"
              /\ UNCHANGED <<recorder, pending>>
         [] OTHER ->
              /\ pc' = "raised"
              /\ UNCHANGED <<recorder, pending>>
    /\ UNCHANGED <<caller, pilot, fill, filledAt, gates>>

\* The process dies, or a write fails and the exception ends it; a line it
\* was writing may be left unfinished.
Crash ==
    /\ pc \notin Ended
    /\ pc' = "crashed"
    /\ \/ UNCHANGED log
       \/ state \notin {"COMPLETE", "ERROR"} /\ log' = Append(log, Torn)
    /\ UNCHANGED <<caller, pilot, state, sequence, position, gates>>

Next ==
    \/ Start
    \/ DecisionRefused \/ Decide \/ EntryWorking
    \/ EntryRefused \/ EntryFilled \/ EntryTimesOut \/ EntryStillWaits
    \/ EntryQuotesEnd
    \/ PositionRefused \/ PositionHeld \/ PositionExits
    \/ PositionNeedsHuman \/ ObservationsEnd
    \/ FinishDay
    \/ Crash

Spec == Init /\ [][Next]_vars

-----------------------------------------------------------------------------
(* Properties.                                                             *)

EventTypes == UNION {DOMAIN Transitions[s] : s \in SessionStates}

\* Type correctness of the process's memory and of the journal.
TypeOK ==
    /\ pc \in {"new", "decide", "working", "entry", "position", "finish"}
             \union Ended
    /\ caller \in {"replay", "oneshot"}
    /\ pilot \in BOOLEAN
    /\ state \in SessionStates
    /\ sequence \in Nat
    /\ pending \in Limits \union {None}
    /\ fill \in Limits \union {None}
    /\ filledAt \in Times \union {None}
    /\ gates \in [Channels -> [seen : SUBSET SampleIds,
                               last : Times \union {None}]]
    /\ \A i \in DOMAIN log : log[i].type \in EventTypes \union {"TORN"}

\* What the runner remembers of its order and its position is what the
\* recorder's state says, whichever samples were accepted or refused in
\* between (an ERROR leaves both as they were): the runner is never asked
\* for a fill it does not hold, nor the recorder for an event out of place.
MemoryMatchesState ==
    /\ state = "ENTRY_PENDING" => pending # None
    /\ state = "POSITION_OPEN" => fill # None /\ filledAt # None
    /\ pending # None => state \in {"ENTRY_PENDING", "ERROR"}
    /\ fill # None => state \in {"POSITION_OPEN", "ERROR"}

\* The callers use the controller so that no exception is ever raised except
\* finish_day's, over a simulated position that is still open.
OnlyOpenPositionRaises == pc = "raised" => state = "POSITION_OPEN"

\* A session that counts as completed, in memory or for the review of its
\* journal, is flat: at most one simulated fill, and its exit.
CompletedIsFlat ==
    state = "COMPLETE" \/ ReviewVerdict(log) = "COMPLETE" =>
        /\ Occurrences(log, "ENTRY_FILLED") = Occurrences(log, "EXITED")
        /\ Occurrences(log, "EXITED") <= 1

\* The review reads a session's outcome from the order of the events alone,
\* without the recorder's table or its memory: it reaches the recorder's own
\* verdict, for a session that ended as for one that was cut off, and only a
\* process that died in the middle of a line leaves it a journal it rejects.
ReviewTellsTheTruth ==
    /\ ~Readable(log) => pc = "crashed"
    /\ Readable(log) =>
         ReviewVerdict(log) = IF state \in {"COMPLETE", "ERROR"}
                              THEN state ELSE "NON_TERMINAL"

\* Every simulated exit closes an earlier fill at that fill's price, was
\* observed no earlier than the fill, and rests on a quote that is neither
\* stale nor from the future, though the gate tolerates a future one.
ExitEvidence ==
    \A i \in DOMAIN log : log[i].type = "EXITED" =>
        LET exit == log[i].data IN
        /\ exit.sample.recv - exit.sample.src \in 0..MaxAge
        /\ \E j \in 1..(i - 1) :
             /\ log[j].type = "ENTRY_FILLED"
             /\ log[j].data.price = exit.price
             /\ log[j].data.ask \in 1..exit.price
             /\ log[j].data.sample.recv <= exit.sample.recv

\* The position samples of a journal move forward in source time and never
\* repeat an id.
SamplesInOrder ==
    \A i, j \in DOMAIN log :
        /\ i < j
        /\ {log[i].type, log[j].type} \subseteq {"POSITION_SNAPSHOT", "EXITED"}
        => /\ log[i].data.sample.src < log[j].data.sample.src
           /\ log[i].data.sample.id # log[j].data.sample.id

\* No trade of a pilot run is ever counted as strategy performance, not even
\* once formal Shadow is authorized.
PilotTradeNeverCounted == pilot => CountedTrades(log, TRUE) = 0

\* Pilot records stay out of the strategy evidence.  The tag is only put on
\* an entry decision, so a pilot day without one is evidence: violated.
PilotIsNotEvidence ==
    pilot /\ pc = "done" => ~StrategyEvidenceEligible(log)
=============================================================================
