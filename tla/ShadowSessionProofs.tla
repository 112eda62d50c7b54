------------------------ MODULE ShadowSessionProofs ------------------------
(***************************************************************************)
(* A shadow session, for any sample ids, times, prices and limits, and a   *)
(* process that may die anywhere: what its journal may hold, and what the  *)
(* review and the report make of it.  The argument has two layers.  The    *)
(* recorder alone guarantees JournalInv: each event its table allows keeps *)
(* the order and the counts of the journal.  The rest relates the memory   *)
(* of the process to the journal: an open position to the fill on record,  *)
(* a gate to the samples it let pass, the tag of the decision to the run.  *)
(***************************************************************************)
EXTENDS ShadowSession, FiniteSetTheorems, TLAPS

(* What a line of the journal may carry. *)
DecisionData == [status : {"NO_TRADE", "REJECTED", "PILOT_SIMULATED_ENTRY"},
                 tagged : BOOLEAN, hard : BOOLEAN]
FillData == [sample : Sample, ask : Asks \union {Missing}, price : Limits]
ExitData == [sample : Sample, price : Limits]
Payload == {NoPayload} \union [pilot : BOOLEAN] \union DecisionData
             \union FillData \union [sample : Sample] \union ExitData

RecorderEvents == {"SESSION_STARTED", "DECISION_RECORDED", "ENTRY_WORKING",
                   "ENTRY_FILLED", "ENTRY_UNFILLED", "POSITION_SNAPSHOT",
                   "EXITED", "SESSION_COMPLETED", "SESSION_ERROR"}

Event == [type : RecorderEvents \union {"TORN"}, seq : Nat, data : Payload]

(* The recorder's table, edge by edge.                                     *)
LEMMA Table ==
  /\ \A t : t \in DOMAIN Transitions["NEW"] <=> t \in {"SESSION_STARTED", "SESSION_ERROR"}
  /\ \A t : t \in DOMAIN Transitions["OBSERVING"] <=>
       t \in {"DECISION_RECORDED", "ENTRY_WORKING", "SESSION_COMPLETED", "SESSION_ERROR"}
  /\ \A t : t \in DOMAIN Transitions["ENTRY_PENDING"] <=>
       t \in {"ENTRY_FILLED", "ENTRY_UNFILLED", "SESSION_ERROR"}
  /\ \A t : t \in DOMAIN Transitions["POSITION_OPEN"] <=>
       t \in {"POSITION_SNAPSHOT", "EXITED", "SESSION_ERROR"}
  /\ DOMAIN Transitions["COMPLETE"] = {}
  /\ DOMAIN Transitions["ERROR"] = {}
  BY DEF Transitions

LEMMA Targets ==
  /\ Transitions["NEW"]["SESSION_STARTED"] = "OBSERVING"
  /\ Transitions["OBSERVING"]["DECISION_RECORDED"] = "OBSERVING"
  /\ Transitions["OBSERVING"]["ENTRY_WORKING"] = "ENTRY_PENDING"
  /\ Transitions["OBSERVING"]["SESSION_COMPLETED"] = "COMPLETE"
  /\ Transitions["ENTRY_PENDING"]["ENTRY_FILLED"] = "POSITION_OPEN"
  /\ Transitions["ENTRY_PENDING"]["ENTRY_UNFILLED"] = "COMPLETE"
  /\ Transitions["POSITION_OPEN"]["POSITION_SNAPSHOT"] = "POSITION_OPEN"
  /\ Transitions["POSITION_OPEN"]["EXITED"] = "COMPLETE"
  /\ \A s \in SessionStates \ {"COMPLETE", "ERROR"} : Transitions[s]["SESSION_ERROR"] = "ERROR"
  BY DEF Transitions, SessionStates

LEMMA RecorderEventTypes == EventTypes = RecorderEvents
  BY Table DEF EventTypes, RecorderEvents, SessionStates

LEMMA EndingEvents ==
  /\ DOMAIN TerminalEvents = {"ENTRY_UNFILLED", "EXITED", "SESSION_COMPLETED", "SESSION_ERROR"}
  /\ TerminalEvents["SESSION_ERROR"] = "ERROR"
  /\ \A t \in {"ENTRY_UNFILLED", "EXITED", "SESSION_COMPLETED"} : TerminalEvents[t] = "COMPLETE"
  BY DEF TerminalEvents

(* A journal of one more line. *)
LEMMA OneLineMore ==
  ASSUME NEW l \in Seq(Event), NEW e \in Event
  PROVE  /\ Append(l, e) \in Seq(Event)
         /\ DOMAIN l = 1..Len(l) /\ Len(l) \in Nat
         /\ DOMAIN Append(l, e) = 1..(Len(l) + 1)
         /\ Len(Append(l, e)) = Len(l) + 1
         /\ Append(l, e)[Len(l) + 1] = e
         /\ \A i \in 1..Len(l) : Append(l, e)[i] = l[i]
  OBVIOUS

-----------------------------------------------------------------------------
(* The recorder alone.                                                     *)

Types(l) == {l[i].type : i \in DOMAIN l}
Ending == {"ENTRY_UNFILLED", "EXITED", "SESSION_COMPLETED", "SESSION_ERROR"}

(* A live process has written numbered lines only; the torn one is the     *)
(* last of a dead process.                                                 *)
Numbered ==
    /\ sequence \in Nat
    /\ \A i \in DOMAIN log : log[i].type # "TORN" => log[i].seq = i
    /\ \A i \in DOMAIN log : log[i].type = "TORN" => pc = "crashed" /\ i = Len(log)
    /\ pc # "crashed" => Len(log) = sequence

(* The session has ended iff an ending event is the last line.             *)
EndsLast ==
    /\ \A i \in DOMAIN log : log[i].type \in Ending =>
         /\ i = Len(log)
         /\ state = TerminalEvents[log[i].type]
    /\ state \in {"COMPLETE", "ERROR"} =>
         /\ Len(log) # 0
         /\ log[Len(log)].type \in Ending

(* At most one fill and one exit, and which of them each state has seen.   *)
FillAndExit ==
    /\ \A i, j \in DOMAIN log : log[i].type = "ENTRY_FILLED"
         /\ log[j].type = "ENTRY_FILLED" => i = j
    /\ state \in {"NEW", "OBSERVING", "ENTRY_PENDING"} =>
         Types(log) \cap {"ENTRY_FILLED", "EXITED"} = {}
    /\ state = "POSITION_OPEN" =>
         "ENTRY_FILLED" \in Types(log) /\ "EXITED" \notin Types(log)
    /\ state = "COMPLETE" =>
         ("ENTRY_FILLED" \in Types(log) <=> "EXITED" \in Types(log))

JournalInv ==
    /\ state \in SessionStates
    /\ log \in Seq(Event)
    /\ Numbered
    /\ EndsLast
    /\ FillAndExit

(* What Record does when the table has the event. *)
Recorded(type, payload) ==
    /\ log' = Append(log, [type |-> type, seq |-> sequence + 1, data |-> payload])
    /\ sequence' = sequence + 1
    /\ state' = Transitions[state][type]

LEMMA RecordedKeepsJournal ==
  ASSUME JournalInv, pc # "crashed", pc' # "crashed",
         NEW t \in DOMAIN Transitions[state], NEW d \in Payload, Recorded(t, d)
  PROVE  JournalInv'
<1> DEFINE e == [type |-> t, seq |-> sequence + 1, data |-> d]
<1>1. t \in RecorderEvents /\ state \in SessionStates \ {"COMPLETE", "ERROR"}
  BY Table DEF JournalInv, SessionStates, RecorderEvents
<1>2. e \in Event /\ log \in Seq(Event) /\ sequence \in Nat /\ Len(log) = sequence
  BY <1>1 DEF JournalInv, Numbered, Event
<1>3. /\ log' \in Seq(Event)
      /\ DOMAIN log = 1..Len(log) /\ Len(log) \in Nat
      /\ DOMAIN log' = 1..(Len(log) + 1)
      /\ Len(log') = Len(log) + 1
      /\ log'[Len(log) + 1] = e
      /\ \A i \in 1..Len(log) : log'[i] = log[i]
  BY <1>2, OneLineMore DEF Recorded
<1>4. state' \in SessionStates
  BY <1>1, Table, Targets DEF Recorded, SessionStates
<1>5. \A i \in DOMAIN log : log[i].type # "TORN" /\ log[i].type \notin Ending
  BY <1>1, <1>3, EndingEvents DEF JournalInv, Numbered, EndsLast, Ending, SessionStates
<1>6. Numbered'
  BY <1>1, <1>2, <1>3, <1>5 DEF Numbered, Recorded, JournalInv, RecorderEvents
<1>7. EndsLast'
  <2>1. t \in Ending <=> state' \in {"COMPLETE", "ERROR"}
    BY <1>1, Table, Targets DEF Recorded, Ending, SessionStates
  <2>2. t \in Ending => state' = TerminalEvents[t]
    BY <1>1, Table, Targets, EndingEvents DEF Recorded, Ending, SessionStates
  <2>3. QED
    BY <1>2, <1>3, <1>5, <2>1, <2>2 DEF EndsLast
<1>8. Types(log') = Types(log) \union {t}
  BY <1>2, <1>3 DEF Types
<1>9. FillAndExit'
  <2>1. t = "ENTRY_FILLED" => state = "ENTRY_PENDING" /\ state' = "POSITION_OPEN"
    BY <1>1, Table, Targets DEF Recorded, SessionStates
  <2>2. t = "EXITED" => state = "POSITION_OPEN" /\ state' = "COMPLETE"
    BY <1>1, Table, Targets DEF Recorded, SessionStates
  <2>3. t \notin {"ENTRY_FILLED", "EXITED"} =>
          /\ state' \in {"OBSERVING", "ENTRY_PENDING"} => state \in {"NEW", "OBSERVING"}
          /\ state' = "POSITION_OPEN" => state = "POSITION_OPEN"
          /\ state' = "COMPLETE" => state \in {"OBSERVING", "ENTRY_PENDING"}
          /\ state' # "NEW"
    BY <1>1, Table, Targets DEF Recorded, SessionStates
  <2>4. \A i, j \in DOMAIN log' : log'[i].type = "ENTRY_FILLED"
          /\ log'[j].type = "ENTRY_FILLED" => i = j
    BY <1>2, <1>3, <2>1 DEF JournalInv, FillAndExit, Types
  <2>5. QED
    BY <1>8, <2>1, <2>2, <2>3, <2>4 DEF JournalInv, FillAndExit
<1>10. QED
  BY <1>3, <1>4, <1>6, <1>7, <1>9 DEF JournalInv

(* A torn line is the last one, and only of a session that has not ended.  *)
LEMMA TornKeepsJournal ==
  ASSUME JournalInv, pc # "crashed", pc' = "crashed",
         state \notin {"COMPLETE", "ERROR"},
         log' = Append(log, Torn), UNCHANGED <<state, sequence>>
  PROVE  JournalInv'
<1>1. Torn \in Event /\ Torn.type = "TORN" /\ log \in Seq(Event)
  BY DEF Torn, Event, Payload, NoPayload, JournalInv
<1>2. /\ log' \in Seq(Event)
      /\ DOMAIN log = 1..Len(log) /\ Len(log) \in Nat
      /\ DOMAIN log' = 1..(Len(log) + 1)
      /\ Len(log') = Len(log) + 1
      /\ log'[Len(log) + 1] = Torn
      /\ \A i \in 1..Len(log) : log'[i] = log[i]
  BY <1>1, OneLineMore
<1>3. \A i \in DOMAIN log : log[i].type # "TORN" /\ log[i].type \notin Ending
  BY <1>2, EndingEvents DEF JournalInv, Numbered, EndsLast, Ending
<1>4. Types(log') = Types(log) \union {"TORN"}
  BY <1>1, <1>2 DEF Types
<1>5. Numbered'
  BY <1>1, <1>2, <1>3 DEF Numbered, JournalInv
<1>6. EndsLast'
  BY <1>1, <1>2, <1>3 DEF EndsLast, Ending
<1>7. FillAndExit'
  <2>1. \A i, j \in DOMAIN log' : log'[i].type = "ENTRY_FILLED"
          /\ log'[j].type = "ENTRY_FILLED" => i = j
    BY <1>1, <1>2 DEF JournalInv, FillAndExit
  <2>2. QED
    BY <1>4, <2>1 DEF JournalInv, FillAndExit
<1>8. QED
  BY <1>2, <1>5, <1>6, <1>7 DEF JournalInv

(* The largest index of a set of at most one.                              *)
LEMMA LastOfOne ==
  ASSUME NEW n \in Nat
  PROVE  Max({n}) = n
  BY DEF Max

(* Reading a journal whose ending event is its last line.                  *)
LEMMA VerdictOfJournal ==
  ASSUME JournalInv
  PROVE  /\ ~Readable(log) => pc = "crashed" /\ ReviewVerdict(log) = "INVALID"
         /\ Readable(log) =>
              ReviewVerdict(log) = IF state \in {"COMPLETE", "ERROR"}
                                   THEN state ELSE "NON_TERMINAL"
<1> DEFINE I == {i \in 1..Len(log) : log[i].type \in DOMAIN TerminalEvents}
<1>1. log \in Seq(Event) /\ DOMAIN log = 1..Len(log) /\ Len(log) \in Nat
  BY DEF JournalInv
<1>2. ~Readable(log) => pc = "crashed"
  BY DEF Readable, JournalInv, Numbered
<1>3. ReviewVerdict(log) =
        LET i == IF I # {} THEN Max(I) ELSE 0
        IN  IF ~Readable(log) THEN "INVALID"
            ELSE IF i = 0 THEN "NON_TERMINAL"
            ELSE TerminalEvents[log[i].type]
  BY DEF ReviewVerdict, SelectLastInSeq
<1>4. CASE state \in {"COMPLETE", "ERROR"}
  <2>1. I = {Len(log)}
    BY <1>1, <1>4, EndingEvents DEF JournalInv, EndsLast, Ending
  <2>2. Max(I) = Len(log) /\ Len(log) # 0
    BY <1>1, <1>4, <2>1, LastOfOne DEF JournalInv, EndsLast
  <2>3. TerminalEvents[log[Len(log)].type] = state
    BY <1>1, <1>4, <2>2 DEF JournalInv, EndsLast
  <2>4. QED
    BY <1>2, <1>3, <1>4, <2>1, <2>2, <2>3
<1>5. CASE state \notin {"COMPLETE", "ERROR"}
  <2>1. I = {}
    BY <1>1, <1>5, EndingEvents DEF JournalInv, EndsLast, Ending
  <2>2. QED
    BY <1>2, <1>3, <1>5, <2>1
<1>6. QED
  BY <1>4, <1>5

(* Counting events that occur at most once.                                *)
LEMMA CountOfAtMostOne ==
  ASSUME NEW l \in Seq(Event), NEW t,
         \A i, j \in DOMAIN l : l[i].type = t /\ l[j].type = t => i = j
  PROVE  Occurrences(l, t) = IF t \in Types(l) THEN 1 ELSE 0
<1> DEFINE I == {i \in DOMAIN l : l[i].type = t}
<1>1. CASE t \in Types(l)
  <2>1. PICK i \in DOMAIN l : l[i].type = t
    BY <1>1 DEF Types
  <2>2. I = {i}
    BY <2>1
  <2>3. Cardinality(I) = 1
    BY <2>2, FS_Singleton
  <2>4. QED
    BY <1>1, <2>3 DEF Occurrences
<1>2. CASE t \notin Types(l)
  <2>1. I = {}
    BY <1>2 DEF Types
  <2>2. Cardinality(I) = 0
    BY <2>1, FS_EmptySet
  <2>3. QED
    BY <1>2, <2>2 DEF Occurrences
<1>3. QED
  BY <1>1, <1>2

LEMMA CompletedJournalIsFlat ==
  ASSUME JournalInv
  PROVE  CompletedIsFlat
<1>1. log \in Seq(Event)
  BY DEF JournalInv
<1>2. \A i, j \in DOMAIN log : log[i].type = "EXITED" /\ log[j].type = "EXITED" => i = j
  BY DEF JournalInv, EndsLast, Ending
<1>3. Occurrences(log, "EXITED") = IF "EXITED" \in Types(log) THEN 1 ELSE 0
  BY <1>1, <1>2, CountOfAtMostOne
<1>4. Occurrences(log, "ENTRY_FILLED") = IF "ENTRY_FILLED" \in Types(log) THEN 1 ELSE 0
  BY <1>1, CountOfAtMostOne DEF JournalInv, FillAndExit
<1>5. ReviewVerdict(log) = "COMPLETE" => state = "COMPLETE"
  BY VerdictOfJournal
<1>6. QED
  BY <1>3, <1>4, <1>5 DEF CompletedIsFlat, JournalInv, FillAndExit

-----------------------------------------------------------------------------
(* The process, its gates and its position.                                *)

(* What the callers' control flow has established.                         *)
PcMatchesState ==
    /\ pc = "new" => state = "NEW" /\ Len(log) = 0
    /\ pc = "decide" => state = "OBSERVING" /\ Len(log) = 1
    /\ pc = "decide" => log[1].type = "SESSION_STARTED"
    /\ pc = "working" => state = "OBSERVING" /\ Len(log) = 2
    /\ pc \in {"entry", "position", "finish"} => state # "NEW" /\ Len(log) >= 2
    /\ OnlyOpenPositionRaises

(* A decision is the second line, if there is one, and whatever followed    *)
(* an entry decision carries the tag of the run.                           *)
DecisionOnRecord ==
    /\ \A i \in DOMAIN log : log[i].type = "DECISION_RECORDED" => i = 2
    /\ \/ pc = "working"
       \/ state \in {"ENTRY_PENDING", "POSITION_OPEN"}
       \/ {"ENTRY_FILLED", "EXITED"} \cap Types(log) # {}
       => /\ Len(log) >= 2
          /\ log[2].type = "DECISION_RECORDED"
          /\ log[2].data.tagged = pilot

(* The fill the runner remembers is the one in its journal.                *)
FillOnRecord ==
    fill # None =>
        \E j \in DOMAIN log :
            /\ log[j].type = "ENTRY_FILLED"
            /\ log[j].data.price = fill
            /\ log[j].data.ask \in 1..fill
            /\ log[j].data.sample.recv = filledAt

PositionTypes == {"POSITION_SNAPSHOT", "EXITED"}

(* A gate remembers every sample of its channel it let into the journal.   *)
SamplesPassed ==
    \A i \in DOMAIN log : log[i].type \in PositionTypes =>
        LET s == log[i].data.sample
            g == gates["POSITION_QUOTE"]
        IN  /\ s.src \in Times
            /\ s.id \in g.seen
            /\ g.last # None
            /\ s.src <= g.last

SessionInv ==
    /\ TypeOK
    /\ JournalInv
    /\ MemoryMatchesState
    /\ PcMatchesState
    /\ DecisionOnRecord
    /\ FillOnRecord
    /\ SamplesPassed
    /\ ExitEvidence
    /\ SamplesInOrder

LEMMA TimesAreNat == Times \subseteq Nat
  BY SessionAssumption DEF Times

LEMMA TimeIsNat ==
  ASSUME NEW t \in Times
  PROVE  t \in Nat /\ t # None /\ t <= t
<1>1. t \in Nat
  BY TimesAreNat
<1>2. t # None
  BY <1>1, SessionAssumption
<1>3. QED
  BY <1>1, <1>2

LEMMA TimeOrNone ==
  ASSUME NEW t \in Times \union {None}, t # None
  PROVE  t \in Nat /\ t <= t
<1>1. t \in Nat
  BY TimesAreNat
<1>2. QED
  BY <1>1

LEMMA InitInv == Init => SessionInv
<1> SUFFICES ASSUME Init PROVE SessionInv
  OBVIOUS
<1>1. log = <<>> /\ log \in Seq(Event) /\ DOMAIN log = {} /\ Len(log) = 0
  BY DEF Init
<1>2. TypeOK
  BY <1>1 DEF Init, TypeOK, SessionStates
<1>3. JournalInv
  BY <1>1 DEF Init, JournalInv, Numbered, EndsLast, FillAndExit, SessionStates, Types
<1>4. MemoryMatchesState /\ PcMatchesState
  BY <1>1 DEF Init, MemoryMatchesState, PcMatchesState, OnlyOpenPositionRaises
<1>5. DecisionOnRecord /\ FillOnRecord /\ SamplesPassed /\ ExitEvidence /\ SamplesInOrder
  BY <1>1 DEF Init, DecisionOnRecord, FillOnRecord, SamplesPassed, ExitEvidence,
              SamplesInOrder, Types
<1>6. QED
  BY <1>2, <1>3, <1>4, <1>5 DEF SessionInv

(* The journal has grown by the line e.                                    *)
Grown(e) ==
    /\ DOMAIN log = 1..Len(log) /\ Len(log) \in Nat
    /\ DOMAIN log' = 1..(Len(log) + 1)
    /\ Len(log') = Len(log) + 1
    /\ log'[Len(log) + 1] = e
    /\ \A i \in 1..Len(log) : log'[i] = log[i]

LEMMA RecordedGrows ==
  ASSUME JournalInv, NEW t \in RecorderEvents, NEW d \in Payload, Recorded(t, d)
  PROVE  Grown([type |-> t, seq |-> sequence + 1, data |-> d])
<1> DEFINE e == [type |-> t, seq |-> sequence + 1, data |-> d]
<1>1. e \in Event /\ log \in Seq(Event)
  BY DEF JournalInv, Numbered, Event
<1>2. QED
  BY <1>1, OneLineMore DEF Recorded, Grown

LEMMA TornGrows ==
  ASSUME JournalInv, log' = Append(log, Torn)
  PROVE  Grown(Torn)
<1>1. Torn \in Event /\ log \in Seq(Event)
  BY DEF Torn, Event, Payload, NoPayload, JournalInv
<1>2. QED
  BY <1>1, OneLineMore DEF Grown

(* A sample the gate of channel c lets pass is newer than all before it.   *)
LEMMA GateStep ==
  ASSUME TypeOK, NEW c \in Channels, NEW s \in Sample, GatePasses(c, s)
  PROVE  /\ s.id \in SampleIds \union {Blank} /\ s.recv \in Times
         /\ s.src \in Times /\ s.id # Blank /\ s.id \notin gates[c].seen
         /\ gates[c].last # None => s.src > gates[c].last
         /\ gates'[c] = [seen |-> gates[c].seen \union {s.id}, last |-> s.src]
         /\ \A k \in Channels \ {c} : gates'[k] = gates[k]
         /\ gates' \in [Channels -> [seen : SUBSET SampleIds, last : Times \union {None}]]
<1>1. s.id \in SampleIds \union {Blank} /\ s.recv \in Times /\ s.src \in Times \union {Missing}
  BY DEF Sample
<1>2. s.src # Missing /\ s.id # Blank /\ s.id \notin gates[c].seen
      /\ (gates[c].last # None => s.src > gates[c].last)
  BY DEF GatePasses, Accepts, Stamped
<1>3. gates \in [Channels -> [seen : SUBSET SampleIds, last : Times \union {None}]]
  BY DEF TypeOK
<1>4. gates' = [gates EXCEPT ![c] = [seen |-> gates[c].seen \union {s.id}, last |-> s.src]]
  BY DEF GatePasses
<1>5. [seen |-> gates[c].seen \union {s.id}, last |-> s.src]
        \in [seen : SUBSET SampleIds, last : Times \union {None}]
  BY <1>1, <1>2, <1>3
<1>6. QED
  BY <1>1, <1>2, <1>3, <1>4, <1>5

(* The position gate only moves forward.                                   *)
GateAdvances ==
    LET g == gates["POSITION_QUOTE"]
        h == gates'["POSITION_QUOTE"]
    IN  /\ g.seen \subseteq h.seen
        /\ {g.last, h.last} \subseteq Times \union {None}
        /\ g.last # None => h.last # None /\ g.last <= h.last

LEMMA PassingAdvances ==
  ASSUME TypeOK, NEW c \in Channels, NEW s \in Sample, GatePasses(c, s)
  PROVE  GateAdvances
<1>1. gates \in [Channels -> [seen : SUBSET SampleIds, last : Times \union {None}]]
      /\ "POSITION_QUOTE" \in Channels
  BY DEF TypeOK, Channels
<1>2. gates["POSITION_QUOTE"].last \in Times \union {None}
  BY <1>1
<1>3. Times \subseteq Nat /\ None \notin Nat
  BY TimesAreNat, SessionAssumption
<1>4. CASE c = "POSITION_QUOTE"
  <2>1. gates'[c] = [seen |-> gates[c].seen \union {s.id}, last |-> s.src]
        /\ s.src \in Times /\ (gates[c].last # None => s.src > gates[c].last)
    BY GateStep
  <2>2. gates'[c].last = s.src /\ gates[c].seen \subseteq gates'[c].seen
    BY <2>1
  <2>3. gates[c].last # None => gates[c].last <= s.src /\ s.src # None
    <3>1. s.src \in Nat /\ s.src # None
      BY <1>3, <2>1
    <3>2. QED
      BY <1>2, <1>4, <2>1, <3>1, TimeOrNone
  <2>4. QED
    BY <1>2, <1>4, <2>1, <2>2, <2>3 DEF GateAdvances
<1>5. CASE c # "POSITION_QUOTE"
  <2>1. gates'["POSITION_QUOTE"] = gates["POSITION_QUOTE"]
    BY <1>1, <1>5, GateStep
  <2>2. gates["POSITION_QUOTE"].last # None =>
          gates["POSITION_QUOTE"].last <= gates["POSITION_QUOTE"].last
    BY <1>2, TimeOrNone
  <2>3. QED
    BY <1>2, <2>1, <2>2 DEF GateAdvances
<1>6. QED
  BY <1>4, <1>5

LEMMA StayingAdvances ==
  ASSUME TypeOK, gates' = gates
  PROVE  GateAdvances
<1>1. gates["POSITION_QUOTE"].last \in Times \union {None}
  BY DEF TypeOK, Channels
<1>2. gates["POSITION_QUOTE"].last # None =>
        gates["POSITION_QUOTE"].last <= gates["POSITION_QUOTE"].last
  BY <1>1, TimeOrNone
<1>3. QED
  BY <1>1, <1>2 DEF GateAdvances

(* Lines that carry no position sample leave the samples' evidence alone.  *)
LEMMA SamplesKept ==
  ASSUME SessionInv, NEW e, Grown(e), e.type \notin PositionTypes, GateAdvances
  PROVE  SamplesPassed' /\ ExitEvidence' /\ SamplesInOrder'
<1>1. \A i \in DOMAIN log' : log'[i].type \in PositionTypes =>
        i \in DOMAIN log /\ log'[i] = log[i]
  BY DEF Grown
<1>2. DOMAIN log \subseteq DOMAIN log'
  BY DEF Grown
<1>3. SamplesPassed'
  <2> SUFFICES ASSUME NEW i \in DOMAIN log', log'[i].type \in PositionTypes
               PROVE  LET s == log'[i].data.sample
                          g == gates'["POSITION_QUOTE"]
                      IN  /\ s.src \in Times /\ s.id \in g.seen
                          /\ g.last # None /\ s.src <= g.last
    BY DEF SamplesPassed
  <2>1. i \in DOMAIN log /\ log'[i] = log[i]
    BY <1>1
  <2>2. LET s == log[i].data.sample
            g == gates["POSITION_QUOTE"]
        IN  /\ s.src \in Times /\ s.id \in g.seen
            /\ g.last # None /\ s.src <= g.last
    BY <2>1 DEF SessionInv, SamplesPassed
  <2> DEFINE s == log[i].data.sample
             last == gates["POSITION_QUOTE"].last
             newLast == gates'["POSITION_QUOTE"].last
  <2>3. /\ s.src \in Nat /\ last \in Nat /\ newLast \in Nat
        /\ newLast # None /\ last <= newLast /\ s.src <= last
    BY <2>2, TimesAreNat DEF GateAdvances
  <2>4. s.src <= newLast
    BY <2>3
  <2>5. QED
    BY <2>1, <2>2, <2>3, <2>4 DEF GateAdvances
<1>4. ExitEvidence'
  <2> SUFFICES ASSUME NEW i \in DOMAIN log', log'[i].type = "EXITED"
               PROVE  LET exit == log'[i].data IN
                      /\ exit.sample.recv - exit.sample.src \in 0..MaxAge
                      /\ \E j \in 1..(i - 1) :
                           /\ log'[j].type = "ENTRY_FILLED"
                           /\ log'[j].data.price = exit.price
                           /\ log'[j].data.ask \in 1..exit.price
                           /\ log'[j].data.sample.recv <= exit.sample.recv
    BY DEF ExitEvidence
  <2>1. i \in DOMAIN log /\ log'[i] = log[i]
    BY <1>1 DEF PositionTypes
  <2>2. \A j \in 1..(i - 1) : log'[j] = log[j]
    BY <2>1 DEF Grown
  <2>3. QED
    BY <2>1, <2>2 DEF SessionInv, ExitEvidence
<1>5. SamplesInOrder'
  BY <1>1 DEF SessionInv, SamplesInOrder, PositionTypes
<1>6. QED
  BY <1>3, <1>4, <1>5

(* A fill on record stays on record.                                       *)
LEMMA FillKept ==
  ASSUME SessionInv, NEW e, Grown(e), UNCHANGED <<fill, filledAt>>
  PROVE  FillOnRecord'
  BY DEF SessionInv, FillOnRecord, Grown

LEMMA TypesGrow ==
  ASSUME NEW e, Grown(e)
  PROVE  Types(log') = Types(log) \union {e.type}
  BY DEF Grown, Types

(* A line other than the decision leaves the decision where it is.         *)
LEMMA DecisionKept ==
  ASSUME SessionInv, NEW e, Grown(e), e.type # "DECISION_RECORDED", pilot' = pilot,
         pc' # "working",
         \/ state' \in {"ENTRY_PENDING", "POSITION_OPEN"}
         \/ e.type \in {"ENTRY_FILLED", "EXITED"}
         => pc = "working" \/ state \in {"ENTRY_PENDING", "POSITION_OPEN"}
  PROVE  DecisionOnRecord'
<1>1. Types(log') = Types(log) \union {e.type}
  BY TypesGrow
<1>2. \A i \in DOMAIN log' : log'[i].type = "DECISION_RECORDED" => i = 2
  BY DEF Grown, SessionInv, DecisionOnRecord
<1>3. Len(log) >= 2 => log'[2] = log[2] /\ Len(log') >= 2
  BY DEF Grown
<1>4. QED
  BY <1>1, <1>2, <1>3 DEF SessionInv, DecisionOnRecord

(* A position sample on record is newer than the ones before it.           *)
LEMMA SampleAdded ==
  ASSUME SessionInv, NEW e, Grown(e), e.type \in PositionTypes,
         NEW s \in Sample, e.data.sample = s, GatePasses("POSITION_QUOTE", s)
  PROVE  SamplesPassed' /\ SamplesInOrder'
<1> DEFINE g == gates["POSITION_QUOTE"]
           h == gates'["POSITION_QUOTE"]
<1>1. TypeOK /\ SamplesPassed /\ SamplesInOrder
  BY DEF SessionInv
<1>2. /\ h = [seen |-> g.seen \union {s.id}, last |-> s.src]
      /\ s.src \in Times /\ s.id \notin g.seen
      /\ g.last # None => s.src > g.last
  BY <1>1, GateStep DEF Channels
<1>3. h.seen = g.seen \union {s.id} /\ h.last = s.src
  BY <1>2
<1>4. s.src \in Nat /\ s.src # None /\ s.src <= s.src
  BY <1>2, TimeIsNat
<1>5. g.last \in Times \union {None}
  BY <1>1 DEF TypeOK, Channels
<1>6. \A i \in 1..Len(log) : log[i].type \in PositionTypes =>
        /\ log[i].data.sample.src \in Times
        /\ log[i].data.sample.src < s.src
        /\ log[i].data.sample.id \in g.seen
        /\ log[i].data.sample.id # s.id
  <2> SUFFICES ASSUME NEW i \in 1..Len(log), log[i].type \in PositionTypes
               PROVE  /\ log[i].data.sample.src \in Times
                      /\ log[i].data.sample.src < s.src
                      /\ log[i].data.sample.id \in g.seen
                      /\ log[i].data.sample.id # s.id
    OBVIOUS
  <2> DEFINE r == log[i].data.sample
  <2>1. r.src \in Times /\ r.id \in g.seen /\ g.last # None /\ r.src <= g.last
    BY <1>1 DEF SamplesPassed, Grown
  <2>2. r.src \in Nat /\ g.last \in Nat
    BY <1>5, <2>1, TimesAreNat, TimeOrNone
  <2>3. QED
    BY <1>2, <1>4, <2>1, <2>2
<1>7. \A i \in DOMAIN log' : i \in 1..Len(log) \/ i = Len(log) + 1
  BY DEF Grown
<1>8. SamplesPassed'
  <2> SUFFICES ASSUME NEW i \in DOMAIN log', log'[i].type \in PositionTypes
               PROVE  /\ log'[i].data.sample.src \in Times
                      /\ log'[i].data.sample.id \in h.seen
                      /\ h.last # None
                      /\ log'[i].data.sample.src <= h.last
    BY DEF SamplesPassed
  <2>1. CASE i = Len(log) + 1
    BY <1>2, <1>3, <1>4, <2>1 DEF Grown
  <2>2. CASE i \in 1..Len(log)
    <3>1. log'[i] = log[i]
      BY <2>2 DEF Grown
    <3>2. log[i].data.sample.src \in Nat
      BY <1>6, <2>2, <3>1, TimesAreNat
    <3>3. QED
      BY <1>3, <1>4, <1>6, <2>2, <3>1, <3>2
  <2>3. QED
    BY <1>7, <2>1, <2>2
<1>9. SamplesInOrder'
  <2> SUFFICES ASSUME NEW i \in DOMAIN log', NEW j \in DOMAIN log', i < j,
                      log'[i].type \in PositionTypes, log'[j].type \in PositionTypes
               PROVE  /\ log'[i].data.sample.src < log'[j].data.sample.src
                      /\ log'[i].data.sample.id # log'[j].data.sample.id
    BY DEF SamplesInOrder, PositionTypes
  <2>1. i \in 1..Len(log) /\ log'[i] = log[i]
    BY DEF Grown
  <2>2. CASE j = Len(log) + 1
    BY <1>6, <2>1, <2>2 DEF Grown
  <2>3. CASE j \in 1..Len(log)
    BY <1>1, <2>1, <2>3 DEF SamplesInOrder, Grown, PositionTypes
  <2>4. QED
    BY <1>7, <2>2, <2>3
<1>10. QED
  BY <1>8, <1>9

(* An exit on record closes the fill on record.                            *)
LEMMA ExitAdded ==
  ASSUME SessionInv, NEW e, Grown(e), e.type = "EXITED",
         NEW s \in Sample, e.data = [sample |-> s, price |-> fill],
         fill # None, filledAt # None, s.src \in Times, StateKnown(s)
  PROVE  ExitEvidence'
<1>1. ExitEvidence /\ FillOnRecord /\ JournalInv /\ TypeOK
  BY DEF SessionInv
<1>2. PICK j \in DOMAIN log : /\ log[j].type = "ENTRY_FILLED"
                              /\ log[j].data.price = fill
                              /\ log[j].data.ask \in 1..fill
                              /\ log[j].data.sample.recv = filledAt
  BY <1>1 DEF FillOnRecord
<1>3. filledAt \in Times \union {None} /\ s.recv \in Times
  BY <1>1 DEF TypeOK, Sample
<1>4. s.recv \in Nat /\ s.src \in Nat /\ MaxAge \in Nat
  BY <1>3, TimesAreNat, SessionAssumption
<1>5. filledAt \in Nat
  BY <1>3, TimeOrNone
<1>6. s.recv - filledAt >= 0 /\ s.recv - s.src >= 0 /\ s.recv - s.src <= MaxAge
  BY DEF StateKnown
<1>7. \A i \in DOMAIN log' : i \in 1..Len(log) \/ i = Len(log) + 1
  BY DEF Grown
<1> SUFFICES ASSUME NEW i \in DOMAIN log', log'[i].type = "EXITED"
             PROVE  LET exit == log'[i].data IN
                    /\ exit.sample.recv - exit.sample.src \in 0..MaxAge
                    /\ \E k \in 1..(i - 1) :
                         /\ log'[k].type = "ENTRY_FILLED"
                         /\ log'[k].data.price = exit.price
                         /\ log'[k].data.ask \in 1..exit.price
                         /\ log'[k].data.sample.recv <= exit.sample.recv
  BY DEF ExitEvidence
<1>8. CASE i = Len(log) + 1
  <2>1. log'[i] = e
    BY <1>8 DEF Grown
  <2>2. j \in 1..(i - 1) /\ log'[j] = log[j]
    BY <1>2, <1>8 DEF Grown
  <2>3. log'[j].data.sample.recv <= s.recv
    BY <1>2, <1>4, <1>5, <1>6, <2>2
  <2>4. s.recv - s.src \in 0..MaxAge
    BY <1>4, <1>6
  <2>5. QED
    BY <1>2, <2>1, <2>2, <2>3, <2>4
<1>9. CASE i \in 1..Len(log)
  <2>1. log'[i] = log[i] /\ \A k \in 1..(i - 1) : log'[k] = log[k]
    BY <1>9 DEF Grown
  <2>2. QED
    BY <1>1, <1>9, <2>1 DEF ExitEvidence, Grown
<1>10. QED
  BY <1>7, <1>8, <1>9

LEMMA RecordIs ==
  ASSUME NEW t, NEW d, NEW n, t \in DOMAIN Transitions[state], Record(t, d, n)
  PROVE  Recorded(t, d) /\ pc' = n
  BY DEF Record, Recorded

LEMMA LineTypes ==
  ASSUME NEW l \in Seq(Event)
  PROVE  \A i \in DOMAIN l : l[i].type \in EventTypes \union {"TORN"}
<1>1. \A i \in DOMAIN l : l[i] \in Event
  OBVIOUS
<1>2. QED
  BY <1>1, RecorderEventTypes DEF Event

(* What every recorded event gives.                                        *)
LEMMA RecordedFacts ==
  ASSUME SessionInv, pc # "crashed", pc' # "crashed",
         NEW t \in DOMAIN Transitions[state], NEW d \in Payload, Recorded(t, d)
  PROVE  /\ JournalInv'
         /\ Grown([type |-> t, seq |-> sequence + 1, data |-> d])
         /\ sequence' \in Nat /\ state' \in SessionStates
         /\ \A i \in DOMAIN log' : log'[i].type \in EventTypes \union {"TORN"}
<1>1. JournalInv /\ t \in RecorderEvents
  BY Table DEF SessionInv, JournalInv, SessionStates, RecorderEvents
<1>2. JournalInv'
  BY <1>1, RecordedKeepsJournal
<1>3. log' \in Seq(Event) /\ sequence' \in Nat /\ state' \in SessionStates
  BY <1>2 DEF JournalInv, Numbered
<1>4. QED
  BY <1>1, <1>2, <1>3, RecordedGrows, LineTypes

(* A run that ends with an error keeps its memory and its evidence.        *)
LEMMA ErrorStep ==
  ASSUME SessionInv, NEW n \in {"done", "entry", "position"},
         pc \in {"decide", "entry", "position"},
         n \in {"entry", "position"} => pc \in {"entry", "position"},
         state \in {"OBSERVING", "ENTRY_PENDING", "POSITION_OPEN"},
         Record("SESSION_ERROR", NoPayload, n),
         UNCHANGED <<caller, pilot, position>>,
         gates' \in [Channels -> [seen : SUBSET SampleIds, last : Times \union {None}]],
         GateAdvances
  PROVE  SessionInv'
<1> DEFINE e == [type |-> "SESSION_ERROR", seq |-> sequence + 1, data |-> NoPayload]
<1>1. "SESSION_ERROR" \in DOMAIN Transitions[state] /\ NoPayload \in Payload
  BY Table DEF Payload
<1>2. Recorded("SESSION_ERROR", NoPayload) /\ pc' = n
  BY <1>1, RecordIs
<1>3. /\ JournalInv' /\ Grown(e) /\ sequence' \in Nat /\ state' \in SessionStates
      /\ \A i \in DOMAIN log' : log'[i].type \in EventTypes \union {"TORN"}
  BY <1>1, <1>2, RecordedFacts
<1>4. state' = "ERROR"
  BY <1>2, Targets DEF Recorded, SessionStates
<1>5. TypeOK'
  BY <1>2, <1>3 DEF SessionInv, TypeOK, position, Ended
<1>6. MemoryMatchesState' /\ PcMatchesState'
  BY <1>2, <1>3, <1>4 DEF SessionInv, MemoryMatchesState, PcMatchesState,
                          OnlyOpenPositionRaises, position, Grown
<1>7. DecisionOnRecord'
  BY <1>2, <1>3, <1>4, DecisionKept
<1>8. FillOnRecord'
  BY <1>3, FillKept DEF position
<1>9. SamplesPassed' /\ ExitEvidence' /\ SamplesInOrder'
  BY <1>3, SamplesKept DEF PositionTypes
<1>10. QED
  BY <1>3, <1>5, <1>6, <1>7, <1>8, <1>9 DEF SessionInv

LEMMA StartStep ==
  ASSUME SessionInv, Start
  PROVE  SessionInv'
<1> DEFINE d == [pilot |-> pilot]
           e == [type |-> "SESSION_STARTED", seq |-> sequence + 1, data |-> d]
<1>1. pc = "new" /\ state = "NEW" /\ Len(log) = 0
  BY DEF Start, SessionInv, PcMatchesState
<1>2. "SESSION_STARTED" \in DOMAIN Transitions[state] /\ d \in Payload
  BY <1>1, Table DEF Payload, SessionInv, TypeOK
<1>3. Recorded("SESSION_STARTED", d) /\ pc' = "decide"
  BY <1>2, RecordIs DEF Start
<1>4. /\ JournalInv' /\ Grown(e) /\ sequence' \in Nat /\ state' \in SessionStates
      /\ \A i \in DOMAIN log' : log'[i].type \in EventTypes \union {"TORN"}
  BY <1>1, <1>2, <1>3, RecordedFacts
<1>5. state' = "OBSERVING"
  BY <1>1, <1>3, Targets DEF Recorded
<1>6. TypeOK'
  BY <1>3, <1>4 DEF Start, SessionInv, TypeOK, position
<1>7. MemoryMatchesState' /\ PcMatchesState'
  BY <1>1, <1>3, <1>4, <1>5 DEF Start, SessionInv, MemoryMatchesState, PcMatchesState,
                          OnlyOpenPositionRaises, position, Grown
<1>8. DecisionOnRecord'
  BY <1>3, <1>4, <1>5, DecisionKept DEF Start
<1>9. FillOnRecord'
  BY <1>4, FillKept DEF position, Start
<1>10. GateAdvances
  BY StayingAdvances DEF Start, SessionInv
<1>11. SamplesPassed' /\ ExitEvidence' /\ SamplesInOrder'
  BY <1>4, <1>10, SamplesKept DEF PositionTypes
<1>12. QED
  BY <1>4, <1>6, <1>7, <1>8, <1>9, <1>11 DEF SessionInv

LEMMA RefusalStep ==
  ASSUME SessionInv, NEW c \in Channels, NEW s \in Sample,
         NEW n \in {"done", "entry", "position"},
         pc \in {"decide", "entry", "position"},
         n \in {"entry", "position"} => pc \in {"entry", "position"},
         state \in {"OBSERVING", "ENTRY_PENDING", "POSITION_OPEN"},
         GateRefuses(c, s, n)
  PROVE  SessionInv'
<1>1. TypeOK /\ gates' = gates
  BY DEF SessionInv, GateRefuses
<1>2. GateAdvances
  BY <1>1, StayingAdvances
<1>3. gates' \in [Channels -> [seen : SUBSET SampleIds, last : Times \union {None}]]
  BY <1>1 DEF TypeOK
<1>4. QED
  BY <1>2, <1>3, ErrorStep DEF GateRefuses

LEMMA DecideStep ==
  ASSUME SessionInv, Decide
  PROVE  SessionInv'
<1>1. PICK s \in Sample, d \in Decisions :
        /\ GatePasses("DECISION", s)
        /\ Record("DECISION_RECORDED", d,
                  IF d.status = "PILOT_SIMULATED_ENTRY" THEN "working" ELSE AfterDecision)
  BY DEF Decide
<1> DEFINE e == [type |-> "DECISION_RECORDED", seq |-> sequence + 1, data |-> d]
           n == IF d.status = "PILOT_SIMULATED_ENTRY" THEN "working" ELSE AfterDecision
<1>2. TypeOK /\ pc = "decide" /\ state = "OBSERVING" /\ Len(log) = 1
      /\ log[1].type = "SESSION_STARTED"
  BY DEF Decide, SessionInv, PcMatchesState
<1>3. d \in DecisionData /\ (d.status = "PILOT_SIMULATED_ENTRY" => d.tagged = pilot)
  BY <1>2 DEF Decisions, DecisionData, TypeOK
<1>4. "DECISION_RECORDED" \in DOMAIN Transitions[state] /\ d \in Payload
  BY <1>2, <1>3, Table DEF Payload
<1>5. Recorded("DECISION_RECORDED", d) /\ pc' = n
  BY <1>1, <1>4, RecordIs
<1>6. n \in {"working", "entry", "finish"}
  BY DEF AfterDecision
<1>7. /\ JournalInv' /\ Grown(e) /\ sequence' \in Nat /\ state' \in SessionStates
      /\ \A i \in DOMAIN log' : log'[i].type \in EventTypes \union {"TORN"}
  BY <1>2, <1>4, <1>5, <1>6, RecordedFacts
<1>8. state' = "OBSERVING"
  BY <1>2, <1>5, Targets DEF Recorded
<1>9. GateAdvances /\ gates' \in [Channels -> [seen : SUBSET SampleIds, last : Times \union {None}]]
  BY <1>1, <1>2, GateStep, PassingAdvances DEF Channels
<1>10. TypeOK'
  BY <1>2, <1>5, <1>6, <1>7, <1>9 DEF Decide, TypeOK, position
<1>11. MemoryMatchesState' /\ PcMatchesState'
  BY <1>2, <1>5, <1>6, <1>7, <1>8 DEF Decide, SessionInv, MemoryMatchesState, PcMatchesState,
                          OnlyOpenPositionRaises, position, Grown
<1>12. DecisionOnRecord'
  <2>1. Types(log') = Types(log) \union {"DECISION_RECORDED"}
    BY <1>7, TypesGrow
  <2>2. {"ENTRY_FILLED", "EXITED"} \cap Types(log') = {}
    BY <1>2, <2>1 DEF SessionInv, JournalInv, FillAndExit
  <2>3. \A i \in DOMAIN log' : log'[i].type = "DECISION_RECORDED" => i = 2
    BY <1>2, <1>7 DEF Grown
  <2>4. pc' = "working" => /\ Len(log') >= 2 /\ log'[2].type = "DECISION_RECORDED"
                          /\ log'[2].data.tagged = pilot /\ pilot' = pilot
    BY <1>2, <1>3, <1>5, <1>7 DEF Grown, Decide, AfterDecision
  <2>5. QED
    BY <1>8, <2>2, <2>3, <2>4 DEF DecisionOnRecord
<1>13. FillOnRecord'
  BY <1>7, FillKept DEF position, Decide
<1>14. SamplesPassed' /\ ExitEvidence' /\ SamplesInOrder'
  BY <1>7, <1>9, SamplesKept DEF PositionTypes
<1>15. QED
  BY <1>7, <1>10, <1>11, <1>12, <1>13, <1>14 DEF SessionInv

LEMMA EntryWorkingStep ==
  ASSUME SessionInv, EntryWorking
  PROVE  SessionInv'
<1> DEFINE e == [type |-> "ENTRY_WORKING", seq |-> sequence + 1, data |-> NoPayload]
<1>1. TypeOK /\ pc = "working" /\ state = "OBSERVING" /\ Len(log) = 2 /\ fill = None
  BY DEF EntryWorking, SessionInv, PcMatchesState, MemoryMatchesState
<1>2. "ENTRY_WORKING" \in DOMAIN Transitions[state] /\ NoPayload \in Payload
  BY <1>1, Table DEF Payload
<1>3. Recorded("ENTRY_WORKING", NoPayload) /\ pc' = AfterDecision
  BY <1>2, RecordIs DEF EntryWorking
<1>4. AfterDecision \in {"entry", "finish"}
  BY DEF AfterDecision
<1>5. /\ JournalInv' /\ Grown(e) /\ sequence' \in Nat /\ state' \in SessionStates
      /\ \A i \in DOMAIN log' : log'[i].type \in EventTypes \union {"TORN"}
  BY <1>1, <1>2, <1>3, <1>4, RecordedFacts
<1>6. state' = "ENTRY_PENDING" /\ pending' \in Limits /\ None \notin Limits
  BY <1>1, <1>3, Targets, SessionAssumption DEF Recorded, EntryWorking
<1>7. TypeOK'
  BY <1>1, <1>3, <1>4, <1>5, <1>6 DEF EntryWorking, TypeOK
<1>8. MemoryMatchesState' /\ PcMatchesState'
  BY <1>1, <1>3, <1>4, <1>5, <1>6 DEF EntryWorking, SessionInv, MemoryMatchesState,
                          PcMatchesState, OnlyOpenPositionRaises, Grown
<1>9. DecisionOnRecord'
  BY <1>1, <1>3, <1>4, <1>5, DecisionKept DEF EntryWorking
<1>10. FillOnRecord'
  BY <1>5, FillKept DEF EntryWorking
<1>11. GateAdvances
  BY <1>1, StayingAdvances DEF EntryWorking
<1>12. SamplesPassed' /\ ExitEvidence' /\ SamplesInOrder'
  BY <1>5, <1>11, SamplesKept DEF PositionTypes
<1>13. QED
  BY <1>5, <1>7, <1>8, <1>9, <1>10, <1>12 DEF SessionInv

LEMMA EntryFilledStep ==
  ASSUME SessionInv, EntryFilled
  PROVE  SessionInv'
<1>1. PICK s \in Sample, ask \in Asks \union {Missing} :
        /\ GatePasses("ENTRY_QUOTE", s)
        /\ pending # None /\ Fillable(ask)
        /\ fill' = pending
        /\ filledAt' = s.recv
        /\ Record("ENTRY_FILLED", [sample |-> s, ask |-> ask, price |-> pending], "entry")
  BY DEF EntryFilled
<1> DEFINE d == [sample |-> s, ask |-> ask, price |-> pending]
           e == [type |-> "ENTRY_FILLED", seq |-> sequence + 1, data |-> d]
<1>2. TypeOK /\ pc = "entry" /\ state = "ENTRY_PENDING" /\ Len(log) >= 2
  BY DEF EntryFilled, SessionInv, PcMatchesState
<1>3. pending \in Limits /\ ask \in 1..pending
  <2>1. pending \in Limits /\ pending \in Nat
    BY <1>1, <1>2, SessionAssumption DEF TypeOK
  <2>2. ask \in Nat /\ ask > 0 /\ ask <= pending
    BY <1>1, SessionAssumption DEF Fillable
  <2>3. QED
    BY <2>1, <2>2
<1>4. "ENTRY_FILLED" \in DOMAIN Transitions[state] /\ d \in Payload
  BY <1>2, <1>3, Table DEF Payload, FillData
<1>5. Recorded("ENTRY_FILLED", d) /\ pc' = "entry"
  BY <1>1, <1>4, RecordIs
<1>6. /\ JournalInv' /\ Grown(e) /\ sequence' \in Nat /\ state' \in SessionStates
      /\ \A i \in DOMAIN log' : log'[i].type \in EventTypes \union {"TORN"}
  BY <1>2, <1>4, <1>5, RecordedFacts
<1>7. state' = "POSITION_OPEN"
  BY <1>2, <1>5, Targets DEF Recorded
<1>8. GateAdvances /\ s.recv \in Times
      /\ gates' \in [Channels -> [seen : SUBSET SampleIds, last : Times \union {None}]]
  BY <1>1, <1>2, GateStep, PassingAdvances DEF Channels
<1>9. fill' # None /\ filledAt' # None
  BY <1>1, <1>8, TimeIsNat
<1>10. TypeOK'
  BY <1>1, <1>2, <1>3, <1>5, <1>6, <1>8 DEF EntryFilled, TypeOK
<1>11. MemoryMatchesState' /\ PcMatchesState'
  BY <1>2, <1>5, <1>6, <1>7, <1>9 DEF EntryFilled, MemoryMatchesState,
                          PcMatchesState, OnlyOpenPositionRaises, Grown
<1>12. DecisionOnRecord'
  BY <1>2, <1>5, <1>6, DecisionKept DEF EntryFilled
<1>13. FillOnRecord'
  <2>1. Len(log) + 1 \in DOMAIN log' /\ log'[Len(log) + 1] = e
    BY <1>6 DEF Grown
  <2>2. QED
    BY <1>1, <1>3, <2>1 DEF FillOnRecord
<1>14. SamplesPassed' /\ ExitEvidence' /\ SamplesInOrder'
  BY <1>6, <1>8, SamplesKept DEF PositionTypes
<1>15. QED
  BY <1>6, <1>10, <1>11, <1>12, <1>13, <1>14 DEF SessionInv

(* An entry that ends without a fill, by its timeout or by finish_day.     *)
LEMMA UnfilledStep ==
  ASSUME SessionInv, NEW n \in {"entry", "done"},
         pc \in {"entry", "finish"}, n = "entry" => pc = "entry",
         state = "ENTRY_PENDING",
         Record("ENTRY_UNFILLED", NoPayload, n),
         pending' = None, UNCHANGED <<caller, pilot, fill, filledAt>>,
         gates' \in [Channels -> [seen : SUBSET SampleIds, last : Times \union {None}]],
         GateAdvances
  PROVE  SessionInv'
<1> DEFINE e == [type |-> "ENTRY_UNFILLED", seq |-> sequence + 1, data |-> NoPayload]
<1>1. "ENTRY_UNFILLED" \in DOMAIN Transitions[state] /\ NoPayload \in Payload
  BY Table DEF Payload
<1>2. Recorded("ENTRY_UNFILLED", NoPayload) /\ pc' = n
  BY <1>1, RecordIs
<1>3. /\ JournalInv' /\ Grown(e) /\ sequence' \in Nat /\ state' \in SessionStates
      /\ \A i \in DOMAIN log' : log'[i].type \in EventTypes \union {"TORN"}
  BY <1>1, <1>2, RecordedFacts
<1>4. state' = "COMPLETE"
  BY <1>2, Targets DEF Recorded
<1>5. TypeOK'
  BY <1>2, <1>3 DEF SessionInv, TypeOK, Ended
<1>6. MemoryMatchesState' /\ PcMatchesState'
  BY <1>2, <1>3, <1>4 DEF SessionInv, MemoryMatchesState, PcMatchesState,
                          OnlyOpenPositionRaises, Grown
<1>7. DecisionOnRecord'
  BY <1>2, <1>3, <1>4, DecisionKept
<1>8. FillOnRecord'
  BY <1>3, FillKept
<1>9. SamplesPassed' /\ ExitEvidence' /\ SamplesInOrder'
  BY <1>3, SamplesKept DEF PositionTypes
<1>10. QED
  BY <1>3, <1>5, <1>6, <1>7, <1>8, <1>9 DEF SessionInv

LEMMA EntryTimesOutStep ==
  ASSUME SessionInv, EntryTimesOut
  PROVE  SessionInv'
<1>1. PICK s \in Sample : /\ GatePasses("ENTRY_QUOTE", s)
                          /\ Record("ENTRY_UNFILLED", NoPayload, "entry")
  BY DEF EntryTimesOut
<1>2. TypeOK
  BY DEF SessionInv
<1>3. GateAdvances
      /\ gates' \in [Channels -> [seen : SUBSET SampleIds, last : Times \union {None}]]
  BY <1>1, <1>2, GateStep, PassingAdvances DEF Channels
<1>4. QED
  BY <1>1, <1>3, UnfilledStep DEF EntryTimesOut

(* Steps that leave the journal and the position as they are.              *)
LEMMA QuietStep ==
  ASSUME SessionInv, UNCHANGED <<caller, pilot, recorder, position>>,
         gates' \in [Channels -> [seen : SUBSET SampleIds, last : Times \union {None}]],
         GateAdvances,
         \/ pc' = pc
         \/ pc' \in {"position", "finish", "done"} /\ pc \in {"entry", "position", "finish"}
         \/ pc' = "raised" /\ state = "POSITION_OPEN"
         \/ pc' = "crashed",
         pc # "crashed"
  PROVE  SessionInv'
<1>1. log' = log /\ state' = state /\ sequence' = sequence /\ pending' = pending
      /\ fill' = fill /\ filledAt' = filledAt /\ caller' = caller /\ pilot' = pilot
  BY DEF recorder, position
<1>2. TypeOK'
  BY <1>1 DEF SessionInv, TypeOK, Ended
<1>3. JournalInv'
  BY <1>1 DEF SessionInv, JournalInv, Numbered, EndsLast, FillAndExit
<1>4. MemoryMatchesState' /\ PcMatchesState'
  BY <1>1 DEF SessionInv, MemoryMatchesState, PcMatchesState, OnlyOpenPositionRaises
<1>5. DecisionOnRecord' /\ FillOnRecord'
  BY <1>1 DEF SessionInv, DecisionOnRecord, FillOnRecord
<1>6. SamplesPassed'
  <2> SUFFICES ASSUME NEW i \in DOMAIN log, log[i].type \in PositionTypes
               PROVE  LET s == log[i].data.sample
                          g == gates'["POSITION_QUOTE"]
                      IN  /\ s.src \in Times /\ s.id \in g.seen
                          /\ g.last # None /\ s.src <= g.last
    BY <1>1 DEF SamplesPassed
  <2> DEFINE s == log[i].data.sample
             last == gates["POSITION_QUOTE"].last
             newLast == gates'["POSITION_QUOTE"].last
  <2>1. /\ s.src \in Nat /\ last \in Nat /\ newLast \in Nat /\ s.src \in Times
        /\ newLast # None /\ last <= newLast /\ s.src <= last
    BY TimesAreNat DEF GateAdvances, SessionInv, SamplesPassed
  <2>2. s.src <= newLast
    BY <2>1
  <2>3. QED
    BY <2>1, <2>2 DEF GateAdvances, SessionInv, SamplesPassed
<1>7. ExitEvidence' /\ SamplesInOrder'
  BY <1>1 DEF SessionInv, ExitEvidence, SamplesInOrder
<1>8. QED
  BY <1>2, <1>3, <1>4, <1>5, <1>6, <1>7 DEF SessionInv

LEMMA PositionHeldStep ==
  ASSUME SessionInv, PositionHeld
  PROVE  SessionInv'
<1>1. PICK s \in Sample :
        /\ GatePasses("POSITION_QUOTE", s)
        /\ Record("POSITION_SNAPSHOT", [sample |-> s], "position")
  BY DEF PositionHeld
<1> DEFINE d == [sample |-> s]
           e == [type |-> "POSITION_SNAPSHOT", seq |-> sequence + 1, data |-> d]
<1>2. TypeOK /\ pc = "position" /\ state = "POSITION_OPEN" /\ Len(log) >= 2
  BY DEF PositionHeld, SessionInv, PcMatchesState
<1>3. "POSITION_SNAPSHOT" \in DOMAIN Transitions[state] /\ d \in Payload
  BY <1>2, Table DEF Payload
<1>4. Recorded("POSITION_SNAPSHOT", d) /\ pc' = "position"
  BY <1>1, <1>3, RecordIs
<1>5. /\ JournalInv' /\ Grown(e) /\ sequence' \in Nat /\ state' \in SessionStates
      /\ \A i \in DOMAIN log' : log'[i].type \in EventTypes \union {"TORN"}
  BY <1>2, <1>3, <1>4, RecordedFacts
<1>6. state' = "POSITION_OPEN"
  BY <1>2, <1>4, Targets DEF Recorded
<1>7. gates' \in [Channels -> [seen : SUBSET SampleIds, last : Times \union {None}]]
  BY <1>1, <1>2, GateStep DEF Channels
<1>8. TypeOK'
  BY <1>2, <1>4, <1>5, <1>7 DEF PositionHeld, TypeOK, position
<1>9. MemoryMatchesState' /\ PcMatchesState'
  BY <1>2, <1>4, <1>5, <1>6 DEF PositionHeld, SessionInv, MemoryMatchesState,
                          PcMatchesState, OnlyOpenPositionRaises, position, Grown
<1>10. DecisionOnRecord'
  BY <1>2, <1>4, <1>5, DecisionKept DEF PositionHeld
<1>11. FillOnRecord'
  BY <1>5, FillKept DEF PositionHeld, position
<1>12. SamplesPassed' /\ SamplesInOrder'
  BY <1>1, <1>5, SampleAdded DEF PositionTypes
<1>13. ExitEvidence'
  <2> SUFFICES ASSUME NEW i \in DOMAIN log', log'[i].type = "EXITED"
               PROVE  LET exit == log'[i].data IN
                      /\ exit.sample.recv - exit.sample.src \in 0..MaxAge
                      /\ \E j \in 1..(i - 1) :
                           /\ log'[j].type = "ENTRY_FILLED"
                           /\ log'[j].data.price = exit.price
                           /\ log'[j].data.ask \in 1..exit.price
                           /\ log'[j].data.sample.recv <= exit.sample.recv
    BY DEF ExitEvidence
  <2>1. i \in DOMAIN log /\ log'[i] = log[i] /\ \A j \in 1..(i - 1) : log'[j] = log[j]
    BY <1>5 DEF Grown
  <2>2. QED
    BY <2>1 DEF SessionInv, ExitEvidence
<1>14. QED
  BY <1>5, <1>8, <1>9, <1>10, <1>11, <1>12, <1>13 DEF SessionInv

LEMMA PositionExitsStep ==
  ASSUME SessionInv, PositionExits
  PROVE  SessionInv'
<1>1. PICK s \in Sample, o \in Observation :
        /\ GatePasses("POSITION_QUOTE", s)
        /\ fill # None /\ ExitAction(s, o) = "EXIT"
        /\ Record("EXITED", [sample |-> s, price |-> fill], "position")
  BY DEF PositionExits
<1> DEFINE d == [sample |-> s, price |-> fill]
           e == [type |-> "EXITED", seq |-> sequence + 1, data |-> d]
<1>2. TypeOK /\ pc = "position" /\ state = "POSITION_OPEN" /\ Len(log) >= 2
      /\ filledAt # None /\ pending = None
  BY DEF PositionExits, SessionInv, PcMatchesState, MemoryMatchesState
<1>3. StateKnown(s)
  BY <1>1 DEF ExitAction
<1>4. fill \in Limits
  BY <1>1, <1>2 DEF TypeOK
<1>5. "EXITED" \in DOMAIN Transitions[state] /\ d \in Payload
  BY <1>2, <1>4, Table DEF Payload, ExitData
<1>6. Recorded("EXITED", d) /\ pc' = "position"
  BY <1>1, <1>5, RecordIs
<1>7. /\ JournalInv' /\ Grown(e) /\ sequence' \in Nat /\ state' \in SessionStates
      /\ \A i \in DOMAIN log' : log'[i].type \in EventTypes \union {"TORN"}
  BY <1>2, <1>5, <1>6, RecordedFacts
<1>8. state' = "COMPLETE"
  BY <1>2, <1>6, Targets DEF Recorded
<1>9. s.src \in Times
      /\ gates' \in [Channels -> [seen : SUBSET SampleIds, last : Times \union {None}]]
  BY <1>1, <1>2, GateStep DEF Channels
<1>10. TypeOK'
  BY <1>2, <1>6, <1>7, <1>9 DEF PositionExits, TypeOK
<1>11. MemoryMatchesState' /\ PcMatchesState'
  BY <1>2, <1>6, <1>7, <1>8 DEF PositionExits, MemoryMatchesState,
                          PcMatchesState, OnlyOpenPositionRaises, Grown
<1>12. DecisionOnRecord'
  BY <1>2, <1>6, <1>7, <1>8, DecisionKept DEF PositionExits
<1>13. FillOnRecord'
  BY DEF FillOnRecord, PositionExits
<1>14. SamplesPassed' /\ SamplesInOrder'
  BY <1>1, <1>7, SampleAdded DEF PositionTypes
<1>15. ExitEvidence'
  BY <1>1, <1>2, <1>3, <1>7, <1>9, ExitAdded
<1>16. QED
  BY <1>7, <1>10, <1>11, <1>12, <1>13, <1>14, <1>15 DEF SessionInv

LEMMA PositionNeedsHumanStep ==
  ASSUME SessionInv, PositionNeedsHuman
  PROVE  SessionInv'
<1>1. PICK s \in Sample : /\ GatePasses("POSITION_QUOTE", s)
                          /\ Record("SESSION_ERROR", NoPayload, "position")
  BY DEF PositionNeedsHuman
<1>2. TypeOK
  BY DEF SessionInv
<1>3. GateAdvances
      /\ gates' \in [Channels -> [seen : SUBSET SampleIds, last : Times \union {None}]]
  BY <1>1, <1>2, GateStep, PassingAdvances DEF Channels
<1>4. QED
  BY <1>1, <1>3, ErrorStep DEF PositionNeedsHuman

LEMMA EntryStillWaitsStep ==
  ASSUME SessionInv, EntryStillWaits
  PROVE  SessionInv'
<1>1. PICK s \in Sample : GatePasses("ENTRY_QUOTE", s)
  BY DEF EntryStillWaits
<1>2. TypeOK
  BY DEF SessionInv
<1>3. GateAdvances
      /\ gates' \in [Channels -> [seen : SUBSET SampleIds, last : Times \union {None}]]
  BY <1>1, <1>2, GateStep, PassingAdvances DEF Channels
<1>4. QED
  BY <1>3, QuietStep DEF EntryStillWaits, run

LEMMA GatesStay ==
  ASSUME SessionInv, gates' = gates
  PROVE  /\ GateAdvances
         /\ gates' \in [Channels -> [seen : SUBSET SampleIds, last : Times \union {None}]]
  BY StayingAdvances DEF SessionInv, TypeOK

LEMMA FinishDayStep ==
  ASSUME SessionInv, FinishDay
  PROVE  SessionInv'
<1>1. pc = "finish" /\ gates' = gates /\ UNCHANGED <<caller, pilot, fill, filledAt>>
  BY DEF FinishDay
<1>2. GateAdvances
      /\ gates' \in [Channels -> [seen : SUBSET SampleIds, last : Times \union {None}]]
  BY <1>1, GatesStay
<1>3. state \in SessionStates /\ state # "NEW"
  BY <1>1 DEF SessionInv, TypeOK, PcMatchesState
<1>4. CASE state = "OBSERVING"
  <2> DEFINE e == [type |-> "SESSION_COMPLETED", seq |-> sequence + 1, data |-> NoPayload]
  <2>1. Record("SESSION_COMPLETED", NoPayload, "done") /\ pending' = pending
    BY <1>4 DEF FinishDay
  <2>2. "SESSION_COMPLETED" \in DOMAIN Transitions[state] /\ NoPayload \in Payload
    BY <1>4, Table DEF Payload
  <2>3. Recorded("SESSION_COMPLETED", NoPayload) /\ pc' = "done"
    BY <2>1, <2>2, RecordIs
  <2>4. /\ JournalInv' /\ Grown(e) /\ sequence' \in Nat /\ state' \in SessionStates
        /\ \A i \in DOMAIN log' : log'[i].type \in EventTypes \union {"TORN"}
    BY <1>1, <2>2, <2>3, RecordedFacts
  <2>5. state' = "COMPLETE"
    BY <1>4, <2>3, Targets DEF Recorded
  <2>6. TypeOK'
    BY <1>1, <2>1, <2>3, <2>4 DEF SessionInv, TypeOK, Ended
  <2>7. MemoryMatchesState' /\ PcMatchesState'
    BY <1>1, <1>4, <2>1, <2>3, <2>4, <2>5 DEF SessionInv, MemoryMatchesState,
                          PcMatchesState, OnlyOpenPositionRaises, Grown
  <2>8. DecisionOnRecord'
    BY <1>1, <2>3, <2>4, <2>5, DecisionKept
  <2>9. FillOnRecord'
    BY <1>1, <2>4, FillKept
  <2>10. SamplesPassed' /\ ExitEvidence' /\ SamplesInOrder'
    BY <1>2, <2>4, SamplesKept DEF PositionTypes
  <2>11. QED
    BY <2>4, <2>6, <2>7, <2>8, <2>9, <2>10 DEF SessionInv
<1>5. CASE state = "ENTRY_PENDING"
  <2>1. Record("ENTRY_UNFILLED", NoPayload, "done") /\ pending' = None
    BY <1>5 DEF FinishDay
  <2>2. QED
    BY <1>1, <1>2, <1>5, <2>1, UnfilledStep
<1>6. CASE state \in {"COMPLETE", "ERROR"}
  <2>1. pc' = "done" /\ UNCHANGED <<recorder, pending>>
    BY <1>6 DEF FinishDay
  <2>2. QED
    BY <1>1, <1>2, <2>1, QuietStep DEF position
<1>7. CASE state = "POSITION_OPEN"
  <2>1. pc' = "raised" /\ UNCHANGED <<recorder, pending>>
    BY <1>7 DEF FinishDay
  <2>2. QED
    BY <1>1, <1>2, <1>7, <2>1, QuietStep DEF position
<1>8. QED
  BY <1>3, <1>4, <1>5, <1>6, <1>7 DEF SessionStates

LEMMA CrashStep ==
  ASSUME SessionInv, Crash
  PROVE  SessionInv'
<1>1. pc # "crashed" /\ pc' = "crashed" /\ UNCHANGED <<caller, pilot, state, sequence, position, gates>>
  BY DEF Crash, Ended
<1>2. GateAdvances
      /\ gates' \in [Channels -> [seen : SUBSET SampleIds, last : Times \union {None}]]
  BY <1>1, GatesStay
<1>3. CASE log' = log
  BY <1>1, <1>2, <1>3, QuietStep DEF recorder
<1>4. CASE state \notin {"COMPLETE", "ERROR"} /\ log' = Append(log, Torn)
  <2>1. JournalInv /\ Torn.type = "TORN"
    BY DEF SessionInv, Torn
  <2>2. JournalInv' /\ Grown(Torn)
    BY <1>1, <1>4, <2>1, TornKeepsJournal, TornGrows
  <2>3. \A i \in DOMAIN log' : log'[i].type \in EventTypes \union {"TORN"}
    BY <2>2, LineTypes DEF JournalInv
  <2>4. TypeOK'
    BY <1>1, <2>3 DEF SessionInv, TypeOK, position, Ended
  <2>5. MemoryMatchesState' /\ PcMatchesState'
    BY <1>1 DEF SessionInv, MemoryMatchesState, PcMatchesState, OnlyOpenPositionRaises, position
  <2>6. DecisionOnRecord'
    BY <1>1, <2>1, <2>2, DecisionKept
  <2>7. FillOnRecord'
    BY <1>1, <2>2, FillKept DEF position
  <2>8. SamplesPassed' /\ ExitEvidence' /\ SamplesInOrder'
    BY <1>2, <2>1, <2>2, SamplesKept DEF PositionTypes
  <2>9. QED
    BY <2>2, <2>4, <2>5, <2>6, <2>7, <2>8 DEF SessionInv
<1>5. QED
  BY <1>3, <1>4 DEF Crash

LEMMA NextInv == SessionInv /\ [Next]_vars => SessionInv'
<1> SUFFICES ASSUME SessionInv, [Next]_vars PROVE SessionInv'
  OBVIOUS
<1>1. CASE Start
  BY <1>1, StartStep
<1>2. CASE DecisionRefused
  <2>1. PICK s \in Sample : GateRefuses("DECISION", s, "done")
    BY <1>2 DEF DecisionRefused
  <2>2. pc = "decide" /\ state = "OBSERVING"
    BY <1>2 DEF DecisionRefused, SessionInv, PcMatchesState
  <2>3. QED
    BY <2>1, <2>2, RefusalStep DEF Channels
<1>3. CASE Decide
  BY <1>3, DecideStep
<1>4. CASE EntryWorking
  BY <1>4, EntryWorkingStep
<1>5. CASE EntryRefused
  <2>1. PICK s \in Sample : GateRefuses("ENTRY_QUOTE", s, "entry")
    BY <1>5 DEF EntryRefused
  <2>2. pc = "entry" /\ state = "ENTRY_PENDING"
    BY <1>5 DEF EntryRefused
  <2>3. QED
    BY <2>1, <2>2, RefusalStep DEF Channels
<1>6. CASE EntryFilled
  BY <1>6, EntryFilledStep
<1>7. CASE EntryTimesOut
  BY <1>7, EntryTimesOutStep
<1>8. CASE EntryStillWaits
  BY <1>8, EntryStillWaitsStep
<1>9. CASE EntryQuotesEnd
  BY <1>9, GatesStay, QuietStep DEF EntryQuotesEnd
<1>10. CASE PositionRefused
  <2>1. PICK s \in Sample : GateRefuses("POSITION_QUOTE", s, "position")
    BY <1>10 DEF PositionRefused
  <2>2. pc = "position" /\ state = "POSITION_OPEN"
    BY <1>10 DEF PositionRefused
  <2>3. QED
    BY <2>1, <2>2, RefusalStep DEF Channels
<1>11. CASE PositionHeld
  BY <1>11, PositionHeldStep
<1>12. CASE PositionExits
  BY <1>12, PositionExitsStep
<1>13. CASE PositionNeedsHuman
  BY <1>13, PositionNeedsHumanStep
<1>14. CASE ObservationsEnd
  BY <1>14, GatesStay, QuietStep DEF ObservationsEnd
<1>15. CASE FinishDay
  BY <1>15, FinishDayStep
<1>16. CASE Crash
  BY <1>16, CrashStep
<1>17. CASE UNCHANGED vars
  <2>1. UNCHANGED <<caller, pilot, recorder, position>> /\ pc' = pc /\ gates' = gates
    BY <1>17 DEF vars, run
  <2>2. CASE pc # "crashed"
    BY <2>1, <2>2, GatesStay, QuietStep
  <2>3. CASE pc = "crashed"
    BY <2>1 DEF SessionInv, TypeOK, JournalInv, Numbered, EndsLast, FillAndExit,
                MemoryMatchesState, PcMatchesState, OnlyOpenPositionRaises, DecisionOnRecord,
                FillOnRecord, SamplesPassed, ExitEvidence, SamplesInOrder, recorder, position
  <2>4. QED
    BY <2>2, <2>3
<1>18. QED
  BY <1>1, <1>2, <1>3, <1>4, <1>5, <1>6, <1>7, <1>8, <1>9, <1>10, <1>11, <1>12,
     <1>13, <1>14, <1>15, <1>16, <1>17 DEF Next

(* The report reads the tag of the run off the session's only decision.    *)
LEMMA TagOfTheRun ==
  ASSUME SessionInv, "EXITED" \in Types(log)
  PROVE  SessionIsPilot(log) = pilot
<1> DEFINE I == {i \in 1..Len(log) : log[i].type = "DECISION_RECORDED"}
<1>1. DOMAIN log = 1..Len(log) /\ Len(log) \in Nat
  BY DEF SessionInv, JournalInv
<1>2. Len(log) >= 2 /\ log[2].type = "DECISION_RECORDED" /\ log[2].data.tagged = pilot
  BY DEF SessionInv, DecisionOnRecord
<1>3. I = {2}
  BY <1>1, <1>2 DEF SessionInv, DecisionOnRecord
<1>4. Max(I) = 2
  BY <1>3, LastOfOne
<1>5. SessionIsPilot(log) =
        LET i == IF I # {} THEN Max(I) ELSE 0
        IN  i > 0 /\ log[i].data.tagged
  BY DEF SessionIsPilot, SelectLastInSeq
<1>6. SessionIsPilot(log) = (2 > 0 /\ log[2].data.tagged)
  BY <1>3, <1>4, <1>5
<1>7. pilot \in BOOLEAN
  BY DEF SessionInv, TypeOK
<1>8. QED
  BY <1>2, <1>6, <1>7

LEMMA PilotNotCounted ==
  ASSUME SessionInv
  PROVE  PilotTradeNeverCounted
<1>1. CASE "EXITED" \in Types(log)
  BY <1>1, TagOfTheRun DEF PilotTradeNeverCounted, CountedTrades
<1>2. CASE "EXITED" \notin Types(log)
  <2>1. log \in Seq(Event)
    BY DEF SessionInv, JournalInv
  <2>2. \A i, j \in DOMAIN log : log[i].type = "EXITED" /\ log[j].type = "EXITED" => i = j
    BY <1>2 DEF Types
  <2>3. Occurrences(log, "EXITED") = 0
    BY <1>2, <2>1, <2>2, CountOfAtMostOne
  <2>4. QED
    BY <2>3 DEF PilotTradeNeverCounted, CountedTrades
<1>3. QED
  BY <1>1, <1>2

-----------------------------------------------------------------------------
(* The theorems.                                                           *)

(* What every reachable state of a session satisfies: the recorder's       *)
(* order, the memory that matches it and the evidence on record.           *)
THEOREM SessionInvariant == Spec => []SessionInv
  BY InitInv, NextInv, PTL DEF Spec

(* Type correctness of the process's memory and of the journal.            *)
THEOREM SessionTypeCorrect == Spec => []TypeOK
<1>1. SessionInv => TypeOK
  BY DEF SessionInv
<1>2. QED
  BY <1>1, SessionInvariant, PTL

(* A session that counts as completed is flat: as many simulated exits as  *)
(* fills, and at most one, in the recorder's memory and in the review.     *)
THEOREM CompletedSessionsAreFlat == Spec => []CompletedIsFlat
<1>1. SessionInv => CompletedIsFlat
  BY CompletedJournalIsFlat DEF SessionInv
<1>2. QED
  BY <1>1, SessionInvariant, PTL

(* The review, which sees the order of the events alone, reaches the       *)
(* recorder's verdict; only a line torn by a crash makes it reject.        *)
THEOREM ReviewIsRight == Spec => []ReviewTellsTheTruth
<1>1. SessionInv => ReviewTellsTheTruth
  BY VerdictOfJournal DEF SessionInv, ReviewTellsTheTruth
<1>2. QED
  BY <1>1, SessionInvariant, PTL

(* Every exit on record closes an earlier fill at its price, is no earlier *)
(* than it and rests on a quote neither stale nor from the future.         *)
THEOREM ExitsHaveEvidence == Spec => []ExitEvidence
<1>1. SessionInv => ExitEvidence
  BY DEF SessionInv
<1>2. QED
  BY <1>1, SessionInvariant, PTL

(* The position samples on record move forward in source time and never    *)
(* repeat an id, whatever the channel delivers.                            *)
THEOREM SamplesMoveForward == Spec => []SamplesInOrder
<1>1. SessionInv => SamplesInOrder
  BY DEF SessionInv
<1>2. QED
  BY <1>1, SessionInvariant, PTL

(* No trade of a pilot run is counted as strategy performance.             *)
THEOREM PilotTradesAreNotCounted == Spec => []PilotTradeNeverCounted
<1>1. SessionInv => PilotTradeNeverCounted
  BY PilotNotCounted
<1>2. QED
  BY <1>1, SessionInvariant, PTL

(* The runner is never asked for an order or a position it does not hold,  *)
(* and the only exception of a session is finish_day's over a position     *)
(* that is still open.                                                     *)
THEOREM MemoryIsTheRecorders == Spec => [](MemoryMatchesState /\ OnlyOpenPositionRaises)
<1>1. SessionInv => MemoryMatchesState /\ OnlyOpenPositionRaises
  BY DEF SessionInv, PcMatchesState
<1>2. QED
  BY <1>1, SessionInvariant, PTL
=============================================================================
