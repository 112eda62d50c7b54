------------------------ MODULE TrajectoryDayProofs ------------------------
(***************************************************************************)
(* The rules of an observation day's files, for any universe, any number   *)
(* of slots, any delays and any slots missed or killed anywhere: one       *)
(* candidate per symbol, one close per trajectory and no observation after *)
(* it, one calibration trade that is never overwritten.  The heart is that *)
(* a slot remembers nothing of the ones before it: FilesAreOlder and       *)
(* MemoryAgrees say what it may conclude from the files alone.             *)
(***************************************************************************)
EXTENDS TrajectoryDay, TLAPS

(* Arithmetic of the schedule. *)

LEMMA ScheduledNat ==
  ASSUME NEW s \in Nat
  PROVE  Scheduled(s) \in Nat
  BY TrajectoryAssumption DEF Scheduled

LEMMA ScheduledStep ==
  ASSUME NEW s \in Nat
  PROVE  Scheduled(s + 1) = Scheduled(s) + Spacing
  BY TrajectoryAssumption DEF Scheduled

LEMMA ScheduledMonotone ==
  ASSUME NEW s \in Slots
  PROVE  Scheduled(s) <= Scheduled(LastSlot)
<1>1. s \in Nat /\ LastSlot \in Nat /\ Spacing \in Nat /\ LastSlot - s >= 0
  BY TrajectoryAssumption DEF Slots
<1>2. (LastSlot - s) * Spacing >= 0
  BY <1>1
<1>3. (LastSlot - s) * Spacing = LastSlot * Spacing - s * Spacing
  BY <1>1
<1>4. QED
  BY <1>1, <1>2, <1>3 DEF Scheduled

(* A time in the life of a slot is a time of the day. *)
LEMMA TimeOfSlot ==
  ASSUME NEW s \in Slots, NEW t \in Nat, t <= Scheduled(s) + MaxLife
  PROVE  t \in Times
<1>1. s \in Nat /\ LastSlot \in Nat /\ MaxLife \in Nat
  BY TrajectoryAssumption DEF Slots
<1>2. Scheduled(s) \in Nat /\ Scheduled(LastSlot) \in Nat
  BY <1>1, ScheduledNat
<1>3. Scheduled(s) <= Scheduled(LastSlot)
  BY ScheduledMonotone
<1>4. QED
  BY <1>1, <1>2, <1>3 DEF Times

LEMMA TimesAreInts == Times \subseteq Nat
<1>1. LastSlot \in Nat /\ MaxLife \in Nat
  BY TrajectoryAssumption
<1>2. Scheduled(LastSlot) \in Nat
  BY <1>1, ScheduledNat
<1>3. QED
  BY <1>1, <1>2 DEF Times

LEMMA EventTime ==
  ASSUME NEW e \in Event
  PROVE  e.received \in Nat
<1>1. e.received \in Times
  BY DEF Event
<1>2. QED
  BY <1>1, TimesAreInts

(* The time at which a slot starts determines it: the lag is shorter than  *)
(* the spacing.                                                            *)
LEMMA SlotOfTime ==
  ASSUME NEW s \in Slots, NEW t \in Nat, Scheduled(s) <= t, t < Scheduled(s) + Spacing
  PROVE  t \div Spacing = s
<1> DEFINE q == t \div Spacing
<1>1. s \in Nat /\ Spacing \in Nat \ {0}
      /\ s * Spacing <= t /\ t < s * Spacing + Spacing
  BY TrajectoryAssumption DEF Slots, Scheduled
<1>2. q \in Int /\ t = Spacing * q + (t % Spacing) /\ t % Spacing \in 0..(Spacing - 1)
  BY <1>1
<1> HIDE DEF q
<1>3. CASE q < s
  <2>1. Spacing * (s - (q + 1)) >= 0
    BY <1>1, <1>2, <1>3
  <2>2. QED
    BY <1>1, <1>2, <2>1
<1>4. CASE q > s
  <2>1. Spacing * (q - (s + 1)) >= 0
    BY <1>1, <1>2, <1>4
  <2>2. QED
    BY <1>1, <1>2, <2>1
<1>5. QED
  BY <1>1, <1>2, <1>3, <1>4 DEF q

(* The minute of a worker's start is not before its slot.                  *)
LEMMA MinuteOfSlot ==
  ASSUME NEW s \in Slots, NEW t \in Nat, Scheduled(s) <= t
  PROVE  Scheduled(s) <= t - (t % Minute)
<1>1. s \in Nat /\ Spacing \in Nat \ {0} /\ Minute \in Nat \ {0}
  BY TrajectoryAssumption DEF Slots
<1>2. PICK k \in Nat : Spacing = k * Minute
  <2>1. Spacing \div Minute \in Int
        /\ Spacing = Minute * (Spacing \div Minute) + (Spacing % Minute)
    BY <1>1
  <2>2. Spacing % Minute = 0
    BY TrajectoryAssumption
  <2>3. Spacing \div Minute >= 0
    BY <1>1, <2>1, <2>2
  <2>4. QED
    BY <1>1, <2>1, <2>2, <2>3
<1> DEFINE q == t \div Minute
           n == s * k
<1>3. n \in Nat /\ Scheduled(s) = n * Minute
  <2>1. s * (k * Minute) = (s * k) * Minute /\ s * k \in Nat
    BY <1>1
  <2>2. QED
    BY <1>2, <2>1 DEF Scheduled
<1>4. q \in Int /\ t = Minute * q + (t % Minute) /\ t % Minute \in 0..(Minute - 1)
  BY <1>1
<1> HIDE DEF q, n
<1>5. q >= n
  <2> SUFFICES ASSUME q < n PROVE FALSE
    BY <1>3, <1>4
  <2>1. Minute * (n - (q + 1)) >= 0
    BY <1>1, <1>3, <1>4
  <2>2. QED
    BY <1>1, <1>3, <1>4, <2>1
<1>6. Minute * (q - n) >= 0
  BY <1>1, <1>3, <1>4, <1>5
<1>7. QED
  BY <1>1, <1>3, <1>4, <1>6

(* What is known of the files when a slot is about to write.              *)
LEMMA RunningFacts ==
  ASSUME DayInv, pc # "IDLE"
  PROVE  /\ slot \in Slots /\ slot \in Nat
         /\ now \in Nat /\ clock \in Nat
         /\ Scheduled(slot) \in Nat
         /\ Fires(slot, now) /\ now <= clock
         /\ clock <= Scheduled(slot) + MaxLife
         /\ \A e \in events : e \in Event /\ e.received \in Nat /\ e.received <= clock
<1>1. slot \in Slots /\ slot \in Nat
  BY TrajectoryAssumption DEF DayInv, FilesAreOlder, Slots
<1>2. Scheduled(slot) \in Nat /\ Scheduled(LastSlot) \in Nat
  BY <1>1, ScheduledNat, TrajectoryAssumption
<1>3. now \in Nat /\ clock \in Nat
  BY <1>2, TrajectoryAssumption DEF DayInv, TypeOK, Times
<1>4. \A e \in events : e \in Event /\ e.received \in Nat
  BY <1>2, TrajectoryAssumption DEF DayInv, TypeOK, Times, Event
<1>5. QED
  BY <1>1, <1>2, <1>3, <1>4 DEF DayInv, FilesAreOlder, Fires

(* A call that takes d ends later than everything on disk, within the day. *)
LEMMA CallFacts ==
  ASSUME DayInv, pc # "IDLE", NEW d \in Nat \ {0}, Takes(d)
  PROVE  /\ clock' \in Times /\ clock' \in Nat
         /\ clock < clock' /\ now <= clock'
         /\ clock' <= Scheduled(slot) + MaxLife
         /\ \A e \in events : e.received < clock'
<1>1. clock' \in Nat /\ clock < clock' /\ clock' <= Scheduled(slot) + MaxLife
  BY RunningFacts DEF Takes
<1>2. clock' \in Times
  BY <1>1, RunningFacts, TimeOfSlot
<1>3. now <= clock' /\ \A e \in events : e.received < clock'
  BY <1>1, RunningFacts
<1>4. QED
  BY <1>1, <1>2, <1>3

(* An event newer than all there is takes no other's file name.            *)
LEMMA WrittenIsNew ==
  ASSUME NEW new, \A e \in events, n \in new : e.received # n.received
  PROVE  Written(new) = events \cup new
  BY DEF Written

(* A step that observes open trajectories writes one event of each, newer  *)
(* than all there is, and closes none before its horizon.                  *)
NewObservations(new) ==
  /\ new \subseteq Event
  /\ events' = events \cup new
  /\ \A n \in new :
        /\ n.kind \in {"QUOTE", "HORIZON_CLOSE"}
        /\ n.traj \in Opened \ Closed
        /\ n.kind = "HORIZON_CLOSE" => n.received >= n.traj.decided + Horizon
        /\ n.received = clock'
        /\ \A e \in events : e.received < n.received
  /\ \A m, n \in new : m.traj = n.traj => m = n

LEMMA Observations ==
  ASSUME DayInv, NEW new, NewObservations(new)
  PROVE  /\ Of("CANDIDATE")' = Of("CANDIDATE")
         /\ OpenToday' = OpenToday
         /\ OneCandidatePerSymbol' /\ ClosedOnceAtHorizon' /\ FilesHaveTheirSlot'
<1> USE DEF Of, NewObservations
<1>1. Of("CANDIDATE")' = Of("CANDIDATE")
  OBVIOUS
<1>2. OpenToday' = OpenToday
  BY <1>1 DEF OpenToday, Opened
<1>3. FilesHaveTheirSlot'
  BY <1>1 DEF DayInv, FilesHaveTheirSlot, Fires, Roomy
<1>4. OneCandidatePerSymbol'
  BY <1>1 DEF DayInv, OneCandidatePerSymbol
<1>5. ClosedOnceAtHorizon'
  <2>1. \A e \in events : e.kind = "HORIZON_CLOSE" => \A n \in new : n.traj # e.traj
    BY DEF Closed
  <2>2. \A e, f \in Of("HORIZON_CLOSE")' : e.traj = f.traj => e = f
    BY <2>1 DEF DayInv, ClosedOnceAtHorizon
  <2>3. \A e \in Of("HORIZON_CLOSE")' : e.received >= e.traj.decided + Horizon
    BY DEF DayInv, ClosedOnceAtHorizon
  <2>4. \A e \in Of("HORIZON_CLOSE")' : \A f \in EventsOf(e.traj)' : f.received <= e.received
    <3>1. TAKE e \in Of("HORIZON_CLOSE")'
    <3>2. TAKE f \in EventsOf(e.traj)'
    <3>3. CASE e \in events
      BY <2>1, <3>1, <3>2, <3>3 DEF DayInv, ClosedOnceAtHorizon, EventsOf
    <3>4. CASE e \in new /\ f \in events
      <4>1. f.received \in Int /\ e.received \in Int
        BY <3>4, EventTime DEF DayInv, TypeOK
      <4>2. QED
        BY <3>4, <4>1
    <3>5. CASE e \in new /\ f \in new
      <4>1. e = f
        BY <3>2, <3>5 DEF EventsOf
      <4>2. e.received \in Int
        BY <3>5, EventTime
      <4>3. QED
        BY <4>1, <4>2
    <3>6. QED
      BY <3>1, <3>2, <3>3, <3>4, <3>5 DEF EventsOf
  <2>5. \A e \in events' \ Of("CANDIDATE")' :
          \E c \in Of("CANDIDATE")' : c.traj = e.traj /\ c.received < e.received
    BY <1>1 DEF DayInv, ClosedOnceAtHorizon, Opened
  <2>6. QED
    BY <2>2, <2>3, <2>4, <2>5 DEF ClosedOnceAtHorizon
<1>6. QED
  BY <1>1, <1>2, <1>3, <1>4, <1>5

(* So does the candidate of a symbol that has none.                        *)
LEMMA NewCandidate ==
  ASSUME DayInv,
         NEW c \in Event, events' = events \cup {c},
         c.kind = "CANDIDATE", c.traj.sym \notin OpenToday,
         NEW s \in Slots, Fires(s, c.traj.decided), Roomy(s)
  PROVE  /\ Of("CANDIDATE")' = Of("CANDIDATE") \cup {c}
         /\ OpenToday' = OpenToday \cup {c.traj.sym}
         /\ {e \in events' : e.traj = c.traj} = {c}
         /\ OneCandidatePerSymbol' /\ ClosedOnceAtHorizon' /\ FilesHaveTheirSlot'
<1> USE DEF Of
<1>1. Of("CANDIDATE")' = Of("CANDIDATE") \cup {c}
  OBVIOUS
<1>2. OpenToday' = OpenToday \cup {c.traj.sym}
  BY <1>1 DEF OpenToday, Opened
<1>3. Of("HORIZON_CLOSE")' = Of("HORIZON_CLOSE") /\ Closed' = Closed
  BY DEF Closed
<1>4. \A e \in events : e.traj # c.traj
  BY DEF DayInv, ClosedOnceAtHorizon, OpenToday, Opened
<1>5. {e \in events' : e.traj = c.traj} = {c}
  BY <1>4
<1>6. OneCandidatePerSymbol'
  BY <1>1 DEF DayInv, OneCandidatePerSymbol, OpenToday, Opened
<1>7. ClosedOnceAtHorizon'
  BY <1>1, <1>3, <1>4 DEF DayInv, ClosedOnceAtHorizon, EventsOf
<1>8. FilesHaveTheirSlot'
  BY <1>1 DEF DayInv, FilesHaveTheirSlot, Fires, Roomy
<1>9. QED
  BY <1>1, <1>2, <1>3, <1>5, <1>6, <1>7, <1>8

(* Rules that only speak of the files survive a step that writes none.     *)
LEMMA FilesUntouched ==
  ASSUME DayInv, UNCHANGED events
  PROVE  /\ OpenToday' = OpenToday /\ Closed' = Closed /\ Opened' = Opened
         /\ Of("CANDIDATE")' = Of("CANDIDATE")
         /\ \A t : EventsOf(t)' = EventsOf(t)
         /\ OneCandidatePerSymbol' /\ ClosedOnceAtHorizon' /\ FilesHaveTheirSlot'
  BY DEF DayInv, OpenToday, FilesHaveTheirSlot, Fires, Roomy, Opened, Closed, Of, EventsOf, OneCandidatePerSymbol,
         ClosedOnceAtHorizon

LEMMA InitDayInv == Init => DayInv
<1> SUFFICES ASSUME Init PROVE DayInv
  OBVIOUS
<1>1. LastSlot \in Nat /\ 0 \in Times /\ Scheduled(0) = 0
  BY TimeOfSlot, ScheduledNat, TrajectoryAssumption DEF Slots, Scheduled
<1>2. TypeOK
  BY <1>1 DEF Init, TypeOK
<1>3. FilesAreOlder /\ FilesHaveTheirSlot /\ MemoryAgrees
  BY DEF Init, FilesAreOlder, FilesHaveTheirSlot, MemoryAgrees, Of
<1>4. OneCandidatePerSymbol /\ ClosedOnceAtHorizon /\ CalibrationRoundTrip
  BY DEF Init, OneCandidatePerSymbol, ClosedOnceAtHorizon, CalibrationRoundTrip, Of
<1>5. QED
  BY <1>2, <1>3, <1>4 DEF DayInv

(* A slot ends, whatever it has written and wherever it stops.             *)
LEMMA EndSlotKeeps ==
  ASSUME DayInv, slot \in Slots, EndSlot
  PROVE  DayInv'
<1>1. slot \in Nat /\ LastSlot \in Nat /\ slot' = slot + 1 /\ slot' \in 0..(LastSlot + 1)
  BY TrajectoryAssumption DEF EndSlot, Slots
<1>2. Scheduled(slot) \in Nat /\ Scheduled(slot') = Scheduled(slot) + Spacing
  BY <1>1, ScheduledNat, ScheduledStep
<1>3. 0 \in Times
  BY <1>1, <1>2, TimeOfSlot, TrajectoryAssumption
<1>4. TypeOK'
  BY <1>1, <1>3 DEF DayInv, TypeOK, EndSlot, calibration
<1>5. FilesAreOlder'
  <2>1. clock \in Nat /\ Spacing \in Nat
    BY TimesAreInts, TrajectoryAssumption DEF DayInv, TypeOK
  <2>2. \A e \in events : e.received <= clock' \/ e.received <= Scheduled(slot')
    <3> TAKE e \in events
    <3>1. e.received \in Nat
      BY EventTime DEF DayInv, TypeOK
    <3>2. e.received <= clock \/ e.received <= Scheduled(slot)
      BY DEF DayInv, FilesAreOlder
    <3>3. clock' = clock \/ clock <= Scheduled(slot')
      BY <1>1 DEF EndSlot
    <3>4. QED
      BY <1>2, <2>1, <3>1, <3>2, <3>3
  <2>3. QED
    BY <2>2 DEF EndSlot, FilesAreOlder
<1>6. MemoryAgrees'
  BY <1>1, FilesUntouched
  DEF DayInv, MemoryAgrees, TypeOK, EndSlot, calibration, Entry, Slots
<1>7. OneCandidatePerSymbol' /\ ClosedOnceAtHorizon' /\ FilesHaveTheirSlot' /\ CalibrationRoundTrip'
  BY FilesUntouched DEF DayInv, EndSlot, calibration, CalibrationRoundTrip
<1>8. QED
  BY <1>4, <1>5, <1>6, <1>7 DEF DayInv

(* A running slot that goes on without touching calibration trade, memory  *)
(* or clock; the actions below differ in where they go.                    *)
LEMMA SkipKeeps ==
  ASSUME DayInv, pc \notin {"IDLE", "FINISH"},
         NEW next \in {"OPEN", "EACH", "CALIBRATE", "FINISH"}, Goto(next),
         next = "OPEN" => pc = "REFRESH",
         fresh' \subseteq fresh, probing' = None, pc = "WINDOW" \/ probing = None,
         UNCHANGED <<clock, events, calibration>>
  PROVE  DayInv'
<1> USE DEF Goto, calibration
<1>1. TypeOK'
  BY DEF DayInv, TypeOK
<1>2. FilesAreOlder'
  BY DEF DayInv, FilesAreOlder
<1>3. MemoryAgrees'
  BY FilesUntouched DEF DayInv, MemoryAgrees, Roomy
<1>4. OneCandidatePerSymbol' /\ ClosedOnceAtHorizon' /\ FilesHaveTheirSlot' /\ CalibrationRoundTrip'
  BY FilesUntouched DEF DayInv, CalibrationRoundTrip
<1>5. QED
  BY <1>1, <1>2, <1>3, <1>4 DEF DayInv

(* The fill window's probe is not due before the candidate's own quote.    *)
LEMMA ProbeTime ==
  ASSUME NEW a \in Int, NEW b \in Int
  PROVE  Max({a, b}) \in Int /\ Max({a, b}) >= a
<1>1. \E x \in {a, b} : \A y \in {a, b} : x >= y
  <2>1. CASE a >= b
    BY <2>1
  <2>2. CASE b >= a
    BY <2>2
  <2>3. QED
    BY <2>1, <2>2
<1>2. Max({a, b}) \in {a, b} /\ \A y \in {a, b} : Max({a, b}) >= y
  BY <1>1 DEF Max
<1>3. QED
  BY <1>2

(* The rest of a running slot's invariant, once it has called the broker.  *)
LEMMA CallKeepsFilesOlder ==
  ASSUME DayInv, pc # "IDLE", NEW d \in Nat \ {0}, Takes(d),
         NEW next, Goto(next), next # "IDLE",
         \A e \in events' : e \in events \/ e.received <= clock'
  PROVE  FilesAreOlder'
<1>1. slot' = slot /\ now' = now /\ pc' = next /\ slot \in Slots
  BY RunningFacts DEF Goto
<1>2. /\ Scheduled(slot) <= now /\ now <= Scheduled(slot) + MaxLag
      /\ now <= clock' /\ clock' <= Scheduled(slot) + MaxLife
  BY CallFacts, RunningFacts DEF Fires
<1>3. \A e \in events : e.received <= clock'
  <2> TAKE e \in events
  <2>1. e.received < clock' /\ e.received \in Nat /\ clock' \in Nat
    BY CallFacts, RunningFacts
  <2>2. QED
    BY <2>1
<1>4. QED
  BY <1>1, <1>2, <1>3 DEF FilesAreOlder

(* Step 3 of a slot observes trajectories that have no close.              *)
LEMMA RefreshWrites ==
  ASSUME DayInv, Refresh
  PROVE  \E d \in Delays : Takes(d) /\ \E new : NewObservations(new)
<1>1. PICK d \in Delays, answered \in SUBSET Probed(Targets), priced \in SUBSET Opened :
        /\ Takes(d)
        /\ events' = Written({[traj |-> t, kind |-> TargetKind(t),
                               received |-> clock', good |-> t \in priced]
                              : t \in answered})
  <2>1. PICK d \in Delays :
          /\ Takes(d)
          /\ \E answered \in SUBSET Probed(Targets) : \E priced \in SUBSET answered :
                events' = Written({[traj |-> t, kind |-> TargetKind(t),
                                    received |-> clock', good |-> t \in priced]
                                   : t \in answered})
    BY DEF Refresh
  <2>2. \A answered \in SUBSET Probed(Targets) : SUBSET answered \subseteq SUBSET Opened
    BY DEF Probed, Targets
  <2>3. QED
    BY <2>1, <2>2
<1> DEFINE new == {[traj |-> t, kind |-> TargetKind(t),
                    received |-> clock', good |-> t \in priced] : t \in answered}
<1>2. d \in Nat \ {0} /\ pc = "REFRESH"
  BY TrajectoryAssumption DEF Refresh
<1>3. /\ clock' \in Times /\ clock' \in Nat /\ now <= clock'
      /\ \A e \in events : e.received < clock'
  BY <1>1, <1>2, CallFacts
<1>4. answered \subseteq Opened \ Closed /\ Opened \subseteq Trajectories
  BY DEF Probed, Targets, DayInv, TypeOK, Opened, Of, Event
<1>5. new \subseteq Event
  <2> SUFFICES ASSUME NEW t \in answered
               PROVE  [traj |-> t, kind |-> TargetKind(t),
                       received |-> clock', good |-> t \in priced] \in Event
    OBVIOUS
  <2>1. t \in Trajectories /\ TargetKind(t) \in Kinds
    BY <1>4 DEF TargetKind, Kinds
  <2>2. (t \in priced) \in BOOLEAN
    OBVIOUS
  <2>3. QED
    BY <1>3, <2>1, <2>2 DEF Event
<1>6. \A n \in new : /\ n.kind \in {"QUOTE", "HORIZON_CLOSE"}
                     /\ n.traj \in Opened \ Closed
                     /\ n.received = clock'
  BY <1>1, <1>2, <1>4 DEF TargetKind
<1>7. \A n \in new : n.kind = "HORIZON_CLOSE" => n.received >= n.traj.decided + Horizon
  <2> SUFFICES ASSUME NEW t \in answered, TargetKind(t) = "HORIZON_CLOSE"
               PROVE  clock' >= t.decided + Horizon
    OBVIOUS
  <2>1. now >= t.decided + Horizon
    BY DEF TargetKind
  <2>2. t.decided \in Nat /\ Horizon \in Nat /\ now \in Nat
    BY <1>2, <1>4, TimesAreInts, TrajectoryAssumption, RunningFacts DEF Trajectories
  <2>3. QED
    BY <1>3, <2>1, <2>2
<1>8. events' = events \cup new
  BY <1>1, <1>3, <1>6, WrittenIsNew, EventTime DEF DayInv, TypeOK
<1>9. \A m, n \in new : m.traj = n.traj => m = n
  OBVIOUS
<1> HIDE DEF new
<1>10. NewObservations(new)
  BY <1>3, <1>5, <1>6, <1>7, <1>8, <1>9 DEF NewObservations
<1>11. QED
  BY <1>1, <1>10

(* The fill window's probe observes the candidate the slot watches.        *)
LEMMA ObserveWrites ==
  ASSUME DayInv, ObserveWindow
  PROVE  \E d \in Nat \ {0} :
           Takes(d) /\ \E quote : /\ NewObservations({quote})
                                 /\ quote.kind = "QUOTE" /\ quote.traj = probing.traj
<1> DEFINE fireAt == Max({clock, probing.received + Window - ProbeBudget})
<1>1. PICK d \in Delays, meets \in BOOLEAN :
        /\ Takes(fireAt - clock + d)
        /\ events' = Written({[traj |-> probing.traj, kind |-> "QUOTE",
                               received |-> clock', good |-> meets]})
  BY DEF ObserveWindow
<1> DEFINE quote == [traj |-> probing.traj, kind |-> "QUOTE",
                     received |-> clock', good |-> meets]
<1>2. /\ pc = "WINDOW" /\ probing \in events /\ probing \in Event
      /\ probing.kind = "CANDIDATE" /\ probing.traj \notin Closed
  BY DEF ObserveWindow, DayInv, MemoryAgrees, TypeOK, Of, EventsOf, Closed
<1>3. fireAt - clock + d \in Nat \ {0}
  <2>1. clock \in Nat /\ probing.received \in Nat /\ d \in Nat \ {0}
        /\ Window \in Nat /\ ProbeBudget \in Nat
    BY <1>2, EventTime, RunningFacts, TrajectoryAssumption
  <2>2. fireAt \in Int /\ fireAt >= clock
    BY <2>1, ProbeTime
  <2> HIDE DEF fireAt
  <2>3. QED
    BY <2>1, <2>2
<1> HIDE DEF fireAt
<1>4. clock' \in Times /\ \A e \in events : e.received < clock' /\ e.received \in Nat
  BY <1>1, <1>2, <1>3, CallFacts, RunningFacts
<1>5. quote \in Event
  BY <1>2, <1>4 DEF Event, Kinds
<1>6. probing.traj \in Opened \ Closed
  BY <1>2 DEF Opened, Of
<1>7. events' = events \cup {quote}
  BY <1>1, <1>4, WrittenIsNew
<1>8. /\ quote.kind = "QUOTE" /\ quote.traj = probing.traj /\ quote.received = clock'
      /\ \A e \in events : e.received < quote.received
  BY <1>1, <1>2, <1>3, <1>4
<1> HIDE DEF quote
<1>9. NewObservations({quote})
  BY <1>5, <1>6, <1>7, <1>8 DEF NewObservations
<1>10. QED
  BY <1>1, <1>3, <1>8, <1>9

(* Step 4 writes the candidate of a symbol that has none.                  *)
LEMMA OpenWrites ==
  ASSUME DayInv, NEW sym \in Symbols, OpenCandidate(sym)
  PROVE  \E d \in Delays :
           /\ Takes(d)
           /\ probing' \in Event /\ probing'.kind = "CANDIDATE" /\ probing'.traj.sym = sym
           /\ probing'.traj.decided = now /\ probing'.received = clock'
           /\ sym \notin OpenToday /\ Roomy(slot)
           /\ events' = events \cup {probing'}
<1>1. PICK d \in Delays, priced \in BOOLEAN :
        /\ Takes(d)
        /\ probing' = [traj |-> [sym |-> sym, decided |-> now], kind |-> "CANDIDATE",
                       received |-> clock', good |-> priced]
  BY DEF OpenCandidate
<1>2. d \in Nat \ {0} /\ pc = "EACH" /\ sym \notin OpenToday /\ Roomy(slot)
  BY TrajectoryAssumption DEF OpenCandidate, DayInv, MemoryAgrees
<1>3. /\ clock' \in Times /\ now \in Times
      /\ \A e \in events : e.received < clock' /\ e.received \in Nat
  BY <1>1, <1>2, CallFacts, RunningFacts DEF DayInv, TypeOK
<1>4. /\ probing' \in Event /\ probing'.kind = "CANDIDATE" /\ probing'.traj.sym = sym
      /\ probing'.traj.decided = now /\ probing'.received = clock'
  BY <1>1, <1>3 DEF Event, Kinds, Trajectories
<1>5. \A e \in events : e.received # probing'.received
  BY <1>1, <1>3
<1>6. events' = events \cup {probing'}
  BY <1>5, WrittenIsNew DEF OpenCandidate
<1>7. QED
  BY <1>1, <1>2, <1>4, <1>6

LEMMA StepDayInv ==
  ASSUME DayInv, [Next]_vars
  PROVE  DayInv'
<1>1. ASSUME Start
      PROVE  DayInv'
  <2>1. PICK lag \in 0..MaxLag : now' = Scheduled(slot) + lag /\ clock <= now'
    BY <1>1 DEF Start
  <2>2. slot \in Slots /\ slot \in Nat /\ Scheduled(slot) \in Nat
    BY <1>1, ScheduledNat DEF Start, Slots
  <2>3. lag \in Nat /\ lag <= MaxLag /\ lag <= MaxLife /\ MaxLag \in Nat /\ MaxLife \in Nat
    BY TrajectoryAssumption
  <2>4. now' \in Times /\ clock' = now' /\ now' <= Scheduled(slot) + MaxLife
    BY <1>1, <2>1, <2>2, <2>3, TimeOfSlot DEF Start
  <2>5. TypeOK'
    BY <1>1, <2>4 DEF Start, DayInv, TypeOK, calibration
  <2>6. FilesAreOlder'
    <3>1. \A e \in events : e.received <= clock'
      <4> TAKE e \in events
      <4>1. e.received \in Nat /\ clock \in Nat
        BY EventTime, TimesAreInts DEF DayInv, TypeOK
      <4>2. e.received <= clock \/ e.received <= Scheduled(slot)
        BY DEF DayInv, FilesAreOlder
      <4>3. QED
        BY <2>1, <2>2, <2>3, <2>4, <4>1, <4>2
    <3>2. QED
      BY <1>1, <2>1, <2>2, <2>3, <2>4, <3>1 DEF Start, FilesAreOlder
  <2>7. MemoryAgrees'
    BY <1>1, FilesUntouched DEF Start, DayInv, MemoryAgrees, Roomy, calibration
  <2>8. OneCandidatePerSymbol' /\ ClosedOnceAtHorizon' /\ FilesHaveTheirSlot' /\ CalibrationRoundTrip'
    BY <1>1, FilesUntouched DEF Start, DayInv, CalibrationRoundTrip, calibration
  <2>9. QED
    BY <2>5, <2>6, <2>7, <2>8 DEF DayInv
<1>2. CASE Miss \/ Die \/ Finish
  BY <1>2, EndSlotKeeps, RunningFacts DEF Miss, Die, Finish
<1>3. ASSUME Evaluate
      PROVE  DayInv'
  <2>1. PICK d \in Delays : Takes(d)
    BY <1>3 DEF Evaluate
  <2>2. d \in Nat \ {0} /\ pc = "EVALUATE"
    BY <1>3, TrajectoryAssumption DEF Evaluate
  <2>3. TypeOK'
    BY <1>3, <2>1, <2>2, CallFacts DEF Evaluate, Goto, DayInv, TypeOK, calibration
  <2>4. FilesAreOlder'
    BY <1>3, <2>1, <2>2, CallKeepsFilesOlder DEF Evaluate
  <2>5. MemoryAgrees'
    BY <1>3, <2>2, FilesUntouched DEF Evaluate, Goto, DayInv, MemoryAgrees, Roomy, calibration
  <2>6. OneCandidatePerSymbol' /\ ClosedOnceAtHorizon' /\ FilesHaveTheirSlot' /\ CalibrationRoundTrip'
    BY <1>3, FilesUntouched DEF Evaluate, DayInv, CalibrationRoundTrip, calibration
  <2>7. QED
    BY <2>3, <2>4, <2>5, <2>6 DEF DayInv
<1>4. ASSUME Refresh
      PROVE  DayInv'
  <2>1. PICK d \in Delays : Takes(d) /\ \E new : NewObservations(new)
    BY <1>4, RefreshWrites
  <2>2. PICK new : NewObservations(new)
    BY <2>1
  <2>3. d \in Nat \ {0} /\ pc = "REFRESH" /\ probing = None
    BY <1>4, TrajectoryAssumption DEF Refresh, DayInv, TypeOK
  <2>4. clock' \in Times /\ clock' <= clock'
    BY <2>1, <2>3, CallFacts
  <2>5. /\ OpenToday' = OpenToday /\ Of("CANDIDATE")' = Of("CANDIDATE")
        /\ OneCandidatePerSymbol' /\ ClosedOnceAtHorizon' /\ FilesHaveTheirSlot'
    BY <2>2, Observations
  <2>6. TypeOK'
    BY <1>4, <2>2, <2>3, <2>4 DEF Refresh, Goto, DayInv, TypeOK, NewObservations, calibration
  <2>7. FilesAreOlder'
    <3>1. \A e \in events' : e \in events \/ e.received <= clock'
      BY <2>2, <2>4 DEF NewObservations
    <3>2. QED
      BY <1>4, <2>1, <2>3, <3>1, CallKeepsFilesOlder DEF Refresh
  <2>8. MemoryAgrees'
    BY <1>4, <2>3, <2>5 DEF Refresh, Goto, DayInv, MemoryAgrees, Roomy, calibration
  <2>9. CalibrationRoundTrip'
    BY <1>4 DEF Refresh, DayInv, CalibrationRoundTrip, calibration
  <2>10. QED
    BY <2>5, <2>6, <2>7, <2>8, <2>9 DEF DayInv
<1>5. ASSUME RefreshNothing \/ OpenDone \/ WindowUnobserved \/ CalibrationSkip
      PROVE  DayInv'
  <2>1. pc \notin {"IDLE", "FINISH"} /\ (pc = "WINDOW" \/ probing = None)
    BY <1>5 DEF RefreshNothing, OpenDone, WindowUnobserved, CalibrationSkip, DayInv, TypeOK
  <2>2. UNCHANGED <<clock, events, calibration>> /\ fresh' \subseteq fresh /\ probing' = None
    BY <1>5 DEF RefreshNothing, OpenDone, WindowUnobserved, CalibrationSkip, DayInv, TypeOK
  <2>3. \/ pc = "REFRESH" /\ Goto("OPEN")
        \/ Goto("EACH") \/ Goto("CALIBRATE") \/ Goto("FINISH")
    BY <1>5 DEF RefreshNothing, OpenDone, WindowUnobserved, CalibrationSkip
  <2>4. QED
    BY <2>1, <2>2, <2>3, SkipKeeps
<1>6. ASSUME NEW sym \in Symbols, SkipCandidate(sym)
      PROVE  DayInv'
  <2>1. pc = "EACH" /\ probing = None /\ probing' = None /\ Goto("EACH")
    BY <1>6 DEF SkipCandidate, slotVars, Goto, DayInv, TypeOK
  <2>2. UNCHANGED <<clock, events, calibration>> /\ fresh' \subseteq fresh
    BY <1>6 DEF SkipCandidate, slotVars
  <2>3. QED
    BY <2>1, <2>2, SkipKeeps
<1>7. ASSUME OpenFresh
      PROVE  DayInv'
  <2>1. fresh' \subseteq Symbols \ OpenToday
    BY <1>7 DEF OpenFresh, kSubset
  <2>2. pc = "OPEN" /\ probing = None
    BY <1>7 DEF OpenFresh, DayInv, TypeOK
  <2>3. fresh' # {} => Roomy(slot)
    <3> SUFFICES ASSUME Observable PROVE Roomy(slot)
      BY <1>7 DEF OpenFresh
    <3>1. /\ slot \in Slots /\ now \in Nat /\ Scheduled(slot) \in Nat
          /\ Scheduled(slot) <= now
      BY <2>2, RunningFacts DEF Fires
    <3>2. Scheduled(slot) <= now - (now % Minute)
      BY <3>1, MinuteOfSlot
    <3>3. /\ Scheduled(LastSlot) \in Nat /\ Horizon \in Nat
          /\ now % Minute \in Int
      BY <3>1, ScheduledNat, TrajectoryAssumption
    <3>4. QED
      BY <3>1, <3>2, <3>3 DEF Observable, Roomy
  <2>4. TypeOK'
    BY <1>7, <2>1, <2>2 DEF OpenFresh, Goto, DayInv, TypeOK, calibration
  <2>5. FilesAreOlder'
    BY <1>7, <2>2 DEF OpenFresh, Goto, DayInv, FilesAreOlder
  <2>6. MemoryAgrees'
    BY <1>7, <2>1, <2>2, <2>3, FilesUntouched
    DEF OpenFresh, Goto, DayInv, MemoryAgrees, calibration
  <2>7. OneCandidatePerSymbol' /\ ClosedOnceAtHorizon' /\ FilesHaveTheirSlot' /\ CalibrationRoundTrip'
    BY <1>7, FilesUntouched DEF OpenFresh, DayInv, CalibrationRoundTrip, calibration
  <2>8. QED
    BY <2>4, <2>5, <2>6, <2>7 DEF DayInv
<1>8. ASSUME NEW sym \in Symbols, OpenCandidate(sym)
      PROVE  DayInv'
  <2>1. PICK d \in Delays :
          /\ Takes(d)
          /\ probing' \in Event /\ probing'.kind = "CANDIDATE" /\ probing'.traj.sym = sym
          /\ probing'.traj.decided = now /\ probing'.received = clock'
          /\ sym \notin OpenToday /\ Roomy(slot)
          /\ events' = events \cup {probing'}
    BY <1>8, OpenWrites
  <2>2. d \in Nat \ {0} /\ pc = "EACH"
    BY <1>8, TrajectoryAssumption DEF OpenCandidate
  <2>3. clock' \in Times /\ clock' <= clock'
    BY <2>1, <2>2, CallFacts
  <2>4. /\ Of("CANDIDATE")' = Of("CANDIDATE") \cup {probing'}
        /\ OpenToday' = OpenToday \cup {sym}
        /\ {e \in events' : e.traj = probing'.traj} = {probing'}
        /\ OneCandidatePerSymbol' /\ ClosedOnceAtHorizon' /\ FilesHaveTheirSlot'
    <3>1. slot \in Slots /\ Fires(slot, probing'.traj.decided)
      BY <2>1, <2>2, RunningFacts
    <3>2. QED
      BY <2>1, <3>1, NewCandidate
  <2>5. TypeOK'
    BY <1>8, <2>1, <2>2, <2>3, NoneAssumption
    DEF OpenCandidate, Goto, DayInv, TypeOK, calibration
  <2>6. FilesAreOlder'
    BY <1>8, <2>1, <2>2, <2>3, CallKeepsFilesOlder DEF OpenCandidate
  <2>7. MemoryAgrees'
    BY <1>8, <2>2, <2>4
    DEF OpenCandidate, Goto, DayInv, MemoryAgrees, Roomy, EventsOf, calibration
  <2>8. CalibrationRoundTrip'
    BY <1>8 DEF OpenCandidate, DayInv, CalibrationRoundTrip, calibration
  <2>9. QED
    BY <2>4, <2>5, <2>6, <2>7, <2>8 DEF DayInv
<1>9. ASSUME ObserveWindow
      PROVE  DayInv'
  <2>1. PICK d \in Nat \ {0} : Takes(d) /\ \E quote : NewObservations({quote})
    BY <1>9, ObserveWrites
  <2>2. PICK quote : NewObservations({quote})
    BY <2>1
  <2>3. pc = "WINDOW"
    BY <1>9 DEF ObserveWindow
  <2>4. clock' \in Times /\ clock' <= clock'
    BY <2>1, <2>3, CallFacts
  <2>5. /\ OpenToday' = OpenToday
        /\ OneCandidatePerSymbol' /\ ClosedOnceAtHorizon' /\ FilesHaveTheirSlot'
    BY <2>2, Observations
  <2>6. TypeOK'
    BY <1>9, <2>2, <2>3, <2>4
    DEF ObserveWindow, Goto, DayInv, TypeOK, NewObservations, calibration
  <2>7. FilesAreOlder'
    <3>1. \A e \in events' : e \in events \/ e.received <= clock'
      BY <2>2, <2>4 DEF NewObservations
    <3>2. QED
      BY <1>9, <2>1, <2>3, <3>1, CallKeepsFilesOlder DEF ObserveWindow
  <2>8. MemoryAgrees'
    BY <1>9, <2>3, <2>5 DEF ObserveWindow, Goto, DayInv, MemoryAgrees, Roomy, calibration
  <2>9. CalibrationRoundTrip'
    BY <1>9 DEF ObserveWindow, DayInv, CalibrationRoundTrip, calibration
  <2>10. QED
    BY <2>5, <2>6, <2>7, <2>8, <2>9 DEF DayInv
<1>10. ASSUME CalibrationEnter
       PROVE  DayInv'
  <2>1. PICK d \in Delays : Takes(d)
    BY <1>10 DEF CalibrationEnter
  <2>2. d \in Nat \ {0} /\ pc = "CALIBRATE" /\ slot \in Slots
    BY <1>10, TrajectoryAssumption, RunningFacts DEF CalibrationEnter
  <2>3. clock' \in Times /\ entry' \in Entry /\ entry' # None /\ entry'.slot = slot
    BY <1>10, <2>1, <2>2, CallFacts, NoneAssumption DEF CalibrationEnter, Entry
  <2>4. TypeOK'
    BY <1>10, <2>2, <2>3 DEF CalibrationEnter, Goto, DayInv, TypeOK
  <2>5. FilesAreOlder'
    BY <1>10, <2>1, <2>2, CallKeepsFilesOlder DEF CalibrationEnter
  <2>6. MemoryAgrees'
    BY <1>10, <2>2, <2>3, FilesUntouched DEF CalibrationEnter, Goto, DayInv, MemoryAgrees, Roomy
  <2>7. OneCandidatePerSymbol' /\ ClosedOnceAtHorizon' /\ FilesHaveTheirSlot'
    BY <1>10, FilesUntouched DEF CalibrationEnter
  <2>8. CalibrationRoundTrip'
    BY <1>10, <2>3 DEF CalibrationEnter, EntryAllowed, DayInv, CalibrationRoundTrip
  <2>9. QED
    BY <2>4, <2>5, <2>6, <2>7, <2>8 DEF DayInv
<1>11. ASSUME CalibrationExit
       PROVE  DayInv'
  <2>1. PICK d \in Delays, reason \in ExitDue :
          Takes(d) /\ exit' = [slot |-> slot, at |-> clock', reason |-> reason]
    BY <1>11 DEF CalibrationExit
  <2>2. d \in Nat \ {0} /\ pc = "CALIBRATE" /\ slot \in Slots /\ entry \in Entry /\ entry # None
    BY <1>11, TrajectoryAssumption, RunningFacts DEF CalibrationExit, DayInv, TypeOK
  <2>3. /\ clock' \in Times /\ clock' \in Nat /\ now <= clock'
        /\ now \in Nat /\ entry.at \in Nat
    BY <2>1, <2>2, CallFacts, RunningFacts, TimesAreInts DEF Entry
  <2>4. /\ reason \in {"HORIZON", "FORCED"}
        /\ reason = "HORIZON" => now - entry.at >= Hold
    BY DEF ExitDue
  <2>5. exit' \in Exit
    BY <2>1, <2>2, <2>3, <2>4 DEF Exit
  <2>6. TypeOK'
    BY <1>11, <2>2, <2>3, <2>5 DEF CalibrationExit, Goto, DayInv, TypeOK
  <2>7. FilesAreOlder'
    BY <1>11, <2>1, <2>2, CallKeepsFilesOlder DEF CalibrationExit
  <2>8. MemoryAgrees'
    BY <1>11, <2>2, FilesUntouched DEF CalibrationExit, Goto, DayInv, MemoryAgrees, Roomy
  <2>9. OneCandidatePerSymbol' /\ ClosedOnceAtHorizon' /\ FilesHaveTheirSlot'
    BY <1>11, FilesUntouched DEF CalibrationExit
  <2>10. CalibrationRoundTrip'
    <3>1. exit'.at - entry.at >= Hold \/ exit'.reason = "FORCED"
      BY <2>1, <2>3, <2>4, TrajectoryAssumption
    <3>2. slot > entry.slot
      BY <2>2 DEF DayInv, MemoryAgrees, Entry, Slots
    <3>3. QED
      BY <1>11, <2>1, <2>2, <3>1, <3>2 DEF CalibrationExit, DayInv, CalibrationRoundTrip
  <2>11. QED
    BY <2>6, <2>7, <2>8, <2>9, <2>10 DEF DayInv
<1>12. CASE UNCHANGED vars
  <2>1. TypeOK' /\ FilesAreOlder' /\ CalibrationRoundTrip'
    BY <1>12 DEF vars, DayInv, TypeOK, FilesAreOlder, CalibrationRoundTrip
  <2>2. MemoryAgrees' /\ OneCandidatePerSymbol' /\ ClosedOnceAtHorizon' /\ FilesHaveTheirSlot'
    BY <1>12, FilesUntouched DEF vars, DayInv, MemoryAgrees, Roomy
  <2>3. QED
    BY <2>1, <2>2 DEF DayInv
<1>13. QED
  BY <1>1, <1>2, <1>3, <1>4, <1>5, <1>6, <1>7, <1>8, <1>9, <1>10, <1>11, <1>12 DEF Next
-----------------------------------------------------------------------------
(* The inductive invariant holds in every state of every day: the types,   *)
(* the age of the files, what a slot remembers and the rules below.        *)
THEOREM DayInvariant == Spec => []DayInv
  BY InitDayInv, StepDayInv, PTL DEF Spec

(* A symbol has at most one candidate a day (deterministic_slots.py:380-381). *)
THEOREM OneCandidatePerSymbolHolds == Spec => []OneCandidatePerSymbol
<1>1. DayInv => OneCandidatePerSymbol
  BY DEF DayInv
<1>2. QED
  BY <1>1, DayInvariant, PTL

(* A trajectory is closed once, not before its horizon, and is not         *)
(* observed after that; nothing is observed that was not opened.           *)
THEOREM ClosedOnceAtHorizonHolds == Spec => []ClosedOnceAtHorizon
<1>1. DayInv => ClosedOnceAtHorizon
  BY DEF DayInv
<1>2. QED
  BY <1>1, DayInvariant, PTL

(* The calibration trade is closed by a later slot than entered it, after  *)
(* the holding time or because the exit was forced.                        *)
THEOREM CalibrationRoundTripHolds == Spec => []CalibrationRoundTrip
<1>1. DayInv => CalibrationRoundTrip
  BY DEF DayInv
<1>2. QED
  BY <1>1, DayInvariant, PTL

(* The calibration records are never overwritten (write_once).             *)
THEOREM CalibrationWrittenOnceHolds == Spec => CalibrationWrittenOnce
<1> DEFINE Kept == /\ entry # None => entry' = entry
                   /\ exit # None => exit' = exit
<1>1. [Next]_vars => [Kept]_vars
  BY DEF Next, vars, slotVars, calibration, Goto, Takes, Start, EndSlot, Miss, Die,
         Finish, Evaluate, Refresh, RefreshNothing, OpenFresh, OpenCandidate,
         SkipCandidate, OpenDone, ObserveWindow, WindowUnobserved,
         CalibrationEnter, CalibrationExit, CalibrationSkip
<1>2. QED
  BY <1>1, PTL DEF Spec, CalibrationWrittenOnce

(* The candidate on disk of an opened trajectory, and the one slot that    *)
(* decided on it.                                                          *)
LEMMA CandidateFacts ==
  ASSUME DayInv, NEW t \in Opened
  PROVE  /\ CandidateOf(t) \in Of("CANDIDATE") /\ CandidateOf(t).traj = t
         /\ \E s \in Slots : Roomy(s) /\ t.decided \div Spacing = s
<1>1. PICK c \in events : c.kind = "CANDIDATE" /\ c.traj = t
  BY DEF Opened, Of
<1>2. CandidateOf(t) \in EventsOf(t) /\ CandidateOf(t).kind = "CANDIDATE"
  BY <1>1 DEF CandidateOf, EventsOf
<1>3. CandidateOf(t) \in Of("CANDIDATE") /\ CandidateOf(t).traj = t
  BY <1>2 DEF EventsOf, Of
<1>4. PICK s \in Slots : Fires(s, t.decided) /\ Roomy(s)
  BY <1>3 DEF DayInv, FilesHaveTheirSlot
<1>5. t.decided \in Nat
  BY <1>3, TimesAreInts DEF DayInv, TypeOK, Of, Event, Trajectories
<1>6. Scheduled(s) \in Nat /\ MaxLag \in Nat /\ Spacing \in Nat /\ MaxLag < Spacing
  BY ScheduledNat, TrajectoryAssumption DEF Slots
<1>7. Scheduled(s) <= t.decided /\ t.decided < Scheduled(s) + Spacing
  BY <1>4, <1>5, <1>6 DEF Fires
<1>8. t.decided \div Spacing = s
  BY <1>5, <1>7, SlotOfTime
<1>9. QED
  BY <1>3, <1>4, <1>8

(* A candidate is only opened while a slot is still to come that may see   *)
(* it reach its horizon (_horizon_is_observable).                          *)
THEOREM OpenedCanCloseHolds == Spec => []OpenedCanClose
<1>1. DayInv => OpenedCanClose
  BY CandidateFacts DEF OpenedCanClose, Roomy
<1>2. QED
  BY <1>1, DayInvariant, PTL

-----------------------------------------------------------------------------
(* The report.  Its verdict on a trajectory depends on that trajectory's   *)
(* files alone.                                                            *)
LEMMA SameFilesSameOutcome ==
  ASSUME NEW t, EventsOf(t)' = EventsOf(t)
  PROVE  Outcome(t)' = Outcome(t)
<1>1. CandidateOf(t)' = CandidateOf(t) /\ FirstClose(t)' = FirstClose(t)
  BY DEF CandidateOf, FirstClose
<1>2. FillQuotes(t)' = FillQuotes(t) /\ (LateQuote(t)' <=> LateQuote(t))
  BY <1>1 DEF FillQuotes, LateQuote
<1>3. (t \in Closed)' <=> t \in Closed
  BY DEF Closed, Of, EventsOf
<1>4. QED
  BY <1>1, <1>2, <1>3 DEF Outcome

(* One more observation leaves the candidate what it was.                  *)
LEMMA SameCandidate ==
  ASSUME DayInv, NEW t \in Opened, NEW n,
         EventsOf(t)' = EventsOf(t) \cup {n}, n.kind # "CANDIDATE"
  PROVE  CandidateOf(t)' = CandidateOf(t)
<1>1. CandidateOf(t) \in EventsOf(t) /\ CandidateOf(t).kind = "CANDIDATE"
  BY CandidateFacts DEF EventsOf, Of
<1>2. CandidateOf(t)' \in EventsOf(t) /\ CandidateOf(t)'.kind = "CANDIDATE"
  BY <1>1 DEF CandidateOf
<1>3. QED
  BY <1>1, <1>2 DEF DayInv, OneCandidatePerSymbol, EventsOf, Of

(* An observation after the fill window decides nothing about the fill.    *)
LEMMA LateObservation ==
  ASSUME DayInv, NEW t \in Opened \ Closed, NEW n \in Event,
         EventsOf(t)' = EventsOf(t) \cup {n},
         n.kind \in {"QUOTE", "HORIZON_CLOSE"},
         n.received > CandidateOf(t).received,
         n.received - CandidateOf(t).received > Window + Skew,
         \A e \in EventsOf(t) : e.received < n.received
  PROVE  \/ Outcome(t)' = Outcome(t)
         \/ Outcome(t) = "NO_FILL" /\ Outcome(t)' = "NO_FILL_WINDOW_EXPIRED"
         \/ Outcome(t) = "FILLED_NO_HORIZON_CLOSE" /\ Outcome(t)' = "FILLED_AND_EXITED"
<1>1. CandidateOf(t)' = CandidateOf(t)
  BY SameCandidate
<1>2. FillQuotes(t)' = FillQuotes(t)
  <2>1. CandidateOf(t) \in Event
    BY CandidateFacts DEF DayInv, TypeOK, Of
  <2>2. n.received \in Nat /\ CandidateOf(t).received \in Nat /\ Window + Skew \in Nat
    BY <2>1, EventTime, TrajectoryAssumption
  <2>3. QED
    BY <1>1, <2>2 DEF FillQuotes
<1>3. LateQuote(t) => LateQuote(t)'
  BY <1>1 DEF LateQuote
<1>4. QED
  BY <1>1, <1>2, <1>3 DEF Outcome

(* One inside the window may turn NO_FILL into a fill, or close a fill.     *)
LEMMA EarlyObservation ==
  ASSUME DayInv, NEW t \in Opened \ Closed, NEW n \in Event,
         EventsOf(t)' = EventsOf(t) \cup {n},
         n.kind \in {"QUOTE", "HORIZON_CLOSE"},
         n.received - CandidateOf(t).received <= Window + Skew,
         \A e \in EventsOf(t) : e.received < n.received
  PROVE  \/ Outcome(t)' = Outcome(t)
         \/ Outcome(t) = "NO_FILL" /\ Outcome(t)' = "FILLED_NO_HORIZON_CLOSE"
         \/ Outcome(t) = "FILLED_NO_HORIZON_CLOSE" /\ Outcome(t)' = "FILLED_AND_EXITED"
<1>1. CandidateOf(t)' = CandidateOf(t)
  BY SameCandidate
<1>2. ~LateQuote(t) /\ ~LateQuote(t)'
  <2>1. CandidateOf(t) \in Event /\ \A e \in EventsOf(t) : e \in Event
    BY CandidateFacts DEF DayInv, TypeOK, Of, EventsOf
  <2>2. /\ n.received \in Nat /\ CandidateOf(t).received \in Nat
        /\ Window \in Nat /\ Skew \in Nat
        /\ \A e \in EventsOf(t) : e.received \in Nat
    BY <2>1, EventTime, TrajectoryAssumption
  <2>3. \A e \in EventsOf(t)' : ~(e.received - CandidateOf(t).received > Window + Skew)
    BY <2>2
  <2>4. QED
    BY <1>1, <2>3 DEF LateQuote
<1>3. FillQuotes(t) \subseteq FillQuotes(t)'
  BY <1>1 DEF FillQuotes
<1>4. t \notin Closed
  OBVIOUS
<1>5. CASE n.kind = "QUOTE"
  <2>1. ~(t \in Closed)'
    BY <1>4, <1>5 DEF Closed, Of, EventsOf
  <2>2. QED
    BY <1>1, <1>2, <1>3, <1>4, <2>1 DEF Outcome
<1>6. CASE n.kind = "HORIZON_CLOSE"
  <2>1. FillQuotes(t)' = FillQuotes(t)
    BY <1>1, <1>6 DEF FillQuotes
  <2>2. QED
    BY <1>1, <1>2, <1>4, <2>1 DEF Outcome
<1>7. QED
  BY <1>5, <1>6

(* The probe of the fill window is the first observation of its candidate. *)
LEMMA FirstObservation ==
  ASSUME DayInv, NEW t \in Opened, NEW n \in Event,
         EventsOf(t) = {CandidateOf(t)}, EventsOf(t)' = EventsOf(t) \cup {n},
         n.kind = "QUOTE"
  PROVE  \/ Outcome(t)' = Outcome(t)
         \/ Outcome(t) = "NO_FILL" /\ Outcome(t)' = "NO_FILL_WINDOW_EXPIRED"
         \/ Outcome(t) = "NO_FILL" /\ Outcome(t)' = "FILLED_NO_HORIZON_CLOSE"
<1>1. CandidateOf(t)' = CandidateOf(t) /\ CandidateOf(t).kind = "CANDIDATE"
  BY SameCandidate, CandidateFacts DEF Of
<1>2. FillQuotes(t) = {} /\ ~LateQuote(t)
  BY <1>1 DEF FillQuotes, LateQuote
<1>3. ~(t \in Closed)'
  BY <1>1 DEF Closed, Of, EventsOf
<1>4. QED
  BY <1>1, <1>2, <1>3 DEF Outcome

(* What a step writes about a trajectory that was opened before: nothing,  *)
(* or one observation.                                                     *)
LEMMA WritesOf ==
  ASSUME DayInv, NEW new, NewObservations(new), NEW t \in Opened
  PROVE  \/ EventsOf(t)' = EventsOf(t)
         \/ \E n \in new : n.traj = t /\ EventsOf(t)' = EventsOf(t) \cup {n}
<1>1. EventsOf(t)' = EventsOf(t) \cup {n \in new : n.traj = t}
  BY DEF EventsOf, NewObservations
<1>2. CASE \E n \in new : n.traj = t
  <2>1. PICK n \in new : n.traj = t
    BY <1>2
  <2>2. {m \in new : m.traj = t} = {n}
    BY <2>1 DEF NewObservations
  <2>3. QED
    BY <1>1, <2>1, <2>2
<1>3. CASE ~\E n \in new : n.traj = t
  BY <1>1, <1>3
<1>4. QED
  BY <1>2, <1>3

(* A report built at any moment of the day is not taken back by a later    *)
(* one: verdicts only become final, and what becomes a fill does so by the *)
(* slot that watches the candidate or by one that starts before its fill   *)
(* window is over, however long slots live (eod_report.py:250-283).        *)
THEOREM ReportIsStableHolds == Spec => ReportIsStable
<1> DEFINE Becomes(t) ==
             Outcome(t)' # Outcome(t) =>
               \/ Outcome(t) = "NO_FILL" /\ Outcome(t)' = "NO_FILL_WINDOW_EXPIRED"
               \/ Outcome(t) = "FILLED_NO_HORIZON_CLOSE" /\ Outcome(t)' = "FILLED_AND_EXITED"
               \/ /\ Outcome(t) = "NO_FILL" /\ Outcome(t)' = "FILLED_NO_HORIZON_CLOSE"
                  /\ \/ pc = "WINDOW" /\ probing.traj = t
                     \/ pc = "REFRESH" /\ now <= CandidateOf(t).received + Window + Skew
           Stable == \A t \in Opened : Becomes(t)
<1>1. ASSUME DayInv, [Next]_vars PROVE Stable
  <2> SUFFICES ASSUME NEW t \in Opened PROVE Becomes(t)
    OBVIOUS
  <2>1. CASE EventsOf(t)' = EventsOf(t)
    BY <2>1, SameFilesSameOutcome
  <2>2. ASSUME Refresh PROVE Becomes(t)
    <3>1. PICK new : NewObservations(new)
      BY <1>1, <2>2, RefreshWrites
    <3>2. ASSUME NEW n \in new, n.traj = t, EventsOf(t)' = EventsOf(t) \cup {n}
          PROVE  Becomes(t)
      <4>1. /\ n \in Event /\ t \in Opened \ Closed
            /\ n.kind \in {"QUOTE", "HORIZON_CLOSE"} /\ n.received = clock'
            /\ \A e \in events : e.received < n.received
        BY <3>1, <3>2 DEF NewObservations
      <4>2. CandidateOf(t) \in events /\ CandidateOf(t) \in Event
            /\ CandidateOf(t) \in Of("CANDIDATE")
        BY <1>1, CandidateFacts DEF DayInv, TypeOK, Of
      <4>3. /\ CandidateOf(t).received \in Nat /\ n.received \in Nat
            /\ Window \in Nat /\ Skew \in Nat /\ now \in Nat
        BY <1>1, <2>2, <4>1, <4>2, EventTime, RunningFacts, TrajectoryAssumption DEF Refresh
      <4>4. \A e \in EventsOf(t) : e.received < n.received
        BY <4>1 DEF EventsOf
      <4>5. CASE n.received - CandidateOf(t).received > Window + Skew
        <5>1. n.received > CandidateOf(t).received
          BY <4>3, <4>5
        <5>2. QED
          BY <1>1, <3>2, <4>1, <4>4, <4>5, <5>1, LateObservation
      <4>6. CASE n.received - CandidateOf(t).received <= Window + Skew
        <5>1. pc = "REFRESH" /\ \E d \in Nat \ {0} : Takes(d)
          BY <2>2, TrajectoryAssumption DEF Refresh
        <5>2. now <= n.received
          BY <1>1, <4>1, <5>1, CallFacts
        <5>3. now <= CandidateOf(t).received + Window + Skew
          BY <4>3, <4>6, <5>2
        <5>4. QED
          BY <1>1, <3>2, <4>1, <4>4, <4>6, <5>1, <5>3, EarlyObservation
      <4>7. QED
        BY <4>3, <4>5, <4>6
    <3>3. QED
      BY <1>1, <2>1, <3>1, <3>2, WritesOf
  <2>3. ASSUME ObserveWindow PROVE Becomes(t)
    <3>1. PICK quote : /\ NewObservations({quote})
                       /\ quote.kind = "QUOTE" /\ quote.traj = probing.traj
      BY <1>1, <2>3, ObserveWrites
    <3>2. ASSUME quote.traj = t, EventsOf(t)' = EventsOf(t) \cup {quote}
          PROVE  Becomes(t)
      <4>1. pc = "WINDOW" /\ probing.traj = t /\ quote \in Event /\ EventsOf(t) = {probing}
        BY <1>1, <2>3, <3>1, <3>2 DEF ObserveWindow, NewObservations, DayInv, MemoryAgrees
      <4>2. CandidateOf(t) \in EventsOf(t)
        BY <1>1, CandidateFacts DEF EventsOf, Of
      <4>3. QED
        BY <1>1, <3>1, <3>2, <4>1, <4>2, FirstObservation
    <3>3. QED
      BY <1>1, <2>1, <3>1, <3>2, WritesOf
  <2>4. ASSUME NEW sym \in Symbols, OpenCandidate(sym) PROVE Becomes(t)
    <3>1. /\ probing'.traj.sym = sym /\ sym \notin OpenToday
          /\ events' = events \cup {probing'}
      BY <1>1, <2>4, OpenWrites
    <3>2. probing'.traj # t
      BY <3>1 DEF OpenToday
    <3>3. QED
      BY <2>1, <3>1, <3>2 DEF EventsOf
  <2>5. CASE UNCHANGED events
    BY <2>1, <2>5 DEF EventsOf
  <2>6. QED
    BY <1>1, <2>2, <2>3, <2>4, <2>5
    DEF Next, vars, slotVars, calibration, Start, EndSlot, Miss, Die, Finish,
        Evaluate, RefreshNothing, OpenFresh, SkipCandidate, OpenDone,
        WindowUnobserved, CalibrationEnter, CalibrationExit, CalibrationSkip
<1>2. DayInv /\ [Next]_vars => [Stable]_vars
  BY <1>1
<1>3. QED
  BY <1>2, DayInvariant, PTL DEF Spec, ReportIsStable
=============================================================================
