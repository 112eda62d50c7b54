---------------------- MODULE IncidentLifecycleProofs ----------------------
(***************************************************************************)
(* Incidents and alerts, for any runs, any number of incidents per run and *)
(* any number of ticks cut short: an open incident is closed by its        *)
(* resolution alone, an alert is filed as sent only after it was shown,    *)
(* and it is shown again only after a crash or a timeout of osascript.     *)
(* The last one is a matter of counting: ShowingsAreBudgeted charges every *)
(* showing, and every alert that is still to be shown, to an incident, to  *)
(* a crash or to a timeout.                                                *)
(***************************************************************************)
EXTENDS IncidentLifecycle, TLAPS

(* The run at hand and what its step has established.                      *)
TickMatches ==
    /\ tick.pc \in {"file", "alert", "move"} => \E r \in Runs : tick.run = {r}
    /\ tick.pc \in {"idle", "scan", "deliver"} => tick.run = {}
    /\ tick.pc \in {"deliver", "move"} => tick.todo \subseteq alert
    /\ tick.pc = "move" =>
         /\ tick.run \subseteq alert
         /\ \A r \in tick.run : notified[r] > 0

(* What cleanup found resolved stays resolved until it moves the file.     *)
ArchiverMatches ==
    \A r \in archiver : incident[r] = "resolved" /\ filed[r] < MaxFiled

(* The record on file is the last of those ever written.                   *)
RoomForRecord == \A r \in Runs : incident[r] = "none" => filed[r] < MaxFiled

(* An alert still to be shown, or still to be written.                     *)
ToBeShown(r) == IF r \in alert /\ ~(tick.pc = "move" /\ r \in tick.run) THEN 1 ELSE 0
ToBeWritten(r) == IF tick.pc = "alert" /\ r \in tick.run THEN 1 ELSE 0

ShowingsAreBudgeted ==
    \A r \in Runs :
        notified[r] + ToBeShown(r) + ToBeWritten(r) <= filed[r] + mishaps

(* The variables' types without the bounds the counters keep to.           *)
Typed ==
    /\ past \in BOOLEAN
    /\ due \subseteq Runs
    /\ expectation \in [Runs -> {"none", "EXPECTED", "MALFORMED", "RETIRED"}]
    /\ incident \in [Runs -> {"none", "open", "resolved"}]
    /\ filed \in [Runs -> 0..MaxFiled]
    /\ archived \subseteq Runs
    /\ alert \subseteq Runs
    /\ sent \subseteq Runs
    /\ notified \in [Runs -> Nat]
    /\ tick \in TickType
    /\ archiver \subseteq Runs
    /\ mishaps \in 0..MaxMishaps

LifecycleInv ==
    /\ Typed
    /\ TickMatches
    /\ ArchiverMatches
    /\ RoomForRecord
    /\ ShowingsAreBudgeted
    /\ SentWasShown

LEMMA InitInv == Init => LifecycleInv
<1> SUFFICES ASSUME Init PROVE LifecycleInv
  OBVIOUS
<1>1. Typed
  <2>1. tick \in TickType
    BY DEF Init, TickType, IdleTick
  <2>2. filed \in [Runs -> 0..MaxFiled] /\ notified \in [Runs -> Nat] /\ mishaps \in 0..MaxMishaps
    BY LifecycleAssumption DEF Init
  <2>3. /\ incident \in [Runs -> {"none", "open", "resolved"}]
        /\ expectation \in [Runs -> {"none", "EXPECTED", "MALFORMED", "RETIRED"}]
    BY DEF Init
  <2>4. QED
    BY <2>1, <2>2, <2>3 DEF Init, Typed
<1>2. TickMatches /\ ArchiverMatches /\ RoomForRecord /\ SentWasShown
  BY LifecycleAssumption
  DEF Init, TickMatches, ArchiverMatches, RoomForRecord, SentWasShown, IdleTick
<1>3. ShowingsAreBudgeted
  BY DEF Init, ShowingsAreBudgeted, ToBeShown, ToBeWritten, IdleTick
<1>4. QED
  BY <1>1, <1>2, <1>3 DEF LifecycleInv

LEMMA NextInv == LifecycleInv /\ [Next]_vars => LifecycleInv'
<1> SUFFICES ASSUME LifecycleInv, [Next]_vars PROVE LifecycleInv'
  OBVIOUS
<1> USE LifecycleAssumption
    DEF LifecycleInv, Typed, TickMatches, ArchiverMatches, RoomForRecord,
        ShowingsAreBudgeted, SentWasShown, ToBeShown, ToBeWritten, TickType
<1>1. CASE NextDay
  BY <1>1 DEF NextDay, disk
<1>2. CASE Crash
  BY <1>2 DEF Crash, disk, IdleTick
<1>3. ASSUME NEW r \in Runs, Register(r) PROVE LifecycleInv'
  BY <1>3 DEF Register
<1>4. ASSUME NEW r \in Runs, BecomeDue(r) PROVE LifecycleInv'
  BY <1>4 DEF BecomeDue, disk
<1>5. CASE TickStart
  BY <1>5 DEF TickStart, disk
<1>6. CASE FileIncident
  <2>1. PICK r \in Runs : tick.run = {r}
    BY <1>6 DEF FileIncident
  <2>2. CASE incident[r] = "none"
    <3>1. /\ tick.pc = "file"
          /\ incident' = [incident EXCEPT ![r] = "open"]
          /\ filed' = [filed EXCEPT ![r] = @ + 1]
          /\ tick' = IF tick.alerts THEN [tick EXCEPT !.pc = "alert"] ELSE BackToScan
          /\ UNCHANGED <<past, due, expectation, archived, alert, sent, notified,
                         archiver, mishaps>>
      BY <1>6, <2>1, <2>2 DEF FileIncident
    <3>2. filed[r] \in 0..MaxFiled /\ filed[r] < MaxFiled /\ r \notin archiver
      BY <2>2
    <3>3. Typed'
      <4>1. tick' \in TickType
        BY <3>1 DEF BackToScan
      <4>2. filed' \in [Runs -> 0..MaxFiled]
        BY <3>1, <3>2
      <4>3. QED
        BY <3>1, <4>1, <4>2
    <3>4. TickMatches'
      BY <2>1, <3>1 DEF BackToScan
    <3>5. ArchiverMatches' /\ RoomForRecord' /\ SentWasShown'
      BY <3>1, <3>2
    <3>6. ShowingsAreBudgeted'
      BY <2>1, <3>1 DEF BackToScan
    <3>7. QED
      BY <3>3, <3>4, <3>5, <3>6
  <2>3. CASE incident[r] # "none"
    <3>1. tick.pc = "file" /\ tick' = BackToScan
          /\ UNCHANGED <<past, due, expectation, incident, filed, archived, alert, sent,
                         notified, archiver, mishaps>>
      BY <1>6, <2>1, <2>3 DEF FileIncident
    <3>2. tick'.pc = "scan" /\ tick'.run = {} /\ tick' \in TickType
      BY <3>1 DEF BackToScan
    <3>3. Typed' /\ TickMatches' /\ ArchiverMatches' /\ RoomForRecord' /\ SentWasShown'
      BY <3>1, <3>2
    <3>4. ShowingsAreBudgeted'
      BY <3>1, <3>2
    <3>5. QED
      BY <3>3, <3>4
  <2>4. QED
    BY <2>2, <2>3
<1>7. CASE FileAlert
  <2>1. PICK r \in Runs : tick.run = {r}
    BY <1>7 DEF FileAlert
  <2>2. Typed' /\ TickMatches' /\ ArchiverMatches' /\ RoomForRecord' /\ SentWasShown'
    BY <1>7, <2>1 DEF FileAlert, BackToScan
  <2>3. ShowingsAreBudgeted'
    BY <1>7, <2>1 DEF FileAlert, BackToScan
  <2>4. QED
    BY <2>2, <2>3
<1>8. CASE DeliverStart
  BY <1>8 DEF DeliverStart, disk
<1>9. CASE MoveAlert
  BY <1>9 DEF MoveAlert
<1>10. CASE TickEnd
  BY <1>10 DEF TickEnd, IdleTick, disk
<1>11. ASSUME NEW r \in Runs, ScanRun(r) PROVE LifecycleInv'
  BY <1>11 DEF ScanRun, disk
<1>12. ASSUME NEW r \in Runs, Notify(r) PROVE LifecycleInv'
  <2>1. /\ tick.pc = "deliver" /\ r \in tick.todo /\ tick.run = {} /\ r \in alert
        /\ notified' = [notified EXCEPT ![r] = @ + 1]
        /\ tick' = [tick EXCEPT !.pc = "move", !.run = {r}]
        /\ UNCHANGED <<past, due, expectation, incident, filed, archived, alert,
                       sent, archiver, mishaps>>
    BY <1>12 DEF Notify, disk
  <2>2. Typed' /\ TickMatches'
    <3>1. tick' \in TickType /\ tick'.pc = "move" /\ tick'.run = {r} /\ tick'.todo = tick.todo
      BY <2>1
    <3>2. notified' \in [Runs -> Nat] /\ notified'[r] = notified[r] + 1
      BY <2>1
    <3>3. Typed'
      BY <2>1, <3>1, <3>2
    <3>4. TickMatches'
      BY <2>1, <3>1, <3>2
    <3>5. QED
      BY <3>3, <3>4
  <2>3. ArchiverMatches' /\ RoomForRecord' /\ SentWasShown'
    BY <2>1
  <2>4. ShowingsAreBudgeted'
    BY <2>1
  <2>5. QED
    BY <2>2, <2>3, <2>4
<1>13. ASSUME NEW r \in Runs, NotifyFails(r) PROVE LifecycleInv'
  BY <1>13 DEF NotifyFails, disk
<1>14. ASSUME NEW r \in Runs, NotifyTimesOut(r) PROVE LifecycleInv'
  <2>1. /\ tick.pc = "deliver" /\ r \in tick.todo /\ tick.run = {} /\ r \in alert
        /\ mishaps < MaxMishaps /\ mishaps' = mishaps + 1
        /\ notified' = [notified EXCEPT ![r] = @ + 1]
        /\ tick' = [tick EXCEPT !.todo = @ \ {r}]
        /\ UNCHANGED <<past, due, expectation, incident, filed, archived, alert,
                       sent, archiver>>
    BY <1>14 DEF NotifyTimesOut, disk
  <2>2. Typed'
    <3>1. tick' \in TickType
      BY <2>1
    <3>2. notified' \in [Runs -> Nat] /\ mishaps' \in 0..MaxMishaps
      BY <2>1
    <3>3. QED
      BY <2>1, <3>1, <3>2
  <2>3. TickMatches' /\ ArchiverMatches' /\ RoomForRecord' /\ SentWasShown'
    BY <2>1
  <2>4. ShowingsAreBudgeted'
    BY <2>1
  <2>5. QED
    BY <2>2, <2>3, <2>4
<1>15. CASE ArchiveMove
  BY <1>15 DEF ArchiveMove
<1>16. ASSUME NEW r \in Runs, Resolve(r) PROVE LifecycleInv'
  BY <1>16 DEF Resolve
<1>17. ASSUME NEW r \in Runs, Retire(r) PROVE LifecycleInv'
  BY <1>17 DEF Retire
<1>18. ASSUME NEW r \in Runs, ArchiveCheck(r) PROVE LifecycleInv'
  BY <1>18 DEF ArchiveCheck, disk
<1>19. CASE UNCHANGED vars
  BY <1>19 DEF vars, disk
<1>20. QED
  BY <1>1, <1>2, <1>3, <1>4, <1>5, <1>6, <1>7, <1>8, <1>9, <1>10, <1>11, <1>12,
     <1>13, <1>14, <1>15, <1>16, <1>17, <1>18, <1>19 DEF Next, Watchdog, Owner

LEMMA BudgetBounds ==
  ASSUME LifecycleInv, NEW r \in Runs
  PROVE  /\ notified[r] <= filed[r] + mishaps
         /\ notified[r] \in 0..(MaxFiled + MaxMishaps)
<1>1. /\ notified[r] \in Nat /\ filed[r] \in 0..MaxFiled /\ mishaps \in 0..MaxMishaps
      /\ MaxFiled \in Nat /\ MaxMishaps \in Nat
  BY LifecycleAssumption DEF LifecycleInv, Typed
<1>2. ToBeShown(r) \in Nat /\ ToBeWritten(r) \in Nat
  BY DEF ToBeShown, ToBeWritten
<1>3. notified[r] + ToBeShown(r) + ToBeWritten(r) <= filed[r] + mishaps
  BY DEF LifecycleInv, ShowingsAreBudgeted
<1>4. QED
  BY <1>1, <1>2, <1>3

(* The only step that takes a record away moves a resolved one.            *)
LEMMA OpenStaysOpen ==
  ASSUME LifecycleInv, [Next]_vars, NEW r \in Runs, incident[r] = "open"
  PROVE  incident'[r] \in {"open", "resolved"}
<1> USE DEF LifecycleInv, Typed
<1>1. CASE incident' = incident
  BY <1>1
<1>2. CASE FileIncident
  <2>1. PICK q \in Runs : tick.run = {q}
    BY <1>2 DEF FileIncident, TickMatches
  <2>2. QED
    BY <1>2, <2>1 DEF FileIncident
<1>3. CASE ArchiveMove
  BY <1>3 DEF ArchiveMove, ArchiverMatches
<1>4. ASSUME NEW q \in Runs, Resolve(q) PROVE incident'[r] \in {"open", "resolved"}
  BY <1>4 DEF Resolve
<1>5. incident' = incident \/ FileIncident \/ ArchiveMove \/ \E q \in Runs : Resolve(q)
  BY DEF Next, Watchdog, Owner, vars, disk, NextDay, Crash, Register, BecomeDue, TickStart,
         FileAlert, DeliverStart, MoveAlert, TickEnd, ScanRun, Notify, NotifyTimesOut,
         NotifyFails, Retire, ArchiveCheck
<1>6. QED
  BY <1>1, <1>2, <1>3, <1>4, <1>5

-----------------------------------------------------------------------------
(* The theorems.                                                           *)

(* What every reachable state satisfies: the tick's progress matches the   *)
(* files, and every showing of an alert is paid for by an incident, by a   *)
(* tick that was cut short or by an osascript that timed out.              *)
THEOREM LifecycleInvariant == Spec => []LifecycleInv
  BY InitInv, NextInv, PTL DEF Spec

(* Type correctness, the bounds of the counters included: the record of a  *)
(* run is written at most MaxFiled times and its alert is shown at most    *)
(* once more for every crash or timeout.                                   *)
THEOREM LifecycleTypeCorrect == Spec => []TypeOK
<1>1. LifecycleInv => TypeOK
  <2> SUFFICES ASSUME LifecycleInv PROVE TypeOK
    OBVIOUS
  <2>1. notified \in [Runs -> 0..(MaxFiled + MaxMishaps)]
    BY BudgetBounds DEF LifecycleInv, Typed
  <2>2. QED
    BY <2>1 DEF LifecycleInv, Typed, TypeOK
<1>2. QED
  BY <1>1, LifecycleInvariant, PTL

(* An alert is shown before it is filed as sent, however ticks are cut     *)
(* short and notifications fail.                                           *)
THEOREM SentAlertsWereShown == Spec => []SentWasShown
<1>1. LifecycleInv => SentWasShown
  BY DEF LifecycleInv
<1>2. QED
  BY <1>1, LifecycleInvariant, PTL

(* A notification is repeated only when a tick was cut short or osascript  *)
(* timed out with the banner on the screen (watchdog_tick.py:32-55): a run *)
(* is announced at most once per incident and once more per such mishap.   *)
THEOREM RepeatsAreMishaps == Spec => []RepeatsOnlyAfterMishap
<1>1. LifecycleInv => RepeatsOnlyAfterMishap
  BY BudgetBounds DEF RepeatsOnlyAfterMishap
<1>2. QED
  BY <1>1, LifecycleInvariant, PTL

(* An open incident is closed by its resolution and by nothing else: the   *)
(* watchdog keeps the file that is there, and between the check and the    *)
(* move of the archiver a resolved incident stays resolved.                *)
THEOREM OpenIncidentsAreKept == Spec => OnlyResolutionCloses
<1>1. LifecycleInv /\ [Next]_vars =>
        [\A r \in Runs : incident[r] = "open" => incident'[r] \in {"open", "resolved"}]_vars
  BY OpenStaysOpen
<1>2. QED
  BY <1>1, LifecycleInvariant, PTL DEF Spec, OnlyResolutionCloses
=============================================================================
