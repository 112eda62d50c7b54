-------------------------- MODULE SlotWorkerProofs --------------------------
(***************************************************************************)
(* The safety of the slot scheduler for any number of slots, any schedule, *)
(* any deadlines and any number of crashes, when every slot has one fire.  *)
(* IInv is inductive; the properties the runs check follow from it.        *)
(***************************************************************************)
EXTENDS SlotWorker, FiniteSetTheorems, TLAPS

LEMMA InitIInv == Init => IInv
  BY SlotAssumption, NoneAssumption
  DEF Init, IInv, TypeOK, WorkerFiles, RecordsNameTheirSlot, ReaderKnows,
      VerdictKnows, InTimeKnows, IdleWatchdog, WatchdogType, Quiet, Holding, Working,
      WorkerState, SummaryStatus, MissReason, HungType, Acting, Verdicts,
      Unstarted

LEMMA DueIsNat ==
  ASSUME NEW s \in Slots, NEW t \in Nat
  PROVE  Due(s, t) \in Nat
  BY SlotAssumption DEF Due, Earliest

\* A step that leaves receipts, incidents, clock and reaper alone.
LEMMA InTimeKept ==
  ASSUME InTimeKnows, UNCHANGED <<now, firedAt, inTime, summary, hung, wd>>
  PROVE  InTimeKnows'
  BY DEF InTimeKnows

\* A receipt written in time is written before any tick can find it overdue.
LEMMA ReportInTime ==
  ASSUME OneFirePerSlot, IInv, NEW f \in Fires, pc[f] \in Working,
         NEW status \in {"COMPLETED", "FAILED"}, Report(f, status)
  PROVE  InTimeKnows'
<1> USE SlotAssumption
<1> DEFINE s == SlotOf[f]
<1>1. /\ s \in Slots /\ summary' = [summary EXCEPT ![s] = status]
      /\ inTime' \subseteq inTime \union {s}
      /\ s \in inTime' /\ s \notin inTime => now <= Due(s, firedAt[f])
      /\ UNCHANGED <<now, firedAt, hung, wd>>
  BY DEF Report, incidents
<1>2. hung[s] = "none" /\ summary[s] = "absent" /\ summary \in [Slots -> SummaryStatus]
  BY DEF IInv, TypeOK, WorkerFiles, Working
<1>3. \A r \in inTime' : summary'[r] # "absent" /\ hung'[r] = "none"
  BY <1>1, <1>2 DEF IInv, InTimeKnows, TypeOK
<1>4. wd.now <= now /\ now \in Nat /\ wd.now \in Nat
  BY DEF IInv, TypeOK, WatchdogType, InTimeKnows
<1>5. ASSUME wd.pc \in Acting \union {"probe"}, wd.rec # None, wd.slot = s
      PROVE  /\ wd.rec.worker = f /\ wd.rec.started = firedAt[f]
             /\ Due(s, wd.rec.started) \in Nat
  <2>1. wd.rec \in PidRecord
    BY <1>5 DEF IInv, TypeOK, WatchdogType
  <2>2. wd.rec.worker \in Fires /\ wd.rec.started \in Nat
    BY <2>1 DEF PidRecord
  <2>3. wd.rec.worker = f
    BY <1>5, <2>2 DEF IInv, ReaderKnows, OneFirePerSlot
  <2>4. wd.rec.started = firedAt[f]
    BY <1>5, <2>3 DEF IInv, InTimeKnows
  <2>5. QED
    BY <1>1, <2>2, <2>3, <2>4, DueIsNat
<1> HIDE DEF s
<1>6. ASSUME wd.pc \in Acting \union {"probe"}, wd.rec # None, ~wd.summary,
             wd.slot \in inTime'
      PROVE  wd.now <= Due(wd.slot, wd.rec.started)
  <2>1. CASE wd.slot \in inTime
    BY <1>6, <2>1 DEF IInv, InTimeKnows
  <2>2. CASE wd.slot \notin inTime
    <3>1. wd.slot = s /\ now <= Due(s, firedAt[f])
      BY <1>1, <1>6, <2>2
    <3>2. wd.rec.started = firedAt[f] /\ Due(s, wd.rec.started) \in Nat
      BY <1>5, <1>6, <3>1
    <3>3. QED
      BY <1>4, <3>1, <3>2
  <2>3. QED
    BY <2>1, <2>2
<1>7. ASSUME wd.pc \in Acting, wd.verdict \in HungType
      PROVE  wd.slot \notin inTime' /\ wd.now > Due(wd.slot, wd.rec.started)
  <2>1. wd.slot \notin inTime /\ wd.now > Due(wd.slot, wd.rec.started) /\ wd.rec # None
    BY <1>7 DEF IInv, InTimeKnows, VerdictKnows
  <2>2. ASSUME wd.slot \in inTime' PROVE FALSE
    <3>1. wd.slot = s /\ now <= Due(s, firedAt[f])
      BY <1>1, <2>1, <2>2
    <3>2. wd.rec.started = firedAt[f] /\ Due(s, wd.rec.started) \in Nat
      BY <1>5, <1>7, <2>1, <3>1
    <3>3. QED
      BY <1>4, <2>1, <3>1, <3>2
  <2>3. QED
    BY <2>1, <2>2
<1>8. wd.pc \in Acting \union {"probe"} /\ wd.rec # None => wd.rec.started = firedAt[wd.rec.worker]
  BY DEF IInv, InTimeKnows
<1>9. QED
  BY <1>1, <1>3, <1>4, <1>6, <1>7, <1>8 DEF InTimeKnows, Due

LEMMA StepInTime ==
  ASSUME OneFirePerSlot, IInv, [Next]_vars
  PROVE  InTimeKnows'
<1> USE SlotAssumption, NoneAssumption
<1>1. wd \in WatchdogType /\ now \in Nat /\ wd.now \in Nat /\ wd.now <= now
  BY DEF IInv, TypeOK, WatchdogType, InTimeKnows
<1>2. CASE Tick
  BY <1>1, <1>2 DEF Tick, IInv, InTimeKnows, worker, files, incidents, Due
<1>3. ASSUME NEW f \in Fires, Fire(f) PROVE InTimeKnows'
  <2>1. /\ pc[f] = "idle" /\ \A g \in Fires \ {f} : firedAt'[g] = firedAt[g]
        /\ UNCHANGED <<now, inTime, summary, hung, wd>>
    BY <1>3 DEF Fire, files, incidents, IInv, TypeOK
  <2>2. ASSUME wd.pc \in Acting \union {"probe"}, wd.rec # None
        PROVE  wd.rec.started = firedAt'[wd.rec.worker]
    <3>1. wd.rec \in PidRecord
      BY <2>2, <1>1 DEF WatchdogType
    <3>2. wd.rec.worker \in Fires /\ pc[wd.rec.worker] \notin Unstarted
      BY <2>2, <3>1 DEF IInv, ReaderKnows, PidRecord
    <3>3. wd.rec.worker # f
      BY <2>1, <3>2 DEF Unstarted
    <3>4. QED
      BY <2>1, <2>2, <3>2, <3>3 DEF IInv, InTimeKnows
  <2>3. QED
    BY <2>1, <2>2 DEF IInv, InTimeKnows, Due
<1>4. ASSUME NEW f \in Fires, OverlapSkip(f) PROVE InTimeKnows'
  <2>1. /\ UNCHANGED <<now, firedAt, inTime, hung, wd>>
        /\ summary' = [summary EXCEPT ![SlotOf[f]] = "OVERLAP_SKIPPED"]
        /\ summary \in [Slots -> SummaryStatus]
    BY <1>4 DEF OverlapSkip, incidents, IInv, TypeOK
  <2>2. \A r \in inTime' : summary'[r] # "absent"
    BY <2>1 DEF IInv, InTimeKnows, TypeOK
  <2>3. QED
    BY <2>1, <2>2 DEF IInv, InTimeKnows, Due
<1>5. ASSUME NEW f \in Fires,
             SafetyGateFails(f) \/ Collect(f) \/ SpawnFails(f)
               \/ AgentReturned(f) \/ AgentTimeout(f)
      PROVE  InTimeKnows'
  <2>1. pc[f] \in Working
    BY <1>5 DEF SafetyGateFails, Collect, SpawnFails, AgentReturned,
                AgentTimeout, Working
  <2>2. \/ \E status \in {"COMPLETED", "FAILED"} : Report(f, status)
        \/ UNCHANGED <<now, firedAt, inTime, summary, hung, wd>>
    BY <1>5 DEF SafetyGateFails, Collect, SpawnFails, AgentReturned,
                AgentTimeout, files, incidents
  <2>3. QED
    BY <2>1, <2>2, ReportInTime, InTimeKept DEF IInv
<1>6. CASE TickStart
  BY <1>1, <1>6 DEF TickStart, IInv, InTimeKnows, worker, files, incidents, WatchdogType, Acting
<1>7. CASE Scan
  BY <1>1, <1>7 DEF Scan, IInv, InTimeKnows, worker, files, WatchdogType, Acting
<1>8. ASSUME NEW s \in Slots, ReapRead(s) PROVE InTimeKnows'
  <2>1. /\ UNCHANGED <<now, firedAt, inTime, summary, hung>>
        /\ wd'.pc = "probe" /\ wd'.now = wd.now /\ wd'.slot = s /\ wd'.rec = pidrec[s]
        /\ wd'.summary <=> pidrec[s] # None /\ summary[s] # "absent"
    BY <1>1, <1>8 DEF ReapRead, worker, files, incidents, WatchdogType
  <2>2. pidrec[s] # None => pidrec[s].started = firedAt[pidrec[s].worker]
    BY DEF IInv, RecordsNameTheirSlot
  <2>3. wd'.rec # None /\ ~wd'.summary => s \notin inTime
    BY <2>1 DEF IInv, InTimeKnows
  <2>4. QED
    BY <1>1, <2>1, <2>2, <2>3 DEF IInv, InTimeKnows, Acting
<1>9. CASE ReapProbe
  <2>1. PICK v \in Classify(wd.slot, wd.rec, wd.summary, wd.now) :
          wd' = IF v = "RUNNING_OK" THEN NextRecord
                ELSE [wd EXCEPT !.pc = AfterVerdict(v), !.verdict = v]
    BY <1>9 DEF ReapProbe
  <2>2. UNCHANGED <<now, firedAt, inTime, summary, hung>> /\ wd.pc = "probe"
    BY <1>9 DEF ReapProbe, worker, files, incidents
  <2>3. CASE v = "RUNNING_OK"
    BY <1>1, <2>1, <2>2, <2>3 DEF NextRecord, IInv, InTimeKnows, WatchdogType, Acting
  <2>4. CASE v # "RUNNING_OK"
    <3>1. /\ wd'.pc \in Acting /\ wd'.verdict = v /\ wd'.now = wd.now
          /\ wd'.slot = wd.slot /\ wd'.rec = wd.rec /\ wd'.summary = wd.summary
      BY <1>1, <2>1, <2>4 DEF AfterVerdict, WatchdogType, Acting
    <3>2. ASSUME v \in HungType
          PROVE  wd.slot \notin inTime /\ wd.now > Due(wd.slot, wd.rec.started)
      <4>1. wd.rec # None /\ ~wd.summary /\ ~(wd.now <= Due(wd.slot, wd.rec.started))
        BY <2>1, <2>4, <3>2 DEF Classify, HungType
      <4>2. wd.slot \notin inTime
        BY <2>2, <4>1 DEF IInv, InTimeKnows
      <4>3. wd.rec \in PidRecord /\ wd.slot \in Slots
        BY <1>1, <2>2, <4>1 DEF WatchdogType, IInv, ReaderKnows
      <4>4. Due(wd.slot, wd.rec.started) \in Nat
        BY <4>3, DueIsNat DEF PidRecord
      <4>5. QED
        BY <1>1, <4>1, <4>2, <4>4
    <3>3. QED
      BY <1>1, <2>2, <3>1, <3>2 DEF IInv, InTimeKnows, Due
  <2>5. QED
    BY <2>3, <2>4
<1>10. CASE ReapKillChild
  BY <1>1, <1>10 DEF ReapKillChild, IInv, InTimeKnows, worker, files, incidents, WatchdogType, Acting, Due
<1>11. CASE ReapKillWorker
  BY <1>1, <1>11 DEF ReapKillWorker, IInv, InTimeKnows, files, incidents, WatchdogType, Acting, Due
<1>12. CASE ReapFile
  <2>1. /\ UNCHANGED <<now, firedAt, inTime, summary>> /\ wd.pc = "file"
        /\ wd'.pc = "unlink" /\ wd'.now = wd.now /\ wd'.slot = wd.slot
        /\ wd'.rec = wd.rec /\ wd'.summary = wd.summary /\ wd'.verdict = wd.verdict
        /\ hung' = [hung EXCEPT ![wd.slot] = IF @ = "none" THEN wd.verdict ELSE @]
    BY <1>1, <1>12 DEF ReapFile, worker, files, WatchdogType
  <2>2. wd.verdict \in HungType
    BY <2>1 DEF IInv, VerdictKnows, Acting, Verdicts, HungType
  <2>3. wd.slot \notin inTime
    BY <2>1, <2>2 DEF IInv, InTimeKnows, Acting
  <2>4. \A r \in inTime : hung'[r] = hung[r]
    BY <2>1, <2>3 DEF IInv, TypeOK
  <2>5. QED
    BY <1>1, <2>1, <2>2, <2>4 DEF IInv, InTimeKnows, Acting, Due
<1>13. CASE ReapUnlink
  BY <1>1, <1>13 DEF ReapUnlink, NextRecord, IInv, InTimeKnows, worker, incidents, WatchdogType, Acting
<1>14. CASE TickEnd \/ TickAborts
  BY <1>1, <1>14 DEF TickEnd, TickAborts, IdleWatchdog, IInv, InTimeKnows, worker, files, incidents, Acting
<1>15. CASE UNCHANGED <<now, firedAt, inTime, summary, hung, wd>>
  BY <1>15, InTimeKept DEF IInv
<1>16. QED
  BY <1>2, <1>3, <1>4, <1>5, <1>6, <1>7, <1>8, <1>9, <1>10, <1>11, <1>12, <1>13, <1>14, <1>15
  DEF Next, Worker, Watchdog, vars, worker, files, incidents, WriteAck, TryLock, WriteRecord,
      SafetyGatePasses, Raise, SpawnAgent, RecordChild, UnlinkRecord, Release, Crash, ChildExits

LEMMA StepIInv ==
  ASSUME OneFirePerSlot, IInv, [Next]_vars
  PROVE  IInv'
<1>0. InTimeKnows'
  BY StepInTime
<1> USE SlotAssumption, NoneAssumption
<1> USE DEF IInv, TypeOK, WorkerFiles, RecordsNameTheirSlot, ReaderKnows,
        VerdictKnows, WatchdogType, Quiet, Holding, Working, WorkerState,
        SummaryStatus, MissReason, HungType, Acting, Verdicts, Unstarted,
        Past, SlotHasRecord, PidRecord, OneFirePerSlot, worker, files, incidents
<1>1. ASSUME Tick
      PROVE  IInv'
  <2>1. TypeOK'
    BY <1>1 DEF Tick
  <2>2. WorkerFiles'
    BY <1>1 DEF Tick
  <2>3. RecordsNameTheirSlot'
    BY <1>1 DEF Tick
  <2>4. ReaderKnows'
    BY <1>1 DEF Tick
  <2>5. VerdictKnows'
    BY <1>1 DEF Tick
  <2>6. QED
    BY <1>0, <2>1, <2>2, <2>3, <2>4, <2>5
<1>2. ASSUME NEW f \in Fires, Fire(f)
      PROVE  IInv'
  <2>1. TypeOK'
    BY <1>2 DEF Fire, Goto
  <2>2. WorkerFiles'
    BY <1>2 DEF Fire, Goto
  <2>3. RecordsNameTheirSlot'
    BY <1>2 DEF Fire, Goto
  <2>4. ReaderKnows'
    BY <1>2 DEF Fire, Goto
  <2>5. VerdictKnows'
    BY <1>2 DEF Fire, Goto
  <2>6. QED
    BY <1>0, <2>1, <2>2, <2>3, <2>4, <2>5
<1>3. ASSUME NEW f \in Fires, WriteAck(f)
      PROVE  IInv'
  <2>1. TypeOK'
    BY <1>3 DEF WriteAck, Goto
  <2>2. WorkerFiles'
    BY <1>3 DEF WriteAck, Goto
  <2>3. RecordsNameTheirSlot'
    BY <1>3 DEF WriteAck, Goto
  <2>4. ReaderKnows'
    BY <1>3 DEF WriteAck, Goto
  <2>5. VerdictKnows'
    BY <1>3 DEF WriteAck, Goto
  <2>6. QED
    BY <1>0, <2>1, <2>2, <2>3, <2>4, <2>5
<1>4. ASSUME NEW f \in Fires, TryLock(f)
      PROVE  IInv'
  <2>1. TypeOK'
    BY <1>4 DEF TryLock, Goto
  <2>2. WorkerFiles'
    BY <1>4 DEF TryLock, Goto
  <2>3. RecordsNameTheirSlot'
    BY <1>4 DEF TryLock, Goto
  <2>4. ReaderKnows'
    BY <1>4 DEF TryLock, Goto
  <2>5. VerdictKnows'
    BY <1>4 DEF TryLock, Goto
  <2>6. QED
    BY <1>0, <2>1, <2>2, <2>3, <2>4, <2>5
<1>5. ASSUME NEW f \in Fires, OverlapSkip(f)
      PROVE  IInv'
  <2>1. TypeOK'
    BY <1>5 DEF OverlapSkip, Goto
  <2>2. WorkerFiles'
    BY <1>5 DEF OverlapSkip, Goto
  <2>3. RecordsNameTheirSlot'
    BY <1>5 DEF OverlapSkip, Goto
  <2>4. ReaderKnows'
    BY <1>5 DEF OverlapSkip, Goto
  <2>5. VerdictKnows'
    BY <1>5 DEF OverlapSkip, Goto
  <2>6. QED
    BY <1>0, <2>1, <2>2, <2>3, <2>4, <2>5
<1>6. ASSUME NEW f \in Fires, WriteRecord(f)
      PROVE  IInv'
  <2>1. TypeOK'
    BY <1>6 DEF WriteRecord, Goto
  <2>2. WorkerFiles'
    BY <1>6 DEF WriteRecord, Goto
  <2>3. RecordsNameTheirSlot'
    BY <1>6 DEF WriteRecord, Goto
  <2>4. ReaderKnows'
    BY <1>6 DEF WriteRecord, Goto
  <2>5. VerdictKnows'
    BY <1>6 DEF WriteRecord, Goto
  <2>6. QED
    BY <1>0, <2>1, <2>2, <2>3, <2>4, <2>5
<1>7. ASSUME NEW f \in Fires, SafetyGateFails(f)
      PROVE  IInv'
  <2>1. TypeOK'
    BY <1>7 DEF SafetyGateFails, Report, Goto
  <2>2. WorkerFiles'
    BY <1>7 DEF SafetyGateFails, Report, Goto
  <2>3. RecordsNameTheirSlot'
    BY <1>7 DEF SafetyGateFails, Report, Goto
  <2>4. ReaderKnows'
    BY <1>7 DEF SafetyGateFails, Report, Goto
  <2>5. VerdictKnows'
    BY <1>7 DEF SafetyGateFails, Report, Goto
  <2>6. QED
    BY <1>0, <2>1, <2>2, <2>3, <2>4, <2>5
<1>8. ASSUME NEW f \in Fires, SafetyGatePasses(f)
      PROVE  IInv'
  <2>1. TypeOK'
    BY <1>8 DEF SafetyGatePasses, Goto
  <2>2. WorkerFiles'
    BY <1>8 DEF SafetyGatePasses, Goto
  <2>3. RecordsNameTheirSlot'
    BY <1>8 DEF SafetyGatePasses, Goto
  <2>4. ReaderKnows'
    BY <1>8 DEF SafetyGatePasses, Goto
  <2>5. VerdictKnows'
    BY <1>8 DEF SafetyGatePasses, Goto
  <2>6. QED
    BY <1>0, <2>1, <2>2, <2>3, <2>4, <2>5
<1>9. ASSUME NEW f \in Fires, Collect(f)
      PROVE  IInv'
  <2>1. TypeOK'
    BY <1>9 DEF Collect, Report, Goto
  <2>2. WorkerFiles'
    BY <1>9 DEF Collect, Report, Goto
  <2>3. RecordsNameTheirSlot'
    BY <1>9 DEF Collect, Report, Goto
  <2>4. ReaderKnows'
    BY <1>9 DEF Collect, Report, Goto
  <2>5. VerdictKnows'
    BY <1>9 DEF Collect, Report, Goto
  <2>6. QED
    BY <1>0, <2>1, <2>2, <2>3, <2>4, <2>5
<1>10. ASSUME NEW f \in Fires, Raise(f)
      PROVE  IInv'
  <2>1. TypeOK'
    BY <1>10 DEF Raise, Goto
  <2>2. WorkerFiles'
    BY <1>10 DEF Raise, Goto
  <2>3. RecordsNameTheirSlot'
    BY <1>10 DEF Raise, Goto
  <2>4. ReaderKnows'
    BY <1>10 DEF Raise, Goto
  <2>5. VerdictKnows'
    BY <1>10 DEF Raise, Goto
  <2>6. QED
    BY <1>0, <2>1, <2>2, <2>3, <2>4, <2>5
<1>11. ASSUME NEW f \in Fires, SpawnAgent(f)
      PROVE  IInv'
  <2>1. TypeOK'
    <3>1. attempt[f] + 1 \in 1..2
      BY <1>11 DEF SpawnAgent
    <3>2. children' \subseteq Fires \X (1..2)
      BY <3>1, <1>11 DEF SpawnAgent
    <3>3. attempt' \in [Fires -> 0..2]
      BY <3>1, <1>11 DEF SpawnAgent
    <3>4. QED
      BY <3>2, <3>3, <1>11 DEF SpawnAgent, Goto
  <2>2. WorkerFiles'
    BY <1>11 DEF SpawnAgent, Goto
  <2>3. RecordsNameTheirSlot'
    BY <1>11 DEF SpawnAgent, Goto
  <2>4. ReaderKnows'
    BY <1>11 DEF SpawnAgent, Goto
  <2>5. VerdictKnows'
    BY <1>11 DEF SpawnAgent, Goto
  <2>6. QED
    BY <1>0, <2>1, <2>2, <2>3, <2>4, <2>5
<1>12. ASSUME NEW f \in Fires, SpawnFails(f)
      PROVE  IInv'
  <2>1. TypeOK'
    <3>1. CASE Report(f, "FAILED") /\ UNCHANGED attempt
      BY <3>1, <1>12 DEF SpawnFails, Report, Goto
    <3>2. CASE /\ attempt' = [attempt EXCEPT ![f] = 1]
               /\ UNCHANGED <<now, pc, firedAt, lock, files, incidents, failures, wd>>
      <4>1. attempt' \in [Fires -> 0..2]
        BY <3>2
      <4>2. QED
        BY <4>1, <3>2, <1>12 DEF SpawnFails
    <3>3. QED
      BY <3>1, <3>2, <1>12 DEF SpawnFails
  <2>2. WorkerFiles'
    BY <1>12 DEF SpawnFails, Report, Goto
  <2>3. RecordsNameTheirSlot'
    BY <1>12 DEF SpawnFails, Report, Goto
  <2>4. ReaderKnows'
    BY <1>12 DEF SpawnFails, Report, Goto
  <2>5. VerdictKnows'
    BY <1>12 DEF SpawnFails, Report, Goto
  <2>6. QED
    BY <1>0, <2>1, <2>2, <2>3, <2>4, <2>5
<1>13. ASSUME NEW f \in Fires, RecordChild(f)
      PROVE  IInv'
  <2>1. TypeOK'
    BY <1>13 DEF RecordChild, Goto
  <2>2. WorkerFiles'
    BY <1>13 DEF RecordChild, Goto
  <2>3. RecordsNameTheirSlot'
    BY <1>13 DEF RecordChild, Goto
  <2>4. ReaderKnows'
    BY <1>13 DEF RecordChild, Goto
  <2>5. VerdictKnows'
    BY <1>13 DEF RecordChild, Goto
  <2>6. QED
    BY <1>0, <2>1, <2>2, <2>3, <2>4, <2>5
<1>14. ASSUME NEW f \in Fires, AgentReturned(f)
      PROVE  IInv'
  <2>1. TypeOK'
    <3>1. CASE \E status \in {"COMPLETED", "FAILED"} : Report(f, status)
      BY <3>1, <1>14 DEF AgentReturned, Report, Goto
    <3>2. CASE /\ attempt[f] = 1
               /\ Goto(f, "gated")
               /\ UNCHANGED <<now, firedAt, lock, files, incidents, failures, wd>>
      BY <3>2, <1>14 DEF AgentReturned, Goto
    <3>3. QED
      BY <3>1, <3>2, <1>14 DEF AgentReturned
  <2>2. WorkerFiles'
    <3>1. CASE \E status \in {"COMPLETED", "FAILED"} : Report(f, status)
      BY <3>1, <1>14 DEF AgentReturned, Report, Goto
    <3>2. CASE /\ attempt[f] = 1
               /\ Goto(f, "gated")
               /\ UNCHANGED <<now, firedAt, lock, files, incidents, failures, wd>>
      BY <3>2, <1>14 DEF AgentReturned, Goto
    <3>3. QED
      BY <3>1, <3>2, <1>14 DEF AgentReturned
  <2>3. RecordsNameTheirSlot'
    BY <1>14 DEF AgentReturned, Report, Goto
  <2>4. ReaderKnows'
    <3>1. CASE \E status \in {"COMPLETED", "FAILED"} : Report(f, status)
      BY <3>1, <1>14 DEF AgentReturned, Report, Goto
    <3>2. CASE /\ attempt[f] = 1
               /\ Goto(f, "gated")
               /\ UNCHANGED <<now, firedAt, lock, files, incidents, failures, wd>>
      BY <3>2, <1>14 DEF AgentReturned, Goto
    <3>3. QED
      BY <3>1, <3>2, <1>14 DEF AgentReturned
  <2>5. VerdictKnows'
    BY <1>14 DEF AgentReturned, Report, Goto
  <2>6. QED
    BY <1>0, <2>1, <2>2, <2>3, <2>4, <2>5
<1>15. ASSUME NEW f \in Fires, AgentTimeout(f)
      PROVE  IInv'
  <2>1. TypeOK'
    BY <1>15 DEF AgentTimeout, Report, Goto
  <2>2. WorkerFiles'
    BY <1>15 DEF AgentTimeout, Report, Goto
  <2>3. RecordsNameTheirSlot'
    BY <1>15 DEF AgentTimeout, Report, Goto
  <2>4. ReaderKnows'
    BY <1>15 DEF AgentTimeout, Report, Goto
  <2>5. VerdictKnows'
    BY <1>15 DEF AgentTimeout, Report, Goto
  <2>6. QED
    BY <1>0, <2>1, <2>2, <2>3, <2>4, <2>5
<1>16. ASSUME NEW f \in Fires, UnlinkRecord(f)
      PROVE  IInv'
  <2>1. TypeOK'
    BY <1>16 DEF UnlinkRecord, Goto
  <2>2. WorkerFiles'
    BY <1>16 DEF UnlinkRecord, Goto
  <2>3. RecordsNameTheirSlot'
    BY <1>16 DEF UnlinkRecord, Goto
  <2>4. ReaderKnows'
    BY <1>16 DEF UnlinkRecord, Goto
  <2>5. VerdictKnows'
    BY <1>16 DEF UnlinkRecord, Goto
  <2>6. QED
    BY <1>0, <2>1, <2>2, <2>3, <2>4, <2>5
<1>17. ASSUME NEW f \in Fires, Release(f)
      PROVE  IInv'
  <2>1. TypeOK'
    BY <1>17 DEF Release, Goto
  <2>2. WorkerFiles'
    BY <1>17 DEF Release, Goto
  <2>3. RecordsNameTheirSlot'
    BY <1>17 DEF Release, Goto
  <2>4. ReaderKnows'
    BY <1>17 DEF Release, Goto
  <2>5. VerdictKnows'
    BY <1>17 DEF Release, Goto
  <2>6. QED
    BY <1>0, <2>1, <2>2, <2>3, <2>4, <2>5
<1>18. ASSUME NEW f \in Fires, Crash(f)
      PROVE  IInv'
  <2>1. TypeOK'
    BY <1>18 DEF Crash, Goto, LockAfterDeathOf
  <2>2. WorkerFiles'
    BY <1>18 DEF Crash, Goto, LockAfterDeathOf
  <2>3. RecordsNameTheirSlot'
    BY <1>18 DEF Crash, Goto, LockAfterDeathOf
  <2>4. ReaderKnows'
    BY <1>18 DEF Crash, Goto, LockAfterDeathOf
  <2>5. VerdictKnows'
    BY <1>18 DEF Crash, Goto, LockAfterDeathOf
  <2>6. QED
    BY <1>0, <2>1, <2>2, <2>3, <2>4, <2>5
<1>19. ASSUME NEW c \in children, ChildExits(c)
      PROVE  IInv'
  <2>1. TypeOK'
    BY <1>19 DEF ChildExits
  <2>2. WorkerFiles'
    BY <1>19 DEF ChildExits
  <2>3. RecordsNameTheirSlot'
    BY <1>19 DEF ChildExits
  <2>4. ReaderKnows'
    BY <1>19 DEF ChildExits
  <2>5. VerdictKnows'
    BY <1>19 DEF ChildExits
  <2>6. QED
    BY <1>0, <2>1, <2>2, <2>3, <2>4, <2>5
<1>20. ASSUME TickStart
      PROVE  IInv'
  <2>1. TypeOK'
    BY <1>20 DEF TickStart
  <2>2. WorkerFiles'
    BY <1>20 DEF TickStart
  <2>3. RecordsNameTheirSlot'
    BY <1>20 DEF TickStart
  <2>4. ReaderKnows'
    BY <1>20 DEF TickStart
  <2>5. VerdictKnows'
    BY <1>20 DEF TickStart
  <2>6. QED
    BY <1>0, <2>1, <2>2, <2>3, <2>4, <2>5
<1>21. ASSUME Scan
      PROVE  IInv'
  <2>1. TypeOK'
    <3>1. PICK unread \in {{}} \union {{s} : s \in Slots} :
            /\ failures' = failures + Cardinality(unread)
            /\ failures' <= MaxFailures
            /\ missed' = [s \in Slots |->
                            IF missed[s] = "none" THEN AckHealth(s, wd.now, s \notin unread)
                            ELSE missed[s]]
      BY <1>21 DEF Scan
    <3>2. Cardinality(unread) \in Nat
      <4>1. CASE unread = {}
        BY <4>1, FS_EmptySet
      <4>2. CASE unread # {}
        <5>1. PICK s \in Slots : unread = {s}
          BY <3>1, <4>2
        <5>2. Cardinality({s}) = 1
          BY FS_Singleton
        <5>3. QED
          BY <5>1, <5>2
      <4>3. QED
        BY <4>1, <4>2
    <3>3. failures' \in 0..MaxFailures
      BY <3>1, <3>2
    <3>4. missed' \in [Slots -> MissReason]
      BY <3>1 DEF AckHealth
    <3>5. QED
      BY <1>21, <3>3, <3>4 DEF Scan
  <2>2. WorkerFiles'
    BY <1>21 DEF Scan, AckHealth
  <2>3. RecordsNameTheirSlot'
    BY <1>21 DEF Scan, AckHealth
  <2>4. ReaderKnows'
    BY <1>21 DEF Scan, AckHealth
  <2>5. VerdictKnows'
    BY <1>21 DEF Scan, AckHealth
  <2>6. QED
    BY <1>0, <2>1, <2>2, <2>3, <2>4, <2>5
<1>22. ASSUME NEW s \in Slots, ReapRead(s)
      PROVE  IInv'
  <2>1. TypeOK'
    <3>1. wd \in WatchdogType /\ pidrec[s] \in PidRecord \union {None}
      OBVIOUS
    <3>2. wd' \in WatchdogType
      BY <1>22, <3>1 DEF ReapRead, WatchdogType
    <3>3. QED
      BY <1>22, <3>2 DEF ReapRead
  <2>2. WorkerFiles'
    BY <1>22 DEF ReapRead
  <2>3. RecordsNameTheirSlot'
    BY <1>22 DEF ReapRead
  <2>4. ReaderKnows'
    <3>1. ASSUME NEW f \in Fires, SlotOf[f] = s, pidrec[s] = None
          PROVE  Past(f)
      <4>1. pc[f] \notin Unstarted /\ pc[f] \notin Working
        BY <3>1, <1>22 DEF ReapRead
      <4>2. QED
        BY <4>1
    <3>2. /\ wd'.pc = "probe" /\ wd'.slot = s /\ wd'.todo = wd.todo
          /\ wd'.rec = pidrec[s]
          /\ wd'.summary = (pidrec[s] # None /\ summary[s] # "absent")
      BY <1>22 DEF ReapRead
    <3>3. s \in wd.todo /\ UNCHANGED <<pc, pidrec, summary>>
      BY <1>22 DEF ReapRead
    <3>4. pidrec[s] # None => SlotOf[pidrec[s].worker] = s
      OBVIOUS
    <3>5. \A r \in wd'.todo : \A f \in Fires :
            SlotOf[f] = r => pc'[f] \notin Unstarted
      BY <3>2, <3>3
    <3>6. wd'.rec # None => SlotOf[wd'.rec.worker] = wd'.slot
      BY <3>2, <3>4
    <3>7. wd'.summary => wd'.rec # None /\ summary'[wd'.slot] # "absent"
      <4>1. wd'.summary <=> pidrec[s] # None /\ summary[s] # "absent"
        BY <1>22 DEF ReapRead
      <4>2. QED
        BY <4>1, <3>2, <3>3
    <3>8. wd'.rec = None =>
            /\ pidrec'[wd'.slot] = None
            /\ \A f \in Fires : SlotOf[f] = wd'.slot => Past(f)'
      BY <3>1, <3>2, <3>3
    <3>9. QED
      BY <3>2, <3>3, <3>5, <3>6, <3>7, <3>8
  <2>5. VerdictKnows'
    BY <1>22 DEF ReapRead
  <2>6. QED
    BY <1>0, <2>1, <2>2, <2>3, <2>4, <2>5
<1>23. ASSUME ReapProbe
      PROVE  IInv'
  <2>1. TypeOK'
    <3>1. PICK v \in Classify(wd.slot, wd.rec, wd.summary, wd.now) :
            wd' = IF v = "RUNNING_OK" THEN NextRecord
                  ELSE [wd EXCEPT !.pc = AfterVerdict(v), !.verdict = v]
      BY <1>23 DEF ReapProbe
    <3>2. v \in Verdicts
      BY <3>1 DEF Classify
    <3>3. wd' \in WatchdogType
      <4>1. CASE v = "RUNNING_OK"
        BY <4>1, <3>1 DEF NextRecord
      <4>2. CASE v # "RUNNING_OK"
        <5>1. AfterVerdict(v) \in {"killChild", "file", "unlink"}
          BY <3>2 DEF AfterVerdict
        <5>2. QED
          BY <4>2, <5>1, <3>1, <3>2
      <4>3. QED
        BY <4>1, <4>2
    <3>4. QED
      BY <3>3, <1>23 DEF ReapProbe
  <2>2. WorkerFiles'
    BY <1>23 DEF ReapProbe, Classify, Earliest, Alive, NextRecord, AfterVerdict
  <2>3. RecordsNameTheirSlot'
    BY <1>23 DEF ReapProbe, Classify, Earliest, Alive, NextRecord, AfterVerdict
  <2>4. ReaderKnows'
    BY <1>23 DEF ReapProbe, Classify, Earliest, Alive, NextRecord, AfterVerdict
  <2>5. VerdictKnows'
    BY <1>23 DEF ReapProbe, Classify, Earliest, Alive, NextRecord, AfterVerdict
  <2>6. QED
    BY <1>0, <2>1, <2>2, <2>3, <2>4, <2>5
<1>24. ASSUME ReapKillChild
      PROVE  IInv'
  <2>1. TypeOK'
    BY <1>24 DEF ReapKillChild
  <2>2. WorkerFiles'
    BY <1>24 DEF ReapKillChild
  <2>3. RecordsNameTheirSlot'
    BY <1>24 DEF ReapKillChild
  <2>4. ReaderKnows'
    BY <1>24 DEF ReapKillChild
  <2>5. VerdictKnows'
    BY <1>24 DEF ReapKillChild
  <2>6. QED
    BY <1>0, <2>1, <2>2, <2>3, <2>4, <2>5
<1>25. ASSUME ReapKillWorker
      PROVE  IInv'
  <2>1. TypeOK'
    <3>1. wd.rec \in PidRecord /\ wd.rec.worker \in Fires
      BY <1>25 DEF ReapKillWorker
    <3>2. pc' \in [Fires -> WorkerState]
      BY <3>1, <1>25 DEF ReapKillWorker, Alive, Goto
    <3>3. lock' \in Fires \union {None}
      BY <3>1, <1>25 DEF ReapKillWorker, LockAfterDeathOf
    <3>4. wd' \in WatchdogType
      BY <1>25 DEF ReapKillWorker
    <3>5. QED
      BY <3>2, <3>3, <3>4, <1>25 DEF ReapKillWorker
  <2>2. WorkerFiles'
    BY <1>25 DEF ReapKillWorker, Alive, Goto, LockAfterDeathOf
  <2>3. RecordsNameTheirSlot'
    BY <1>25 DEF ReapKillWorker, Alive, Goto, LockAfterDeathOf
  <2>4. ReaderKnows'
    BY <1>25 DEF ReapKillWorker, Alive, Goto, LockAfterDeathOf
  <2>5. VerdictKnows'
    BY <1>25 DEF ReapKillWorker, Alive, Goto, LockAfterDeathOf
  <2>6. QED
    BY <1>0, <2>1, <2>2, <2>3, <2>4, <2>5
<1>26. ASSUME ReapFile
      PROVE  IInv'
  <2>1. TypeOK'
    BY <1>26 DEF ReapFile
  <2>2. WorkerFiles'
    <3>1. wd.rec \in PidRecord /\ pc[wd.rec.worker] \in {"done", "dead"}
      BY <1>26 DEF ReapFile
    <3>2. ASSUME NEW f \in Fires, hung'[SlotOf[f]] # "none"
          PROVE  pc[f] \in {"done", "dead"}
      <4>1. CASE SlotOf[f] = wd.slot
        <5>1. SlotOf[wd.rec.worker] = wd.slot /\ wd.rec.worker \in Fires
          BY <3>1
        <5>2. f = wd.rec.worker
          BY <4>1, <5>1
        <5>3. QED
          BY <5>2, <3>1
      <4>2. CASE SlotOf[f] # wd.slot
        BY <4>2, <3>2, <1>26 DEF ReapFile
      <4>3. QED
        BY <4>1, <4>2
    <3>3. UNCHANGED <<pc, lock, pidrec, summary, firedAt>>
      BY <1>26 DEF ReapFile
    <3>4. QED
      BY <3>2, <3>3
  <2>3. RecordsNameTheirSlot'
    BY <1>26 DEF ReapFile
  <2>4. ReaderKnows'
    BY <1>26 DEF ReapFile
  <2>5. VerdictKnows'
    BY <1>26 DEF ReapFile
  <2>6. QED
    BY <1>0, <2>1, <2>2, <2>3, <2>4, <2>5
<1>27. ASSUME ReapUnlink
      PROVE  IInv'
  <2>1. TypeOK'
    BY <1>27 DEF ReapUnlink, NextRecord
  <2>2. WorkerFiles'
    BY <1>27 DEF ReapUnlink, NextRecord
  <2>3. RecordsNameTheirSlot'
    BY <1>27 DEF ReapUnlink, NextRecord
  <2>4. ReaderKnows'
    BY <1>27 DEF ReapUnlink, NextRecord
  <2>5. VerdictKnows'
    BY <1>27 DEF ReapUnlink, NextRecord
  <2>6. QED
    BY <1>0, <2>1, <2>2, <2>3, <2>4, <2>5
<1>28. ASSUME TickEnd
      PROVE  IInv'
  <2>1. TypeOK'
    BY <1>28 DEF TickEnd, IdleWatchdog
  <2>2. WorkerFiles'
    BY <1>28 DEF TickEnd, IdleWatchdog
  <2>3. RecordsNameTheirSlot'
    BY <1>28 DEF TickEnd, IdleWatchdog
  <2>4. ReaderKnows'
    BY <1>28 DEF TickEnd, IdleWatchdog
  <2>5. VerdictKnows'
    BY <1>28 DEF TickEnd, IdleWatchdog
  <2>6. QED
    BY <1>0, <2>1, <2>2, <2>3, <2>4, <2>5
<1>29. ASSUME TickAborts
      PROVE  IInv'
  <2>1. TypeOK'
    BY <1>29 DEF TickAborts, IdleWatchdog
  <2>2. WorkerFiles'
    BY <1>29 DEF TickAborts, IdleWatchdog
  <2>3. RecordsNameTheirSlot'
    BY <1>29 DEF TickAborts, IdleWatchdog
  <2>4. ReaderKnows'
    BY <1>29 DEF TickAborts, IdleWatchdog
  <2>5. VerdictKnows'
    BY <1>29 DEF TickAborts, IdleWatchdog
  <2>6. QED
    BY <1>0, <2>1, <2>2, <2>3, <2>4, <2>5
<1>30. ASSUME UNCHANGED vars
      PROVE  IInv'
  <2>1. TypeOK'
    BY <1>30 DEF vars
  <2>2. WorkerFiles'
    BY <1>30 DEF vars
  <2>3. RecordsNameTheirSlot'
    BY <1>30 DEF vars
  <2>4. ReaderKnows'
    BY <1>30 DEF vars
  <2>5. VerdictKnows'
    BY <1>30 DEF vars
  <2>6. QED
    BY <1>0, <2>1, <2>2, <2>3, <2>4, <2>5
<1>31. QED
  BY <1>1, <1>2, <1>3, <1>4, <1>5, <1>6, <1>7, <1>8, <1>9, <1>10, <1>11, <1>12, <1>13, <1>14, <1>15, <1>16, <1>17, <1>18, <1>19, <1>20, <1>21, <1>22, <1>23, <1>24, <1>25, <1>26, <1>27, <1>28, <1>29, <1>30 DEF Next, Worker, Watchdog


\* IInv holds in every reachable state, for every value of the constants.
THEOREM InductiveInvariant == ASSUME OneFirePerSlot PROVE Spec => []IInv
<1>1. IInv /\ [Next]_vars => IInv'
  BY StepIInv
<1>2. QED
  BY <1>1, InitIInv, PTL DEF Spec

\* The types of the files, the worker states and the watchdog's own memory.
THEOREM TypeCorrect == ASSUME OneFirePerSlot PROVE Spec => []TypeOK
<1>1. IInv => TypeOK
  BY DEF IInv
<1>2. QED
  BY <1>1, InductiveInvariant, PTL

\* A worker that collects under the flock can always be found by its record.
THEOREM RecordGuardsLockHolds ==
  ASSUME OneFirePerSlot PROVE Spec => []RecordGuardsLock
<1>1. IInv => RecordGuardsLock
  BY DEF IInv, WorkerFiles, RecordGuardsLock
<1>2. QED
  BY <1>1, InductiveInvariant, PTL

\* A hung-worker incident is only on file once the flock is free of its slot.
THEOREM IncidentMeansLockFreeHolds ==
  ASSUME OneFirePerSlot PROVE Spec => []IncidentMeansLockFree
<1>1. IInv => IncidentMeansLockFree
  BY DEF IInv, WorkerFiles, IncidentMeansLockFree, Holding
<1>2. QED
  BY <1>1, InductiveInvariant, PTL

\* A slot that reported by its deadline is never reported hung or dead, and one
\* reported dead has ended, for any schedule, deadlines and failures.
THEOREM DeathIsRealHolds == ASSUME OneFirePerSlot PROVE Spec => []DeathIsReal
<1>1. IInv => DeathIsReal
  BY DEF IInv, WorkerFiles, InTimeKnows, DeathIsReal, Alive, Quiet
<1>2. QED
  BY <1>1, InductiveInvariant, PTL

\* Whoever drops a pid record, its slot has a receipt or an incident.
THEOREM RecordOutlivesOutcomeHolds ==
  ASSUME OneFirePerSlot PROVE Spec => RecordOutlivesOutcome
<1> DEFINE Outlives ==
      \A s \in Slots : pidrec[s] # None /\ pidrec'[s] = None =>
        summary[s] # "absent" \/ hung[s] # "none"
<1>1. ASSUME IInv, [Next]_vars PROVE Outlives
  <2> SUFFICES ASSUME NEW s \in Slots, pidrec[s] # None, pidrec'[s] = None
               PROVE  summary[s] # "absent" \/ hung[s] # "none"
    OBVIOUS
  <2> USE DEF IInv, TypeOK
  <2>1. ASSUME NEW f \in Fires, WriteRecord(f) PROVE FALSE
    <3>1. [worker |-> f, started |-> firedAt[f], child |-> 0] \in PidRecord
      <4>1. firedAt[f] \in Nat
        BY <1>1, <2>1 DEF WriteRecord, WorkerFiles
      <4>2. QED
        BY <4>1 DEF PidRecord
    <3>2. QED
      BY <3>1, <2>1, NoneAssumption DEF WriteRecord
  <2>2. ASSUME NEW f \in Fires, RecordChild(f) PROVE FALSE
    <3>1. CASE pidrec[SlotOf[f]] = None
      BY <3>1, <2>2 DEF RecordChild
    <3>2. CASE pidrec[SlotOf[f]] # None
      <4>1. [pidrec[SlotOf[f]] EXCEPT !.child = attempt[f]] \in PidRecord
        <5>1. pidrec[SlotOf[f]] \in PidRecord /\ attempt[f] \in 0..2
          BY <1>1, <3>2, SlotAssumption
        <5>2. QED
          BY <5>1 DEF PidRecord
      <4>2. QED
        BY <4>1, <3>2, <2>2, NoneAssumption DEF RecordChild
    <3>3. QED
      BY <3>1, <3>2
  <2>3. ASSUME NEW f \in Fires, UnlinkRecord(f)
        PROVE  summary[s] # "absent"
    BY <2>3 DEF UnlinkRecord
  <2>4. ASSUME ReapUnlink
        PROVE  summary[s] # "absent" \/ hung[s] # "none"
    <3>1. s = wd.slot
      BY <2>4 DEF ReapUnlink
    <3>2. wd.verdict \in Verdicts \ {"RUNNING_OK"} /\ wd.pc = "unlink"
      BY <1>1, <2>4 DEF ReapUnlink, VerdictKnows, Acting
    <3>3. wd.verdict # "INVALID_RECORD"
      BY <1>1, <3>1, <3>2 DEF ReaderKnows, VerdictKnows, Acting
    <3>4. CASE wd.verdict = "FINISHED_STALE"
      BY <1>1, <3>1, <3>2, <3>4 DEF ReaderKnows, VerdictKnows, Acting
    <3>5. CASE wd.verdict \in {"OVERDUE_KILL", "DIED_NO_SUMMARY", "PID_REUSED"}
      BY <1>1, <3>1, <3>2, <3>5 DEF VerdictKnows, Acting, HungType
    <3>6. QED
      BY <3>2, <3>3, <3>4, <3>5 DEF Verdicts
  <2>5. CASE UNCHANGED pidrec
    BY <2>5
  <2>6. QED
    BY <1>1, <2>1, <2>2, <2>3, <2>4, <2>5
    DEF Next, Worker, Watchdog, vars, files, Tick, Fire, WriteAck, TryLock,
        OverlapSkip, SafetyGateFails, SafetyGatePasses, Collect, Raise, Report,
        SpawnAgent, SpawnFails, AgentReturned, AgentTimeout, Release, Crash,
        ChildExits, TickStart, Scan, ReapRead, ReapProbe, ReapKillChild,
        ReapKillWorker, ReapFile, TickEnd, TickAborts
<1>2. IInv /\ [Next]_vars => [Outlives]_vars
  BY <1>1
<1>3. QED
  BY <1>2, InductiveInvariant, PTL DEF Spec, RecordOutlivesOutcome

-----------------------------------------------------------------------------
(* The scheduler implements the ledger: a step of a worker or of the       *)
(* watchdog is a step of the ledger, or leaves both of its variables alone. *)

\* The ledger entry of one slot, read off its receipt and its incident.
LEMMA OutcomeOfSlot ==
  ASSUME TypeOK, NEW s \in Slots
  PROVE  /\ OutcomeOf \in [Slots -> {"open", "reported", "skipped", "lost"}]
         /\ summary[s] = "OVERLAP_SKIPPED" => OutcomeOf[s] = "skipped"
         /\ summary[s] \in {"COMPLETED", "FAILED"} => OutcomeOf[s] = "reported"
         /\ summary[s] = "absent" /\ hung[s] # "none" => OutcomeOf[s] = "lost"
         /\ summary[s] = "absent" /\ hung[s] = "none" => OutcomeOf[s] = "open"
  BY DEF OutcomeOf, TypeOK, SummaryStatus

LEMMA OutcomeKept ==
  ASSUME UNCHANGED <<summary, hung>>
  PROVE  UNCHANGED OutcomeOf
  BY DEF OutcomeOf

LEMMA LockKept ==
  ASSUME UNCHANGED lock
  PROVE  UNCHANGED SlotOfLock
  BY DEF SlotOfLock

\* A new receipt settles its slot and no other.
LEMMA ReceiptSettles ==
  ASSUME NEW s \in Slots, NEW status \in {"COMPLETED", "FAILED", "OVERLAP_SKIPPED"}, TypeOK,
         summary' = [summary EXCEPT ![s] = status], UNCHANGED hung
  PROVE  OutcomeOf' = [OutcomeOf EXCEPT ![s] =
                         IF status = "OVERLAP_SKIPPED" THEN "skipped" ELSE "reported"]
  BY DEF OutcomeOf, TypeOK

\* The slot of the fire that holds the flock.
LEMMA HolderOfSlot ==
  ASSUME OneFirePerSlot, IInv, NEW f \in Fires
  PROVE  /\ SlotOf[f] \in Slots
         /\ SlotOfLock = SlotOf[f] <=> lock = f
         /\ SlotOfLock \in Slots \union {None}
         /\ SlotOfLock = None <=> lock = None
  BY SlotAssumption, NoneAssumption
  DEF SlotOfLock, OneFirePerSlot, IInv, TypeOK

\* A receipt is written by the worker that holds the flock.
LEMMA ReportIsReport ==
  ASSUME OneFirePerSlot, IInv, NEW f \in Fires, pc[f] \in Working,
         NEW status \in {"COMPLETED", "FAILED"}, Report(f, status)
  PROVE  Ledger!Report(SlotOf[f])
<1>1. /\ TypeOK /\ lock = f /\ summary[SlotOf[f]] = "absent" /\ hung[SlotOf[f]] = "none"
  BY DEF IInv, WorkerFiles, Working, Holding
<1>2. SlotOf[f] \in Slots /\ SlotOfLock = SlotOf[f]
  BY <1>1, HolderOfSlot
<1>3. OutcomeOf[SlotOf[f]] = "open"
  BY <1>1, <1>2, OutcomeOfSlot
<1>4. OutcomeOf' = [OutcomeOf EXCEPT ![SlotOf[f]] = "reported"]
  BY <1>1, <1>2, ReceiptSettles DEF Report, incidents
<1>5. UNCHANGED SlotOfLock
  BY LockKept DEF Report
<1>6. QED
  BY <1>2, <1>3, <1>4, <1>5 DEF Ledger!Report, Ledger!Settle

\* Giving the flock back ends the collecting of the holder's slot.
LEMMA FreeingIsEnd ==
  ASSUME OneFirePerSlot, IInv, NEW f \in Fires, lock = f, lock' = None,
         UNCHANGED <<summary, hung>>
  PROVE  Ledger!End(SlotOf[f])
  BY HolderOfSlot, OutcomeKept DEF Ledger!End, SlotOfLock

\* A step that touches neither flock nor receipts nor incidents is no step of
\* the ledger.
LEMMA Unseen ==
  ASSUME UNCHANGED <<lock, summary, hung>>
  PROVE  UNCHANGED <<SlotOfLock, OutcomeOf>>
  BY OutcomeKept, LockKept

LEMMA StepLedger ==
  ASSUME OneFirePerSlot, IInv, [Next]_vars
  PROVE  [Ledger!Next]_<<SlotOfLock, OutcomeOf>>
<1> DEFINE Stutter == UNCHANGED <<SlotOfLock, OutcomeOf>>
<1>0. SlotOf \in [Fires -> Slots]
  BY SlotAssumption
<1>1. ASSUME NEW f \in Fires, TryLock(f) PROVE Ledger!Begin(SlotOf[f])
  <2>1. TypeOK /\ summary[SlotOf[f]] = "absent" /\ hung[SlotOf[f]] = "none"
    BY <1>1 DEF TryLock, IInv, WorkerFiles, Unstarted
  <2>2. OutcomeOf[SlotOf[f]] = "open"
    BY <1>0, <2>1, OutcomeOfSlot
  <2>3. SlotOfLock = None /\ SlotOfLock' = SlotOf[f]
    BY <1>1, NoneAssumption DEF TryLock, SlotOfLock
  <2>4. UNCHANGED OutcomeOf
    BY <1>1, OutcomeKept DEF TryLock, files, incidents
  <2>5. QED
    BY <2>2, <2>3, <2>4 DEF Ledger!Begin
<1>2. ASSUME NEW f \in Fires, OverlapSkip(f) PROVE Ledger!Skip(SlotOf[f])
  <2>1. TypeOK /\ summary[SlotOf[f]] = "absent" /\ hung[SlotOf[f]] = "none"
    BY <1>2 DEF OverlapSkip, IInv, WorkerFiles, Unstarted
  <2>2. OutcomeOf[SlotOf[f]] = "open"
    BY <1>0, <2>1, OutcomeOfSlot
  <2>3. lock # f /\ lock # None
    BY <1>2 DEF OverlapSkip, IInv, WorkerFiles, Holding
  <2>4. SlotOfLock \notin {SlotOf[f], None}
    BY <2>3, HolderOfSlot
  <2>5. OutcomeOf' = [OutcomeOf EXCEPT ![SlotOf[f]] = "skipped"]
    BY <1>0, <1>2, <2>1, ReceiptSettles DEF OverlapSkip, incidents
  <2>6. UNCHANGED SlotOfLock
    BY <1>2, LockKept DEF OverlapSkip
  <2>7. QED
    BY <2>2, <2>4, <2>5, <2>6 DEF Ledger!Skip, Ledger!Settle
<1>3. ASSUME NEW f \in Fires,
             SafetyGateFails(f) \/ Collect(f) \/ SpawnFails(f)
               \/ AgentReturned(f) \/ AgentTimeout(f)
      PROVE  Ledger!Report(SlotOf[f]) \/ Stutter
  <2>1. pc[f] \in Working
    BY <1>3 DEF SafetyGateFails, Collect, SpawnFails, AgentReturned,
                AgentTimeout, Working
  <2>2. \/ \E status \in {"COMPLETED", "FAILED"} : Report(f, status)
        \/ UNCHANGED <<lock, summary, hung>>
    BY <1>3 DEF SafetyGateFails, Collect, SpawnFails, AgentReturned,
                AgentTimeout, files, incidents
  <2>3. QED
    BY <2>1, <2>2, ReportIsReport, Unseen
<1>4. ASSUME NEW f \in Fires, Release(f) PROVE Ledger!End(SlotOf[f])
  <2>1. lock = f /\ lock' = None /\ UNCHANGED <<summary, hung>>
    BY <1>4 DEF Release, IInv, WorkerFiles, Holding, files, incidents
  <2>2. QED
    BY <2>1, FreeingIsEnd
<1>5. ASSUME NEW f \in Fires, Crash(f)
      PROVE  Ledger!End(SlotOf[f]) \/ Stutter
  <2>1. UNCHANGED <<summary, hung>>
    BY <1>5 DEF Crash, files, incidents
  <2>2. CASE lock = f
    BY <1>5, <2>1, <2>2, FreeingIsEnd DEF Crash, LockAfterDeathOf
  <2>3. CASE lock # f
    BY <1>5, <2>1, <2>3, Unseen DEF Crash, LockAfterDeathOf
  <2>4. QED
    BY <2>2, <2>3
<1>6. ASSUME ReapKillWorker
      PROVE  (\E s \in Slots : Ledger!End(s)) \/ Stutter
  <2>1. UNCHANGED <<summary, hung>>
    BY <1>6 DEF ReapKillWorker, files, incidents
  <2>2. wd.rec \in PidRecord
    <3>1. wd.verdict \in HungType
      BY <1>6 DEF ReapKillWorker, IInv, VerdictKnows, Acting, Verdicts, HungType
    <3>2. wd.rec # None
      BY <1>6, <3>1 DEF ReapKillWorker, IInv, VerdictKnows, Acting
    <3>3. QED
      BY <3>2 DEF IInv, TypeOK, WatchdogType
  <2>3. wd.rec.worker \in Fires
    BY <2>2 DEF PidRecord
  <2>4. CASE lock = wd.rec.worker /\ Alive(wd.rec.worker)
    <3>1. lock' = None
      BY <1>6, <2>4 DEF ReapKillWorker, LockAfterDeathOf
    <3>2. Ledger!End(SlotOf[wd.rec.worker])
      BY <2>1, <2>3, <2>4, <3>1, FreeingIsEnd
    <3>3. QED
      BY <1>0, <2>3, <3>2
  <2>5. CASE ~(lock = wd.rec.worker /\ Alive(wd.rec.worker))
    <3>1. UNCHANGED lock
      BY <1>6, <2>5 DEF ReapKillWorker, LockAfterDeathOf
    <3>2. QED
      BY <2>1, <3>1, Unseen
  <2>6. QED
    BY <2>4, <2>5
<1>7. ASSUME ReapFile PROVE Ledger!Lose(wd.slot) \/ Stutter
  <2>1. /\ UNCHANGED <<lock, summary>>
        /\ wd.pc = "file"
        /\ hung' = [hung EXCEPT ![wd.slot] = IF @ = "none" THEN wd.verdict ELSE @]
    BY <1>7 DEF ReapFile, files
  <2>2. /\ wd.verdict \in {"OVERDUE_KILL", "DIED_NO_SUMMARY", "PID_REUSED"}
        /\ wd.rec \in PidRecord
        /\ pc[wd.rec.worker] \in {"done", "dead"}
    BY <2>1 DEF IInv, TypeOK, WatchdogType, VerdictKnows, Acting, Verdicts, HungType
  <2>3. wd.rec.worker \in Fires /\ SlotOf[wd.rec.worker] = wd.slot
    BY <2>2, NoneAssumption DEF PidRecord, IInv, ReaderKnows
  <2>4. wd.slot \in Slots /\ SlotOfLock # wd.slot
    <3>1. lock # wd.rec.worker
      BY <2>2, <2>3 DEF IInv, WorkerFiles, Holding
    <3>2. QED
      BY <2>3, <3>1, HolderOfSlot
  <2>5. UNCHANGED SlotOfLock
    BY <2>1, LockKept
  <2>6. TypeOK
    BY DEF IInv
  <2>7. CASE hung[wd.slot] = "none" /\ summary[wd.slot] = "absent"
    <3>1. OutcomeOf[wd.slot] = "open"
      BY <2>4, <2>6, <2>7, OutcomeOfSlot
    <3>2. hung' = [hung EXCEPT ![wd.slot] = wd.verdict] /\ wd.verdict # "none"
      BY <2>1, <2>2, <2>7
    <3>3. OutcomeOf' = [OutcomeOf EXCEPT ![wd.slot] = "lost"]
      BY <2>1, <2>4, <2>6, <2>7, <3>2 DEF OutcomeOf, TypeOK
    <3>4. QED
      BY <2>4, <2>5, <3>1, <3>3 DEF Ledger!Lose, Ledger!Settle
  <2>8. CASE hung[wd.slot] # "none"
    <3>1. UNCHANGED hung
      BY <2>1, <2>4, <2>6, <2>8 DEF TypeOK
    <3>2. QED
      BY <2>1, <3>1, Unseen
  <2>9. CASE summary[wd.slot] # "absent"
    <3>1. UNCHANGED OutcomeOf
      BY <2>1, <2>4, <2>6, <2>9 DEF OutcomeOf, TypeOK, SummaryStatus
    <3>2. QED
      BY <2>5, <3>1
  <2>10. QED
    BY <2>7, <2>8, <2>9
<1>8. CASE UNCHANGED <<lock, summary, hung>>
  BY <1>8, Unseen
<1>9. \A f \in Fires : SlotOf[f] \in Slots
  BY <1>0
<1>10. ReapFile => wd.slot \in Slots
  BY DEF ReapFile, IInv, TypeOK, WatchdogType, ReaderKnows, Acting
<1>11. QED
  BY <1>1, <1>2, <1>3, <1>4, <1>5, <1>6, <1>7, <1>8, <1>9, <1>10
  DEF Next, Worker, Watchdog, vars, worker, files, incidents, Ledger!Next, Tick,
      Fire, WriteAck, WriteRecord, SafetyGatePasses, Raise, SpawnAgent,
      RecordChild, ChildExits, UnlinkRecord, TickStart, Scan, ReapRead,
      ReapProbe, ReapKillChild, ReapUnlink, TickEnd, TickAborts

LEMMA InitLedger == Init => Ledger!Init
  BY DEF Init, Ledger!Init, SlotOfLock, OutcomeOf

\* Every behaviour of workers and watchdog is one of the ledger: one slot
\* collects at a time, and a slot settled once is never settled again.
THEOREM ImplementsLedgerSteps ==
  ASSUME OneFirePerSlot PROVE Spec => LedgerSteps
<1>1. IInv /\ [Next]_vars => [Ledger!Next]_<<SlotOfLock, OutcomeOf>>
  BY StepLedger
<1>2. QED
  BY <1>1, InitLedger, InductiveInvariant, PTL DEF Spec, LedgerSteps, Ledger!Steps

-----------------------------------------------------------------------------
(* What the ledger promises, carried over to the workers. *)

LEMMA LedgerStep ==
  ASSUME Ledger!LedgerTypeOK, Ledger!LostIsNotCollecting, None \notin Slots,
         [Ledger!Next]_<<SlotOfLock, OutcomeOf>>
  PROVE  /\ Ledger!LedgerTypeOK' /\ Ledger!LostIsNotCollecting'
         /\ \A s \in Slots : OutcomeOf[s] # "open" => OutcomeOf'[s] = OutcomeOf[s]
<1> DEFINE Kept == /\ Ledger!LedgerTypeOK' /\ Ledger!LostIsNotCollecting'
                   /\ \A s \in Slots : OutcomeOf[s] # "open" => OutcomeOf'[s] = OutcomeOf[s]
<1> USE DEF Ledger!LedgerTypeOK, Ledger!LostIsNotCollecting, Ledger!Outcomes
<1> HIDE DEF SlotOfLock, OutcomeOf
<1>1. ASSUME NEW s \in Slots, Ledger!Begin(s) PROVE Kept
  BY <1>1 DEF Ledger!Begin
<1>2. ASSUME NEW s \in Slots, Ledger!Report(s) PROVE Kept
  BY <1>2 DEF Ledger!Report, Ledger!Settle
<1>3. ASSUME NEW s \in Slots, Ledger!Skip(s) PROVE Kept
  BY <1>3 DEF Ledger!Skip, Ledger!Settle
<1>4. ASSUME NEW s \in Slots, Ledger!Lose(s) PROVE Kept
  BY <1>4 DEF Ledger!Lose, Ledger!Settle
<1>5. ASSUME NEW s \in Slots, Ledger!End(s) PROVE Kept
  BY <1>5 DEF Ledger!End
<1>6. CASE UNCHANGED <<SlotOfLock, OutcomeOf>>
  BY <1>6
<1>7. QED
  BY <1>1, <1>2, <1>3, <1>4, <1>5, <1>6 DEF Ledger!Next

\* The outcome of a slot is settled once: a report is never followed by a
\* HUNG_WORKER verdict nor a verdict by a report, and a slot that is lost or
\* skipped does not hold the flock (worker_reaper.py:120-237).
THEOREM OutcomesStay ==
  ASSUME OneFirePerSlot PROVE Spec => Ledger!OutcomesAreFinal /\ []Ledger!LostIsNotCollecting
<1> DEFINE Inv == Ledger!LedgerTypeOK /\ Ledger!LostIsNotCollecting
<1>1. Ledger!Init => Inv
  BY DEF Ledger!Init, Ledger!LedgerTypeOK, Ledger!LostIsNotCollecting, Ledger!Outcomes
<1>2. None \notin Slots
  BY NoneAssumption
<1>3. Inv /\ [Ledger!Next]_<<SlotOfLock, OutcomeOf>> => Inv'
  <2> SUFFICES ASSUME Inv, [Ledger!Next]_<<SlotOfLock, OutcomeOf>> PROVE Inv'
    OBVIOUS
  <2>1. QED
    BY <1>2, LedgerStep
<1>4. Inv /\ [Ledger!Next]_<<SlotOfLock, OutcomeOf>>
        => [\A s \in Slots : OutcomeOf[s] # "open" => OutcomeOf'[s] = OutcomeOf[s]]_<<SlotOfLock, OutcomeOf>>
  <2> SUFFICES ASSUME Inv, [Ledger!Next]_<<SlotOfLock, OutcomeOf>>
               PROVE  \A s \in Slots : OutcomeOf[s] # "open" => OutcomeOf'[s] = OutcomeOf[s]
    OBVIOUS
  <2>1. QED
    BY <1>2, LedgerStep
<1>5. QED
  BY <1>1, <1>3, <1>4, ImplementsLedgerSteps, PTL
  DEF LedgerSteps, Ledger!Steps, Ledger!OutcomesAreFinal
=============================================================================
