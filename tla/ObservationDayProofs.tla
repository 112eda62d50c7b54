------------------------- MODULE ObservationDayProofs -------------------------
(***************************************************************************)
(* What is registered and what is filed, for any slot table, any days and  *)
(* any number of registrations cut short: DayInv is inductive, and with it *)
(* no slot the observer shows as missed is off the record, and nothing     *)
(* runs that nobody expected.                                              *)
(***************************************************************************)
EXTENDS ObservationDay, TLAPS

LEMMA Monotone ==
  ASSUME NEW d \in Nat, NEW x \in Int, NEW y \in Int, x <= y
  PROVE  d * x <= d * y
<1>1. PICK k \in Nat : y = x + k
  BY y - x \in Nat
<1>2. d * (x + k) = d * x + d * k /\ d * k \in Nat
  OBVIOUS
<1>3. QED
  BY <1>1, <1>2

\* Time within a day stays in that day.
LEMMA SameDay ==
  ASSUME NEW d \in Nat \ {0}, NEW a \in Nat, NEW t \in Nat,
         a <= t, (a % d) + (t - a) < d
  PROVE  t \div d = a \div d
<1> DEFINE p == a \div d
           q == t \div d
<1>1. /\ p \in Nat /\ a = d * p + (a % d) /\ a % d \in 0..(d - 1)
      /\ q \in Nat /\ t = d * q + (t % d) /\ t % d \in 0..(d - 1)
  OBVIOUS
<1> HIDE DEF p, q
<1>2. d * p <= t /\ t < d * p + d
  BY <1>1
<1>3. d * q <= t /\ t < d * q + d
  BY <1>1
<1>4. ~(q + 1 <= p)
  <2> SUFFICES ASSUME q + 1 <= p PROVE FALSE
    OBVIOUS
  <2>1. d * (q + 1) <= d * p
    BY <1>1, Monotone
  <2>2. d * (q + 1) = d * q + d
    BY <1>1
  <2>3. QED
    BY <1>1, <1>2, <1>3, <2>1, <2>2
<1>5. ~(p + 1 <= q)
  <2> SUFFICES ASSUME p + 1 <= q PROVE FALSE
    OBVIOUS
  <2>1. d * (p + 1) <= d * q
    BY <1>1, Monotone
  <2>2. d * (p + 1) = d * p + d
    BY <1>1
  <2>3. QED
    BY <1>1, <1>2, <1>3, <2>1, <2>2
<1>6. QED
  BY <1>1, <1>4, <1>5 DEF p, q

\* Later times are in the same or a later day.
LEMMA DayGrows ==
  ASSUME NEW d \in Nat \ {0}, NEW a \in Nat, NEW t \in Nat, a <= t
  PROVE  a \div d <= t \div d
<1> DEFINE p == a \div d
           q == t \div d
<1>1. /\ p \in Nat /\ a = d * p + (a % d) /\ a % d \in 0..(d - 1)
      /\ q \in Nat /\ t = d * q + (t % d) /\ t % d \in 0..(d - 1)
  OBVIOUS
<1> HIDE DEF p, q
<1>2. d * p <= t /\ t < d * q + d
  BY <1>1
<1>3. ~(q + 1 <= p)
  <2> SUFFICES ASSUME q + 1 <= p PROVE FALSE
    OBVIOUS
  <2>1. d * (q + 1) <= d * p
    BY <1>1, Monotone
  <2>2. d * (q + 1) = d * q + d
    BY <1>1
  <2>3. QED
    BY <1>1, <1>2, <2>1, <2>2
<1>4. QED
  BY <1>1, <1>3 DEF p, q

\* The last time of n days is in the last of them.
LEMMA DayBelow ==
  ASSUME NEW d \in Nat \ {0}, NEW n \in Nat, NEW t \in Nat, t < n * d
  PROVE  t \div d < n
<1> DEFINE q == t \div d
<1>1. q \in Nat /\ t = d * q + (t % d) /\ t % d \in 0..(d - 1)
  OBVIOUS
<1> HIDE DEF q
<1>2. ASSUME n <= q PROVE FALSE
  <2>1. d * n <= d * q
    BY <1>1, <1>2, Monotone
  <2>2. d * n = n * d
    OBVIOUS
  <2>3. QED
    BY <1>1, <2>1, <2>2
<1>3. QED
  BY <1>1, <1>2 DEF q

LEMMA TimesAreNat == Times \subseteq Nat
  BY DayAssumption DEF Times

LEMMA DayOfTime ==
  ASSUME NEW t \in Times
  PROVE  Day(t) \in Days
<1>1. t \in Nat /\ TimesOfDay \in Nat \ {0} /\ LastDay \in Nat
  BY DayAssumption, TimesAreNat
<1>2. LastDay + 1 \in Nat /\ t < (LastDay + 1) * TimesOfDay
  BY <1>1 DEF Times
<1>3. t \div TimesOfDay < LastDay + 1
  BY <1>1, <1>2, DayBelow
<1>4. t \div TimesOfDay \in Nat
  BY <1>1
<1>5. QED
  BY <1>1, <1>3, <1>4 DEF Day, Days

\* A job that is not collecting yet is in the day of its fire.
LEMMA JobDay ==
  ASSUME TypeOK, JobKnows, job # None, job.pc # "collecting"
  PROVE  Day(now) = Day(job.at)
<1>1. /\ job.at \in Nat /\ now \in Nat /\ job.slot \in Slots
      /\ job.at <= now /\ now <= job.at + MaxStart
      /\ Distance(job.slot, TimeOfDay(job.at)) <= Match
  BY TimesAreNat DEF TypeOK, JobKnows, Job
<1>2. /\ job.slot \in Nat /\ Match \in Nat /\ MaxStart \in Nat
      /\ TimesOfDay \in Nat \ {0}
      /\ job.slot + Match + MaxStart < TimesOfDay
  <2>1. TimesOfDay \in Nat \ {0} /\ Match \in Nat /\ MaxStart \in Nat
    BY DayAssumption
  <2>2. job.slot \in 0..(TimesOfDay - 1)
    BY <1>1, DayAssumption
  <2>3. job.slot + Match + MaxStart < TimesOfDay
    BY <1>1, DayAssumption
  <2>4. QED
    BY <2>1, <2>2, <2>3
<1>3. TimeOfDay(job.at) \in Nat
  BY <1>1, <1>2 DEF TimeOfDay
<1>4. TimeOfDay(job.at) <= job.slot + Match
  BY <1>1, <1>2, <1>3 DEF Distance
<1>5. (job.at % TimesOfDay) + (now - job.at) < TimesOfDay
  BY <1>1, <1>2, <1>3, <1>4 DEF TimeOfDay
<1>6. QED
  BY <1>1, <1>2, <1>5, SameDay DEF Day

LEMMA InitDayInv == Init => DayInv
<1> SUFFICES ASSUME Init PROVE DayInv
  OBVIOUS
<1>1. 0 \in Times
  BY DayAssumption, (LastDay + 1) * TimesOfDay >= 1 DEF Times
<1>2. TypeOK
  <2>1. 0 \in 0..MaxCrashes
    BY DayAssumption
  <2>2. QED
    BY <1>1, <2>1 DEF Init, TypeOK
<1>3. JobKnows /\ TickKnows /\ PinsAreKnown /\ MissesOnRecord /\ RunIsExpected
  BY DEF Init, JobKnows, TickKnows, PinsAreKnown, MissesOnRecord, RunIsExpected
<1>4. QED
  BY <1>2, <1>3 DEF DayInv

LEMMA StepDayInv ==
  ASSUME DayInv, [Next]_vars
  PROVE  DayInv'
<1> USE DayAssumption, NoneAssumption
<1> USE DEF DayInv, files, pinned
<1>1. ASSUME Pass
      PROVE  DayInv'
  <2>1. TypeOK'
    <3>1. owed' \in BOOLEAN /\ due' \in BOOLEAN
      BY <1>1 DEF Pass, TypeOK
    <3>0. /\ UNCHANGED <<job, tick, expected, acked, missed, plists, checked, crashes>>
          /\ now' = now + 1
      BY <1>1 DEF Pass
    <3>2. now \in Nat /\ now' = now + 1 /\ now' \in Times
      BY <1>1, TimesAreNat DEF TypeOK, Pass
    <3>3. job # None => job.at \in Nat
      BY TimesAreNat DEF TypeOK, Job
    <3>4. tick # None => tick.now \in Nat
      BY TimesAreNat DEF TypeOK, Tick
    <3>5. checked # None => checked \in Nat
      BY TimesAreNat DEF TypeOK
    <3>6. QED
      BY <3>0, <3>1, <3>2, <3>3, <3>4, <3>5 DEF TypeOK
  <2>2. JobKnows'
    <3>1. /\ now \in Nat /\ job' = job /\ now' = now + 1 /\ expected' = expected
          /\ job # None => job.at \in Nat /\ MaxStart \in Nat
          /\ job # None /\ job.pc # "collecting" => now < job.at + MaxStart
      BY <1>1, TimesAreNat DEF TypeOK, Job, Pass
    <3>2. QED
      BY <3>1 DEF JobKnows
  <2>3. TickKnows'
    BY <1>1
    DEF TypeOK, Tick, TickKnows, Pass
  <2>4. MissesOnRecord'
    BY <1>1
    DEF MissesOnRecord, ObserverState, Pass
  <2>5. RunIsExpected'
    BY <1>1
    DEF RunIsExpected, Pass
  <2>6. PinsAreKnown'
    <3>1. /\ TimesOfDay \in Nat \ {0} /\ now \in Nat /\ now' = now + 1
          /\ plists' = plists /\ plists \subseteq Int
          /\ expected' = expected /\ crashes' = crashes
      BY <1>1, TimesAreNat DEF TypeOK, Pass, Days
    <3>2. Day(now) <= Day(now') /\ Day(now) \in Int /\ Day(now') \in Int
      BY <3>1, DayGrows DEF Day
    <3>3. \A d \in plists : ExpectedRuns(d) \subseteq expected \/ crashes > 0
      BY DEF PinsAreKnown
    <3>4. ASSUME due' PROVE \E d \in plists : d <= Day(now')
      <4>1. CASE due
        <5>1. PICK d \in plists : d <= Day(now)
          BY <4>1 DEF PinsAreKnown
        <5>2. QED
          BY <3>1, <3>2, <5>1
      <4>2. CASE ~due
        <5>1. Day(now') \in plists
          BY <1>1, <3>4, <4>2 DEF Pass
        <5>2. QED
          BY <3>2, <5>1
      <4>3. QED
        BY <4>1, <4>2
    <3>5. QED
      BY <3>1, <3>3, <3>4 DEF PinsAreKnown
  <2>7. QED
    BY <2>1, <2>2, <2>3, <2>4, <2>5, <2>6
<1>2. ASSUME Fire
      PROVE  DayInv'
  <2>1. TypeOK'
    <3>1. CASE UNCHANGED job
      BY <1>2, <3>1 DEF TypeOK, Fire
    <3>2. CASE \E s \in PlanFire(now) : job' = [pc |-> "planned", at |-> now, slot |-> s]
      <4>1. PICK s \in PlanFire(now) : job' = [pc |-> "planned", at |-> now, slot |-> s]
        BY <3>2
      <4>2. /\ s \in Slots /\ Distance(s, TimeOfDay(now)) <= Match
            /\ now \in Times /\ now \in Nat
        BY <4>1, TimesAreNat DEF PlanFire, TypeOK
      <4>3. /\ job' \in Job /\ job'.at = now /\ job'.slot = s
        BY <4>1, <4>2 DEF Job
      <4>4. job' # None => job'.at <= now'
                           /\ Distance(job'.slot, TimeOfDay(job'.at)) <= Match
        BY <1>2, <4>2, <4>3 DEF Fire
      <4>5. QED
        BY <1>2, <4>3, <4>4 DEF TypeOK, Fire
    <3>3. QED
      BY <1>2, <3>1, <3>2 DEF Fire
  <2>2. JobKnows'
    BY <1>2, TimesAreNat
    DEF TypeOK, Job, JobKnows, Fire, PlanFire, MarketAllows
  <2>3. TickKnows'
    BY <1>2
    DEF TypeOK, Tick, TickKnows, Fire, PlanFire
  <2>4. MissesOnRecord'
    BY <1>2
    DEF MissesOnRecord, ObserverState, Fire, PlanFire
  <2>5. RunIsExpected'
    BY <1>2
    DEF RunIsExpected, Fire, PlanFire
  <2>6. PinsAreKnown'
    BY <1>2
    DEF PinsAreKnown, Fire
  <2>7. QED
    BY <2>1, <2>2, <2>3, <2>4, <2>5, <2>6
<1>3. ASSUME JobRegisters
      PROVE  DayInv'
  <2>1. TypeOK'
    BY <1>3
    DEF TypeOK, Job, Tick, JobRegisters, Register, ExpectedRuns
  <2>2. JobKnows'
    BY <1>3
    DEF TypeOK, Job, JobKnows, JobRegisters, Register
  <2>3. TickKnows'
    BY <1>3
    DEF TypeOK, Tick, TickKnows, JobRegisters, Register
  <2>4. MissesOnRecord'
    BY <1>3
    DEF MissesOnRecord, ObserverState, JobRegisters, Register
  <2>5. RunIsExpected'
    BY <1>3
    DEF RunIsExpected, JobRegisters, Register
  <2>6. PinsAreKnown'
    BY <1>3
    DEF PinsAreKnown, JobRegisters, Register
  <2>7. QED
    BY <2>1, <2>2, <2>3, <2>4, <2>5, <2>6
<1>4. ASSUME WorkerAcks
      PROVE  DayInv'
  <2>1. TypeOK'
    BY <1>4, JobDay
    DEF TypeOK, Job, Tick, WorkerAcks, ExpectedRuns, Runs, JobKnows
  <2>2. JobKnows'
    BY <1>4
    DEF TypeOK, Job, JobKnows, WorkerAcks
  <2>3. TickKnows'
    BY <1>4
    DEF TypeOK, Tick, TickKnows, WorkerAcks
  <2>4. MissesOnRecord'
    BY <1>4
    DEF MissesOnRecord, ObserverState, WorkerAcks
  <2>5. RunIsExpected'
    BY <1>4, JobDay
    DEF RunIsExpected, WorkerAcks, ExpectedRuns, Runs, JobKnows, TypeOK, Job
  <2>6. PinsAreKnown'
    BY <1>4
    DEF PinsAreKnown, WorkerAcks
  <2>7. QED
    BY <2>1, <2>2, <2>3, <2>4, <2>5, <2>6
<1>5. ASSUME WorkerRefuses
      PROVE  DayInv'
  <2>1. TypeOK'
    BY <1>5
    DEF TypeOK, Job, Tick, WorkerRefuses
  <2>2. JobKnows'
    BY <1>5
    DEF TypeOK, Job, JobKnows, WorkerRefuses
  <2>3. TickKnows'
    BY <1>5
    DEF TypeOK, Tick, TickKnows, WorkerRefuses
  <2>4. MissesOnRecord'
    BY <1>5
    DEF MissesOnRecord, ObserverState, WorkerRefuses
  <2>5. RunIsExpected'
    BY <1>5
    DEF RunIsExpected, WorkerRefuses
  <2>6. PinsAreKnown'
    BY <1>5
    DEF PinsAreKnown, WorkerRefuses
  <2>7. QED
    BY <2>1, <2>2, <2>3, <2>4, <2>5, <2>6
<1>6. ASSUME JobEnds
      PROVE  DayInv'
  <2>1. TypeOK'
    BY <1>6
    DEF TypeOK, Job, Tick, JobEnds
  <2>2. JobKnows'
    BY <1>6
    DEF TypeOK, Job, JobKnows, JobEnds
  <2>3. TickKnows'
    BY <1>6
    DEF TypeOK, Tick, TickKnows, JobEnds
  <2>4. MissesOnRecord'
    BY <1>6
    DEF MissesOnRecord, ObserverState, JobEnds
  <2>5. RunIsExpected'
    BY <1>6
    DEF RunIsExpected, JobEnds
  <2>6. PinsAreKnown'
    BY <1>6
    DEF PinsAreKnown, JobEnds
  <2>7. QED
    BY <2>1, <2>2, <2>3, <2>4, <2>5, <2>6
<1>7. ASSUME JobDies
      PROVE  DayInv'
  <2>1. TypeOK'
    BY <1>7
    DEF TypeOK, Job, Tick, JobDies, ExpectedRuns, RegisterUpTo
  <2>2. JobKnows'
    BY <1>7
    DEF TypeOK, Job, JobKnows, JobDies, RegisterUpTo
  <2>3. TickKnows'
    BY <1>7
    DEF TypeOK, Tick, TickKnows, JobDies, RegisterUpTo
  <2>4. MissesOnRecord'
    BY <1>7
    DEF MissesOnRecord, ObserverState, JobDies, RegisterUpTo
  <2>5. RunIsExpected'
    <3>1. /\ expected \subseteq expected' /\ acked' = acked /\ plists' = plists
          /\ crashes \in Nat /\ crashes' = crashes + 1
      BY <1>7 DEF JobDies, RegisterUpTo, TypeOK
    <3>2. QED
      BY <3>1 DEF RunIsExpected
  <2>6. PinsAreKnown'
    BY <1>7
    DEF PinsAreKnown, JobDies, RegisterUpTo, TypeOK
  <2>7. QED
    BY <2>1, <2>2, <2>3, <2>4, <2>5, <2>6
<1>8. ASSUME TickStart
      PROVE  DayInv'
  <2>1. TypeOK'
    BY <1>8, TimesAreNat
    DEF TypeOK, Job, Tick, TickStart
  <2>2. JobKnows'
    BY <1>8, TimesAreNat
    DEF TypeOK, Job, JobKnows, TickStart
  <2>3. TickKnows'
    BY <1>8
    DEF TypeOK, Tick, TickKnows, TickStart
  <2>4. MissesOnRecord'
    BY <1>8
    DEF MissesOnRecord, ObserverState, TickStart
  <2>5. RunIsExpected'
    BY <1>8
    DEF RunIsExpected, TickStart
  <2>6. PinsAreKnown'
    BY <1>8
    DEF PinsAreKnown, TickStart
  <2>7. QED
    BY <2>1, <2>2, <2>3, <2>4, <2>5, <2>6
<1>9. ASSUME EnsureDayRegistered
      PROVE  DayInv'
  <2>1. TypeOK'
    BY <1>9
    DEF TypeOK, Job, Tick, EnsureDayRegistered, Register, ExpectedRuns
  <2>2. JobKnows'
    BY <1>9
    DEF TypeOK, Job, JobKnows, EnsureDayRegistered, Register
  <2>3. TickKnows'
    BY <1>9
    DEF TypeOK, Tick, TickKnows, EnsureDayRegistered, Register
  <2>4. MissesOnRecord'
    BY <1>9
    DEF MissesOnRecord, ObserverState, EnsureDayRegistered, Register
  <2>5. RunIsExpected'
    BY <1>9
    DEF RunIsExpected, EnsureDayRegistered, Register
  <2>6. PinsAreKnown'
    BY <1>9
    DEF PinsAreKnown, EnsureDayRegistered, Register
  <2>7. QED
    BY <2>1, <2>2, <2>3, <2>4, <2>5, <2>6
<1>10. ASSUME Scan
      PROVE  DayInv'
  <2>1. TypeOK'
    BY <1>10
    DEF TypeOK, Job, Tick, Scan
  <2>2. JobKnows'
    BY <1>10
    DEF TypeOK, Job, JobKnows, Scan
  <2>3. TickKnows'
    BY <1>10
    DEF TypeOK, Tick, TickKnows, Scan
  <2>4. MissesOnRecord'
    BY <1>10
    DEF MissesOnRecord, ObserverState, Scan, TickKnows
  <2>5. RunIsExpected'
    BY <1>10
    DEF RunIsExpected, Scan
  <2>6. PinsAreKnown'
    BY <1>10
    DEF PinsAreKnown, Scan
  <2>7. QED
    BY <2>1, <2>2, <2>3, <2>4, <2>5, <2>6
<1>11. ASSUME TickDies
      PROVE  DayInv'
  <2>1. TypeOK'
    BY <1>11
    DEF TypeOK, Job, Tick, TickDies, ExpectedRuns, RegisterUpTo
  <2>2. JobKnows'
    BY <1>11
    DEF TypeOK, Job, JobKnows, TickDies, RegisterUpTo
  <2>3. TickKnows'
    BY <1>11
    DEF TypeOK, Tick, TickKnows, TickDies, RegisterUpTo
  <2>4. MissesOnRecord'
    BY <1>11
    DEF MissesOnRecord, ObserverState, TickDies, RegisterUpTo
  <2>5. RunIsExpected'
    <3>1. /\ expected \subseteq expected' /\ acked' = acked /\ plists' = plists
          /\ crashes \in Nat /\ crashes' = crashes + 1
      BY <1>11 DEF TickDies, RegisterUpTo, TypeOK
    <3>2. QED
      BY <3>1 DEF RunIsExpected
  <2>6. PinsAreKnown'
    BY <1>11
    DEF PinsAreKnown, TickDies, RegisterUpTo, TypeOK
  <2>7. QED
    BY <2>1, <2>2, <2>3, <2>4, <2>5, <2>6
<1>12. ASSUME NEW d \in Prepared, Prepare(d)
      PROVE  DayInv'
  <2>0. /\ expected' = expected \cup ExpectedRuns(d)
        /\ plists' \subseteq plists \cup {d} /\ plists \subseteq plists'
    BY <1>12 DEF Prepare, Register
  <2>1. TypeOK'
    BY <1>12, <2>0
    DEF TypeOK, Job, Tick, Prepare, ExpectedRuns
  <2>2. JobKnows'
    BY <1>12, <2>0
    DEF TypeOK, Job, JobKnows, Prepare
  <2>3. TickKnows'
    BY <1>12, <2>0
    DEF TypeOK, Tick, TickKnows, Prepare
  <2>4. MissesOnRecord'
    BY <1>12
    DEF MissesOnRecord, ObserverState, Prepare
  <2>5. RunIsExpected'
    BY <1>12, <2>0
    DEF RunIsExpected, Prepare
  <2>6. PinsAreKnown'
    BY <1>12, <2>0
    DEF PinsAreKnown, Prepare
  <2>7. QED
    BY <2>1, <2>2, <2>3, <2>4, <2>5, <2>6
<1>13. ASSUME NEW d \in Prepared, PrepareCut(d)
      PROVE  DayInv'
  <2>0. /\ expected \subseteq expected' /\ expected' \subseteq expected \cup ExpectedRuns(d)
        /\ plists' = plists \cup {d} /\ crashes' = crashes + 1
        /\ crashes \in Nat /\ crashes' > 0
    BY <1>13 DEF PrepareCut, RegisterUpTo, TypeOK
  <2>1. TypeOK'
    BY <1>13, <2>0
    DEF TypeOK, Job, Tick, PrepareCut, ExpectedRuns
  <2>2. JobKnows'
    BY <1>13, <2>0
    DEF TypeOK, Job, JobKnows, PrepareCut
  <2>3. TickKnows'
    BY <1>13, <2>0
    DEF TypeOK, Tick, TickKnows, PrepareCut
  <2>4. MissesOnRecord'
    BY <1>13
    DEF MissesOnRecord, ObserverState, PrepareCut
  <2>5. RunIsExpected'
    BY <1>13, <2>0
    DEF RunIsExpected, PrepareCut
  <2>6. PinsAreKnown'
    BY <1>13, <2>0
    DEF PinsAreKnown, PrepareCut
  <2>7. QED
    BY <2>1, <2>2, <2>3, <2>4, <2>5, <2>6
<1>14. ASSUME PinnedFires
      PROVE  DayInv'
  <2>0. /\ now \in Times /\ Day(now) \in Days /\ Day(now) \in Int
        /\ plists \subseteq Int /\ plists' = plists
        /\ expected' = expected /\ crashes' = crashes
    BY <1>14, DayOfTime DEF TypeOK, PinnedFires, Days
  <2>1. TypeOK'
    <3>1. acked' \subseteq Runs
      BY <1>14, <2>0 DEF TypeOK, PinnedFires, PinnedSlot, Runs
    <3>2. QED
      BY <1>14, <3>1 DEF TypeOK, PinnedFires
  <2>2. JobKnows'
    BY <1>14
    DEF TypeOK, Job, JobKnows, PinnedFires
  <2>3. TickKnows'
    BY <1>14
    DEF TypeOK, Tick, TickKnows, PinnedFires
  <2>4. MissesOnRecord'
    BY <1>14
    DEF MissesOnRecord, ObserverState, PinnedFires
  <2>5. RunIsExpected'
    <3>1. PICK d \in plists : d <= Day(now)
      BY <1>14 DEF PinsAreKnown, PinnedFires
    <3>2. SUFFICES ASSUME NEW r \in acked', r \notin acked
                   PROVE  \/ r \in expected /\ r.day \in Open
                          \/ r.day \in plists /\ (r \in expected \/ crashes > 0)
                          \/ \E e \in plists : e < r.day
      BY <2>0 DEF RunIsExpected
    <3>3. r \in Runs /\ r.day = Day(now)
      BY <1>14, <2>0, <3>2 DEF PinnedFires, PinnedSlot, Runs
    <3>4. CASE d < Day(now)
      BY <3>1, <3>3, <3>4
    <3>5. CASE d = Day(now)
      <4>1. ExpectedRuns(d) \subseteq expected \/ crashes > 0
        BY <3>1 DEF PinsAreKnown
      <4>2. r \in ExpectedRuns(d)
        BY <3>3, <3>5 DEF ExpectedRuns
      <4>3. QED
        BY <3>1, <3>3, <3>5, <4>1, <4>2
    <3>6. QED
      BY <2>0, <3>1, <3>4, <3>5
  <2>6. PinsAreKnown'
    BY <1>14, <2>0
    DEF PinsAreKnown, PinnedFires
  <2>7. QED
    BY <2>1, <2>2, <2>3, <2>4, <2>5, <2>6
<1>15. ASSUME UNCHANGED vars
      PROVE  DayInv'
  BY <1>15
  DEF vars, TypeOK, JobKnows, TickKnows, PinsAreKnown, MissesOnRecord, ObserverState, RunIsExpected
<1>16. QED
  BY <1>1, <1>2, <1>3, <1>4, <1>5, <1>6, <1>7, <1>8, <1>9, <1>10, <1>11, <1>12, <1>13, <1>14, <1>15
  DEF Next, Watchdog

\* The invariant of registration and scanning holds in every state.
THEOREM DayInvariant == Spec => []DayInv
<1>1. DayInv /\ [Next]_vars => DayInv'
  BY StepDayInv
<1>2. QED
  BY InitDayInv, <1>1, PTL DEF Spec

\* For any slots, days and crashes: a slot the observer shows as missed has
\* been filed by the scan (watchdog_tick.py main).
THEOREM MissesOnRecordHolds == Spec => []MissesOnRecord
<1>1. DayInv => MissesOnRecord
  BY DEF DayInv
<1>2. QED
  BY DayInvariant, <1>1, PTL

\* For any slots, days, prepared days and crashes: a run that was not expected,
\* or is on a closed day, is the worker of a plist the owner pinned to that day
\* or to an earlier one (self_arming_worker.py main, prepare).
THEOREM RunIsExpectedHolds == Spec => []RunIsExpected
<1>1. DayInv => RunIsExpected
  BY DEF DayInv
<1>2. QED
  BY DayInvariant, <1>1, PTL
=============================================================================
