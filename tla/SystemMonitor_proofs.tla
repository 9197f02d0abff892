------------------------ MODULE SystemMonitor_proofs ------------------------
(***************************************************************************)
(* Proofs about SystemMonitor for any intervals, margins, thresholds and   *)
(* widths of the fail counters that satisfy the assumptions, and for       *)
(* builds that read an overwritten flag either way.                        *)
(***************************************************************************)
EXTENDS SystemMonitor, TLAPS

(* A fail counter stays in its type, and the flag that is derived from it  *)
(* says whether it is below the threshold.                                 *)
LEMMA CountedType ==
  ASSUME NEW check \in Checks, NEW failed \in BOOLEAN, NEW now \in Time
  PROVE  /\ Counted(check, failed, now) \in Checks
         /\ Counted(check, failed, now).healthy
              <=> Counted(check, failed, now).fails < Threshold
         /\ Counted(check, failed, now).last = now
         /\ Counted(check, failed, now).fails
              = IF failed THEN (check.fails + 1) % FailMod ELSE 0
<1> DEFINE n == IF failed THEN (check.fails + 1) % FailMod ELSE 0
<1>1. FailMod \in Nat /\ FailMod > 0 /\ Threshold \in Nat
  BY CountersAssumption
<1>2. check.fails \in Nat
  BY <1>1 DEF Checks
<1>3. \A k \in Nat : k % FailMod \in 0 .. FailMod - 1
  BY <1>1
<1>4. n \in 0 .. FailMod - 1
  BY <1>1, <1>2, <1>3
<1>5. Counted(check, failed, now) = [fails |-> n, healthy |-> n < Threshold, last |-> now]
  BY DEF Counted
<1> HIDE DEF n
<1>6. (n < Threshold) \in BOOLEAN
  OBVIOUS
<1>7. Counted(check, failed, now) \in Checks
  BY <1>4, <1>5, <1>6 DEF Checks
<1>8. /\ Counted(check, failed, now).healthy = (n < Threshold)
      /\ Counted(check, failed, now).last = now
      /\ Counted(check, failed, now).fails = n
  BY <1>5
<1> QED
  BY <1>7, <1>8, Zenon DEF n

(* The time that the service reads is a moment of the clock.               *)
LEMMA SystemTimeType == clock \in Time => SystemTime \in Time /\ SystemTime <= clock
BY TimesAssumption DEF SystemTime, Time

(* What an update does to the two checks.                                  *)
LEMMA UpdateChecks ==
  ASSUME MonitorTypeOK, UpdateHealth
  PROVE  /\ cross' \in Checks /\ self' \in Checks
         /\ primary_mode' \in BOOLEAN
         /\ \/ UNCHANGED <<self, self_row, self_clock, monitor_initialized, running>>
            \/ /\ Overdue(SystemTime, self.last, SelfInterval)
               /\ \E passed \in BOOLEAN :
                    /\ self' = Counted(self, ~passed, SystemTime)
                    /\ self_row' = IF passed THEN 0 ELSE self_row + 1
               /\ self_clock' = clock
               /\ monitor_initialized' = "mixed" /\ running' = "mixed"
<1>1. PICK passed \in BOOLEAN :
        /\ CrossMonitoring(SystemTime)
        /\ SelfHealthCheck(SystemTime, passed)
  BY DEF UpdateHealth
<1>2. SystemTime \in Time
  BY SystemTimeType DEF MonitorTypeOK
<1>3. cross' \in Checks /\ primary_mode' \in BOOLEAN
  <2>1. CASE Overdue(SystemTime, cross.last, CrossInterval)
    <3>1. (health.primary # health.secondary) \in BOOLEAN
      OBVIOUS
    <3>2. cross' = Counted(cross, health.primary # health.secondary, SystemTime)
      BY <1>1, <2>1 DEF CrossMonitoring
    <3>3. cross' \in Checks
      BY <1>2, <3>1, <3>2, CountedType DEF MonitorTypeOK
    <3>4. primary_mode' \in BOOLEAN
      BY <1>1, <2>1, Zenon DEF CrossMonitoring
    <3> QED
      BY <3>3, <3>4
  <2>2. CASE ~Overdue(SystemTime, cross.last, CrossInterval)
    BY <1>1, <2>2 DEF CrossMonitoring, MonitorTypeOK
  <2> QED
    BY <2>1, <2>2
<1>4. CASE Overdue(SystemTime, self.last, SelfInterval)
  <2>1. /\ self' = Counted(self, ~passed, SystemTime)
        /\ self_row' = IF passed THEN 0 ELSE self_row + 1
        /\ self_clock' = clock
        /\ monitor_initialized' = "mixed" /\ running' = "mixed"
    BY <1>1, <1>4 DEF SelfHealthCheck
  <2>2. (~passed) \in BOOLEAN
    OBVIOUS
  <2>3. self' \in Checks
    BY <1>2, <2>1, <2>2, CountedType DEF MonitorTypeOK
  <2> QED
    BY <1>3, <1>4, <2>1, <2>3
<1>5. CASE ~Overdue(SystemTime, self.last, SelfInterval)
  BY <1>1, <1>3, <1>5 DEF SelfHealthCheck, MonitorTypeOK
<1> QED
  BY <1>4, <1>5

(* An update computes the score from the flags it sets, and the score is   *)
(* at least 70 exactly when the monitor is reliable.                       *)
LEMMA UpdateScore ==
  ASSUME MonitorTypeOK, UpdateHealth
  PROVE  /\ health' \in [primary : BOOLEAN, secondary : BOOLEAN, score : {0, 30, 70, 100}]
         /\ health'.score >= 70 <=> Reliable'
<1>1. PICK passed \in BOOLEAN :
        health' = [primary |-> Within(SystemTime, 0, HeartbeatMargin),
                   secondary |-> passed \/ ~Overdue(SystemTime, self.last, SelfInterval),
                   score |-> Score(Within(SystemTime, 0, HeartbeatMargin),
                                   passed \/ ~Overdue(SystemTime, self.last, SelfInterval))]
  BY DEF UpdateHealth
<1> DEFINE p == Within(SystemTime, 0, HeartbeatMargin)
           q == passed \/ ~Overdue(SystemTime, self.last, SelfInterval)
<1>2. p \in BOOLEAN /\ q \in BOOLEAN
  BY DEF Within
<1>3. cross'.healthy \in BOOLEAN /\ self'.healthy \in BOOLEAN
  BY UpdateChecks DEF Checks
<1>4. health' = [primary |-> p, secondary |-> q, score |-> Score(p, q)]
  BY <1>1
<1> HIDE DEF p, q
<1>5. CASE ~self'.healthy
  <2>1. Score(p, q) = 0
    BY <1>5 DEF Score
  <2>2. ~Reliable'
    BY <1>5 DEF Reliable
  <2> QED
    BY <1>2, <1>4, <2>1, <2>2
<1>6. CASE self'.healthy /\ ~(p \/ q)
  <2>1. Score(p, q) = 30
    BY <1>6 DEF Score
  <2>2. ~Reliable'
    BY <1>4, <1>6 DEF Reliable
  <2> QED
    BY <1>2, <1>4, <2>1, <2>2
<1>7. CASE self'.healthy /\ (p \/ q)
  <2>1. Score(p, q) \in {70, 100}
    BY <1>3, <1>7 DEF Score
  <2>2. Reliable'
    BY <1>4, <1>7 DEF Reliable
  <2> QED
    BY <1>2, <1>4, <2>1, <2>2
<1> QED
  BY <1>5, <1>6, <1>7
-----------------------------------------------------------------------------
Health == [primary : BOOLEAN, secondary : BOOLEAN, score : {0, 30, 70, 100}]
Pets == [armed : BOOLEAN, last_pet : Time]

(* Every action keeps the types.                                           *)
LEMMA TypeStep == MonitorTypeOK /\ [MonitorNext]_monitorVars => MonitorTypeOK'
<1> SUFFICES ASSUME MonitorTypeOK, [MonitorNext]_monitorVars PROVE MonitorTypeOK'
  OBVIOUS
<1>1. /\ mixed_is_set \in BOOLEAN
      /\ monitor_initialized \in Flag /\ running \in Flag /\ health \in Health
      /\ cross \in Checks /\ self \in Checks /\ watchdog \in Pets
      /\ primary_mode \in BOOLEAN /\ hw \in HwType /\ clock \in Time
      /\ updated \in BOOLEAN /\ self_clock \in Time /\ self_row \in Nat
  BY DEF MonitorTypeOK, Health, Pets
<1>2. SystemTime \in Time
  BY <1>1, SystemTimeType
<1>3. Never \in Checks /\ NotArmed \in Pets
  BY TimesAssumption, CountersAssumption DEF Never, NotArmed, Checks, Pets, Time
<1>4. CASE ServiceInit
  BY <1>1, <1>3, <1>4 DEF ServiceInit, MonitorTypeOK, Flag, Health, Pets
<1>5. CASE ServiceStart
  BY <1>1, <1>5 DEF ServiceStart, MonitorTypeOK, Flag, Health, Pets, history
<1>6. CASE UpdateHealth
  <2>1. cross' \in Checks /\ self' \in Checks /\ primary_mode' \in BOOLEAN
    BY <1>6, UpdateChecks
  <2>2. health' \in Health
    BY <1>6, UpdateScore DEF Health
  <2>3. /\ monitor_initialized' \in Flag /\ running' \in Flag
        /\ self_clock' \in Time /\ self_row' \in Nat
    BY <1>1, <1>6, UpdateChecks DEF Flag
  <2>4. /\ updated' \in BOOLEAN /\ watchdog' = watchdog /\ hw' = hw
        /\ clock' = clock /\ mixed_is_set' = mixed_is_set
    BY <1>6 DEF UpdateHealth
  <2> QED
    BY <1>1, <2>1, <2>2, <2>3, <2>4, Zenon DEF MonitorTypeOK, Health, Pets
<1>7. CASE ArmWatchdogs
  <2>1. HwStatic \in HwType /\ [initialized |-> TRUE, state |-> "disabled"] \in HwType
    BY DEF HwStatic, HwType
  <2>2. hw' \in HwType
    BY <1>1, <1>7, <2>1 DEF ArmWatchdogs, HwInit, HwInitFails
  <2>3. watchdog' \in Pets
    <3>1. [armed |-> TRUE, last_pet |-> SystemTime] \in Pets
      BY <1>2 DEF Pets
    <3> QED
      BY <1>1, <1>7, <3>1 DEF ArmWatchdogs
  <2> QED
    BY <1>1, <1>7, <2>2, <2>3 DEF ArmWatchdogs, MonitorTypeOK, Health, Pets, flags,
      history
<1>8. CASE PetWatchdogs
  <2>1. watchdog' \in Pets
    BY <1>1, <1>2, <1>8 DEF PetWatchdogs, Pets
  <2> QED
    BY <1>1, <1>8, <2>1 DEF PetWatchdogs, MonitorTypeOK, Health, Pets, flags,
      history
<1>9. CASE WatchdogInterrupt
  <2>1. hw' \in HwType
    BY <1>1, <1>9 DEF WatchdogInterrupt, HwTimeout, HwType
  <2> QED
    BY <1>1, <1>9, <2>1 DEF WatchdogInterrupt, MonitorTypeOK, Health, Pets, state, flags, history
<1>10. CASE Tick
  <2>1. clock' \in Time
    BY <1>1, <1>10, TimesAssumption DEF Tick, Time
  <2> QED
    BY <1>1, <1>10, <2>1 DEF Tick, MonitorTypeOK, Health, Pets, state, flags, history
<1>11. CASE UNCHANGED monitorVars
  BY <1>1, <1>11 DEF monitorVars, MonitorTypeOK, Health, Pets, state, flags, history
<1> QED
  BY <1>4, <1>5, <1>6, <1>7, <1>8, <1>9, <1>10, <1>11 DEF MonitorNext

(* The service and the driver under it keep their types: the fail counters *)
(* wrap inside their width, and no time is read from the future.           *)
THEOREM MonitorTypeCorrect == MonitorSpec => []MonitorTypeOK
<1>1. MonitorInit => MonitorTypeOK
  <2>1. /\ Never \in Checks /\ NotArmed \in Pets /\ HwStatic \in HwType /\ 0 \in Time
        /\ [primary |-> FALSE, secondary |-> FALSE, score |-> 0] \in Health
    BY TimesAssumption, CountersAssumption
    DEF Never, NotArmed, HwStatic, Checks, Pets, HwType, Time, Health
  <2> SUFFICES ASSUME MonitorInit PROVE MonitorTypeOK
    OBVIOUS
  <2>2. "no" \in Flag /\ FALSE \in BOOLEAN /\ 0 \in Nat
    BY DEF Flag
  <2> QED
    BY <2>1, <2>2, Zenon DEF MonitorInit, MonitorTypeOK, Health, Pets
<1> QED
  BY <1>1, TypeStep, PTL DEF MonitorSpec

(* The only steps that change what the verdict depends on.                 *)
LEMMA VerdictSteps ==
  ASSUME MonitorTypeOK, [MonitorNext]_monitorVars
  PROVE  \/ UpdateHealth \/ ServiceInit
         \/ UNCHANGED <<health, self, updated, self_row, self_clock>>
BY DEF MonitorNext, monitorVars, ServiceStart, ArmWatchdogs, PetWatchdogs,
       WatchdogInterrupt, Tick, state, flags, history

(* After an update the score is at least 70, degraded but safe, exactly    *)
(* when the monitor is called reliable, whatever happens until the next    *)
(* update (system_monitor.c:176-189, 212-216).                             *)
THEOREM ScoreAgreesWithVerdict == MonitorSpec => []ScoreMatchesVerdict
<1>1. MonitorInit => ScoreMatchesVerdict
  BY DEF MonitorInit, ScoreMatchesVerdict
<1>2. MonitorTypeOK /\ ScoreMatchesVerdict /\ [MonitorNext]_monitorVars => ScoreMatchesVerdict'
  <2> SUFFICES ASSUME MonitorTypeOK, ScoreMatchesVerdict, [MonitorNext]_monitorVars
               PROVE  ScoreMatchesVerdict'
    OBVIOUS
  <2>1. CASE UpdateHealth
    BY <2>1, UpdateScore DEF ScoreMatchesVerdict
  <2>2. CASE ServiceInit
    BY <2>2 DEF ServiceInit, ScoreMatchesVerdict
  <2>3. CASE UNCHANGED <<health, self, updated, self_row, self_clock>>
    BY <2>3 DEF ScoreMatchesVerdict, Reliable
  <2> QED
    BY <2>1, <2>2, <2>3, VerdictSteps
<1> QED
  BY <1>1, <1>2, MonitorTypeCorrect, PTL DEF MonitorSpec

\* Until the counter wraps it is the number of failures in a row, and a
\* monitor that is called healthy has failed less often than the threshold.
RowInv ==
  /\ self_row < FailMod => self.fails = self_row
  /\ self.healthy => self.fails < Threshold

(* Each self-health check counts.                                          *)
LEMMA RowStep == MonitorTypeOK /\ RowInv /\ [MonitorNext]_monitorVars => RowInv'
<1> SUFFICES ASSUME MonitorTypeOK, RowInv, [MonitorNext]_monitorVars PROVE RowInv'
  OBVIOUS
<1>1. FailMod \in Nat /\ FailMod > 0 /\ Threshold \in Nat /\ self_row \in Nat
  BY CountersAssumption DEF MonitorTypeOK
<1>2. CASE UpdateHealth
  <2>1. CASE UNCHANGED <<self, self_row, self_clock, monitor_initialized, running>>
    BY <2>1 DEF RowInv
  <2>2. ASSUME NEW passed \in BOOLEAN, self' = Counted(self, ~passed, SystemTime),
               self_row' = IF passed THEN 0 ELSE self_row + 1
        PROVE  RowInv'
    <3>1. (~passed) \in BOOLEAN /\ SystemTime \in Time /\ self \in Checks
      BY SystemTimeType DEF MonitorTypeOK
    <3>2. /\ self'.healthy <=> self'.fails < Threshold
          /\ self'.fails = IF ~passed THEN (self.fails + 1) % FailMod ELSE 0
      BY <2>2, <3>1, CountedType
    <3>3. self_row' < FailMod => self'.fails = self_row'
      <4>1. CASE passed
        BY <2>2, <3>2, <4>1
      <4>2. CASE ~passed
        <5> SUFFICES ASSUME self_row + 1 < FailMod PROVE self'.fails = self_row + 1
          BY <2>2, <4>2
        <5>1. self.fails = self_row
          BY <1>1 DEF RowInv
        <5>2. (self_row + 1) % FailMod = self_row + 1
          BY <1>1
        <5> QED
          BY <3>2, <4>2, <5>1, <5>2
      <4> QED
        BY <4>1, <4>2
    <3> QED
      BY <3>2, <3>3 DEF RowInv
  <2> QED
    BY <1>2, <2>1, <2>2, UpdateChecks
<1>3. CASE ServiceInit
  BY <1>1, <1>3 DEF ServiceInit, RowInv, Never
<1>4. CASE UNCHANGED <<health, self, updated, self_row, self_clock>>
  BY <1>4 DEF RowInv
<1> QED
  BY <1>2, <1>3, <1>4, VerdictSteps

(* A monitor that failed Threshold self-health checks in a row, and not so *)
(* many that its counter wrapped around, is never called reliable, however *)
(* many updates come in between (system_monitor.c:131-147, 212).           *)
THEOREM FailuresMakeUnreliable == MonitorSpec => []UnreliableAfterFailures
<1>1. MonitorInit => RowInv
  BY DEF MonitorInit, RowInv, Never
<1>2. MonitorTypeOK /\ RowInv => UnreliableAfterFailures
  BY CountersAssumption DEF MonitorTypeOK, RowInv, UnreliableAfterFailures, Reliable
<1> QED
  BY <1>1, <1>2, RowStep, MonitorTypeCorrect, PTL DEF MonitorSpec
=============================================================================
