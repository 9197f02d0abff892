--------------------------- MODULE SystemMonitor ---------------------------
(***************************************************************************)
(* The self-checking monitor of services/system_monitor/system_monitor.c:  *)
(* its initialization, system_monitor_update_health_redundant with the     *)
(* cross-monitoring and the self-health check inside it, and the redundant *)
(* watchdogs on top of the driver of HwWatchdog.                           *)
(*                                                                         *)
(* Time is counted in cross-monitoring intervals.  The memory test of the  *)
(* self-health check writes 0xDEADBEEF over the first four bytes of the    *)
(* service's state, the flags initialized and running: they become neither *)
(* 0 nor 1 ("mixed"), and it depends on the build how a test reads them;  *)
(* mixed_is_set is the build at hand.                                      *)
(*                                                                         *)
(* Only the primary watchdog is modelled: the times and the counters of    *)
(* the other one are written and never used.                               *)
(*                                                                         *)
(* updated, self_clock and self_row are history variables: the health was  *)
(* updated since the initialization, the moment of the latest self-health  *)
(* check, and the failed ones in a row.                                    *)
(***************************************************************************)
EXTENDS Integers

CONSTANTS
  SelfInterval,      \* SELF_HEALTH_CHECK_INTERVAL_MS
  HeartbeatMargin,   \* SYSTEM_MONITOR_HEARTBEAT_INTERVAL_MS, twice
  WatchdogTimeout,   \* SYSTEM_MONITOR_WATCHDOG_TIMEOUT_MS
  Threshold,         \* MONITOR_DEGRADATION_THRESHOLD
  FailMod,           \* number of values of the uint8_t fail counters
  MaxTime            \* bound on the clock

CrossInterval == 1     \* CROSS_MONITOR_INTERVAL_MS

ASSUME TimesAssumption ==
  /\ SelfInterval \in Nat \ {0} /\ HeartbeatMargin \in Nat
  /\ WatchdogTimeout \in Nat \ {0} /\ MaxTime \in Nat
ASSUME CountersAssumption ==
  /\ Threshold \in Nat \ {0} /\ FailMod \in Nat /\ Threshold < FailMod

Flag == {"no", "yes", "mixed"}
Time == 0 .. MaxTime

VARIABLES
  mixed_is_set,   \* how a test reads a flag that is neither 0 nor 1
  monitor_initialized, running,   \* initialized, running
  health,         \* health: the two monitors' flags and the overall score
  cross,          \* cross_monitor_fail_count, _healthy, last time
  self,           \* self_health_fail_count, _healthy, last time
  watchdog,       \* watchdogs[0]: armed and last_pet_time
  primary_mode,
  hw,             \* the hardware watchdog
  clock,
  updated, self_clock, self_row

INSTANCE HwWatchdog

flags == <<mixed_is_set, monitor_initialized, running>>
state == <<flags, health, cross, self, watchdog, primary_mode>>
history == <<updated, self_clock, self_row>>
monitorVars == <<state, hw, clock, history>>

Checks == [fails : 0 .. FailMod - 1, healthy : BOOLEAN, last : Time]

\* One type invariant.
MonitorTypeOK ==
  /\ mixed_is_set \in BOOLEAN
  /\ monitor_initialized \in Flag /\ running \in Flag
  /\ health \in [primary : BOOLEAN, secondary : BOOLEAN, score : {0, 30, 70, 100}]
  /\ cross \in Checks /\ self \in Checks
  /\ watchdog \in [armed : BOOLEAN, last_pet : Time]
  /\ primary_mode \in BOOLEAN
  /\ hw \in HwType
  /\ clock \in Time
  /\ updated \in BOOLEAN /\ self_clock \in Time
  /\ self_row \in Nat
-----------------------------------------------------------------------------
\* A test of a flag.
IsSet(flag) == flag = "yes" \/ (flag = "mixed" /\ mixed_is_set)

\* system_monitor_get_system_time_us
SystemTime == IF IsSet(monitor_initialized) THEN clock ELSE 0

\* The unsigned difference of two times: huge when the later one is smaller.
Overdue(now, last, interval) == now < last \/ now - last >= interval
Within(now, last, margin) == now >= last /\ now - last <= margin

\* A faulty counting in a wider type than the field.
CountedWide(check, failed, now) ==
  LET n == IF failed THEN check.fails + 1 ELSE 0
  IN  [fails |-> n, healthy |-> n < Threshold, last |-> now]

\* A faulty counting that forgives one more failure.
CountedLate(check, failed, now) ==
  LET n == IF failed THEN (check.fails + 1) % FailMod ELSE 0
  IN  [fails |-> n, healthy |-> n <= Threshold, last |-> now]

\* A fail counter and the health flag derived from it.
Counted(check, failed, now) ==
  LET n == IF failed THEN (check.fails + 1) % FailMod ELSE 0
  IN  [fails |-> n, healthy |-> n < Threshold, last |-> now]
-----------------------------------------------------------------------------
Never == [fails |-> 0, healthy |-> FALSE, last |-> 0]
NotArmed == [armed |-> FALSE, last_pet |-> 0]

MonitorInit ==
  /\ mixed_is_set \in BOOLEAN
  /\ monitor_initialized = "no" /\ running = "no"
  /\ health = [primary |-> FALSE, secondary |-> FALSE, score |-> 0]
  /\ cross = Never /\ self = Never
  /\ watchdog = NotArmed
  /\ primary_mode = FALSE
  /\ hw = HwStatic
  /\ clock = 0
  /\ updated = FALSE /\ self_clock = 0 /\ self_row = 0

\* system_monitor_service_init; opening the two ports may fail.
ServiceInit ==
  /\ ~IsSet(monitor_initialized)
  /\ running' = "no"
  /\ health' = [primary |-> TRUE, secondary |-> TRUE, score |-> 100]
  /\ cross' = Never /\ self' = Never
  /\ watchdog' = NotArmed
  /\ \/ primary_mode' = TRUE /\ monitor_initialized' = "yes"
     \/ primary_mode' = FALSE /\ monitor_initialized' = "no"
  /\ updated' = FALSE /\ self_clock' = clock /\ self_row' = 0
  /\ UNCHANGED <<mixed_is_set, hw, clock>>

\* system_monitor_service_start, which kernel_init calls and the repository
\* does not define.
ServiceStart ==
  /\ IsSet(monitor_initialized)
  /\ running' = "yes"
  /\ UNCHANGED <<mixed_is_set, monitor_initialized, health, cross, self,
                 watchdog, primary_mode, hw, clock, history>>

\* perform_cross_monitoring: it compares the flags of the previous update and
\* asks system_monitor_watchdog_check_consistency, which always succeeds.
CrossMonitoring(now) ==
  IF Overdue(now, cross.last, CrossInterval)
  THEN LET failed == health.primary # health.secondary
       IN  /\ cross' = Counted(cross, failed, now)
           /\ primary_mode' =
                (primary_mode /\ ~(/\ ~Within(now, watchdog.last_pet,
                                              WatchdogTimeout)
                                   /\ health.secondary))
  ELSE UNCHANGED <<cross, primary_mode>>

\* perform_self_health_check; the timer test may fail, and it does fail when
\* the time reads 0 twice.
SelfHealthCheck(now, passed) ==
  IF Overdue(now, self.last, SelfInterval)
  THEN /\ self' = Counted(self, ~passed, now)
       /\ self_row' = IF passed THEN 0 ELSE self_row + 1
       /\ self_clock' = clock
       /\ monitor_initialized' = "mixed" /\ running' = "mixed"
  ELSE UNCHANGED <<self, self_row, self_clock, monitor_initialized, running>>

\* A faulty score that grants 70 without the self-health check.
ScoreUnchecked(primary, secondary) ==
  CASE primary /\ secondary /\ cross'.healthy /\ self'.healthy -> 100
    [] ~(primary /\ secondary /\ cross'.healthy /\ self'.healthy) ->
         IF primary \/ secondary THEN 70 ELSE 30

\* The overall score from the flags just computed.
Score(primary, secondary) ==
  CASE primary /\ secondary /\ cross'.healthy /\ self'.healthy -> 100
    [] ~(primary /\ secondary /\ cross'.healthy) /\ self'.healthy ->
         IF primary \/ secondary THEN 70 ELSE 30
    [] ~self'.healthy -> 0

\* system_monitor_update_health_redundant; the heartbeat time stays 0, and a
\* self-health check that is not due counts as passed.
UpdateHealth ==
  /\ \E passed \in BOOLEAN :
       LET now == SystemTime
           primary == Within(now, 0, HeartbeatMargin)
           secondary == passed \/ ~Overdue(now, self.last, SelfInterval)
       IN  /\ passed => IsSet(monitor_initialized)
           /\ CrossMonitoring(now)
           /\ SelfHealthCheck(now, passed)
           /\ health' = [primary |-> primary, secondary |-> secondary,
                         score |-> Score(primary, secondary)]
  /\ updated' = TRUE
  /\ UNCHANGED <<mixed_is_set, watchdog, hw, clock>>

\* system_monitor_watchdog_arm_redundant
ArmWatchdogs ==
  /\ IsSet(monitor_initialized)
  /\ \/ HwInit /\ watchdog' = [armed |-> TRUE, last_pet |-> SystemTime]
     \/ HwInitFails /\ UNCHANGED watchdog
  /\ UNCHANGED <<flags, health, cross, self, primary_mode, clock, history>>

\* system_monitor_watchdog_pet_redundant
PetWatchdogs ==
  /\ IsSet(running)
  /\ watchdog' = IF HwPetted THEN [watchdog EXCEPT !.last_pet = SystemTime]
                             ELSE watchdog
  /\ UNCHANGED <<flags, health, cross, self, primary_mode, hw, clock, history>>

\* The hardware watchdog interrupts; the callback only enters the safe state.
WatchdogInterrupt ==
  /\ HwTimeout
  /\ UNCHANGED <<state, clock, history>>

Tick ==
  /\ clock < MaxTime
  /\ clock' = clock + 1
  /\ UNCHANGED <<state, hw, history>>

MonitorNext ==
  \/ ServiceInit \/ ServiceStart
  \/ UpdateHealth
  \/ ArmWatchdogs \/ PetWatchdogs \/ WatchdogInterrupt
  \/ Tick

MonitorSpec == MonitorInit /\ [][MonitorNext]_monitorVars
-----------------------------------------------------------------------------
\* system_monitor_is_reliable_for_safety
Reliable == self.healthy /\ (health.primary \/ health.secondary)

(* As long as the fail counter has not wrapped around, a monitor that      *)
(* failed Threshold self-health checks in a row is not called reliable,    *)
(* however many updates come in between (system_monitor.c:131-147, 212).   *)
UnreliableAfterFailures ==
  self_row \in Threshold .. FailMod - 1 => ~Reliable

(* The score and the verdict agree: after an update the score is at least  *)
(* 70, degraded but safe, exactly when the monitor is called reliable      *)
(* (system_monitor.c:176-189 and 212-216).                                 *)
ScoreMatchesVerdict == updated => (health.score >= 70 <=> Reliable)

(* system_monitor.c:22 "Self-check every 1 second": once the service is    *)
(* initialized, an update that comes SelfInterval after the latest         *)
(* self-health check, or later, performs another one, whatever the memory  *)
(* test of the previous one did to the flags (lines 117-122).              *)
SelfCheckKeepsPace ==
  [][UpdateHealth /\ monitor_initialized # "no" =>
       (clock - self_clock >= SelfInterval => self_clock' = clock)]_monitorVars
=============================================================================
