SPECIFICATION SupervisionSpec
CONSTANTS
  Capacity = 3
  MaxSends = 6
  WatchdogLevel = {SCHEDULER, MEMORY}
  MaxComponents = 2
  Timeout = {9, 10, 10001}
  SelfInterval = 3
  HeartbeatMargin = 2
  WatchdogTimeout = 3
  Threshold = 2
  FailMod = 4
  MaxTime = 9
INVARIANT WatchdogTypeOK
INVARIANT OnePlace
INVARIANT PublishedInOrder
INVARIANT KeepsNewest
INVARIANT AlarmTraceable
INVARIANT MonitorTypeOK
INVARIANT UnreliableAfterFailures
INVARIANT ScoreMatchesVerdict
