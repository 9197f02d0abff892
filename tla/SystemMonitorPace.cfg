SPECIFICATION MonitorSpec
CONSTANTS
  SelfInterval = 3
  HeartbeatMargin = 2
  WatchdogTimeout = 3
  Threshold = 2
  FailMod = 4
  MaxTime = 9
PROPERTY SelfCheckKeepsPace
