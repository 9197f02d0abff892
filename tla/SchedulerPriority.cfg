SPECIFICATION Spec
CONSTANTS
  MaxProcesses = 3
  Priority = {0, 1}
  PriorityCount = 2
  RtParams <- MCRtParams
  UintMod = 65536
  Precision = 1000
  RmsLimit <- MCRmsLimit
PROPERTY HighestPriorityRuns
