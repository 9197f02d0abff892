SPECIFICATION Spec
CONSTANTS
  MaxProcesses = 3
  Priority = {0, 1, 2}
  PriorityCount = 2
  RtParams <- MCRtParams
  UintMod = 65536
  Precision = 1000
  RmsLimit <- MCRmsLimit
INVARIANT TypeOK
INVARIANT AdmittedLoad
PROPERTY TopReadyRuns
