SPECIFICATION Spec
CONSTANTS
  LevelCount = 4
  TagCount = 9
  MessageCount = 18
  ChecksumMod = 65536
  ServiceLevelCount = 6
  Capacity = 2
  MaxFilters = 2
  CommandLine <- MCCommandLine
  TagFile <- MCTagFile
  FormatFile <- MCFormatFile
  Request <- MCRequest
  DamagedByte = {7}
  MaxEntries = 3
  MaxDamages = 1
INVARIANT TypeOK
INVARIANT OneByteDetected
INVARIANT KeptWithoutGaps
INVARIANT CreatedAccepted
INVARIANT SameVerdict
INVARIANT OutputRespectsFilters
