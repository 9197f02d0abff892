SPECIFICATION Spec
CONSTANTS
  LevelCount = 4
  TagCount = 9
  MessageCount = 18
  ChecksumMod = 65536
  ServiceLevelCount = 6
  Capacity = 2
  MaxFilters = 2
  CommandLine <- MCCommandLine
  TagFile <- MCTagFile
  FormatFile <- MCFormatFile
  Request <- MCInfoRequest
  DamagedByte = {}
  MaxEntries = 3
  MaxDamages = 0
INVARIANT RecentInfoKept
