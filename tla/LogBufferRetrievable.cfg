SPECIFICATION Spec
CONSTANTS
  e1 = e1
  e2 = e2
  e3 = e3
  Blank = Blank
  Entry <- MCEntry
  Capacity = 4
  ChecksumMod = 30
  SlotSum <- MCSlotSum
INVARIANT StillRetrievable
