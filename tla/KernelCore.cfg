SPECIFICATION KernelSpec
CONSTANTS
  PoolCount = 3
  BlockSize <- MCBlockSize
  BlockCount <- MCBlockCount
  Request <- MCRequest
  CountMod = 8
  MaxStrays = 1
  Period = 3
  MaxTicks = 4
  Irq = {i1, i2}
  Handler = {h1, h2}
  None = None
  Priority = {1, 8}
  PriorityLevels = 8
  LatencyLimit = 1
  StormLimit = 1
  CounterMod = 3
  MaxDepth = 2
SYMMETRY Symmetry
INVARIANT TypeOK
INVARIANT Exclusive
INVARIANT NoLeak
INVARIANT CountMatchesBitmap
INVARIANT SingleBlockExclusive
INVARIANT InterruptTypeOK
INVARIANT VerdictJustified
PROPERTY HandlerGetsItsContext
