SPECIFICATION Spec
CONSTANTS
  Period = 3
  MaxTicks = 4
  StackDepth = 2
  SharedBufferSize = 65536
  LargestBlock = 4096
PROPERTY BootCompletes
CHECK_DEADLOCK FALSE
