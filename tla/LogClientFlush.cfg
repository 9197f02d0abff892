SPECIFICATION Spec
CONSTANTS
  Capacity = 3
  MaxSends = 7
PROPERTY EarlyLogsFlushed
