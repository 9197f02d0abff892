SPECIFICATION Spec
CONSTANTS
  Subscriber = {s1}
  Request <- MCRequest
  Literal <- MCLiteral
  LongTopic <- MCLongTopic
  OverlongTopic <- MCOverlongTopic
  Refusal <- MCRefusal
  BatchSize <- MCBatchSize
  MaxMessageSize = 3
  MaxAdded = 3
  MaxPublished = 2
  PriorityCount = 3
  DefaultConfig <- MCDefaultConfig
  CustomConfig <- MCCustomConfig
  QueueDepth <- MCQueueDepth
  MinTimeout = 2
  TimeoutStep = 3
  TimeoutMod = 16
  PercentMod = 256
INVARIANT TypeOK
INVARIANT TimeoutDrift
INVARIANT NeverZero
INVARIANT KnownAreValid
INVARIANT BuiltAreRegistered
INVARIANT BatchHoldsFirst
INVARIANT ResendsExtend
