CONSTANTS
  MaxOrders = 4
  MaxDepth = 2
  Interval = 2
  Expiry = 4
  MaxFaults = 3
SPECIFICATION FairSpec
INVARIANTS
  ProcessedInOrder
  LossIsExplained
  ProbesStayFew
PROPERTY QueueDrains
CHECK_DEADLOCK FALSE
