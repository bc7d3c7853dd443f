SPECIFICATION FairSpec
CONSTANTS
  d1 = d1
  d2 = d2
  s1 = s1
  s2 = s2
  desk = desk
  ticker = ticker
  go = go
  retry = retry
  halt = halt
  k1 = k1
  k2 = k2
  None = None
  Device <- MCDevice
  Session <- OnlyS1
  Operator <- MCOperator
  Ticker <- ticker
  Source <- Students
  Key <- MCKey
  Denials <- MCDenials
  Priority <- MCPriority
  From <- FromStudents
  MaxDepth = 1
  RequireDeadman = FALSE
  Unpermitted <- Nobody
  PhysicalSession <- OnlyS1
  PhysicalDevice <- MCDevice
  Moves <- Nobody
  Command <- GroupCommand
  Target <- GroupTarget
  Sender <- GroupSender
  Kind <- GroupKind
  IdempotencyKey <- GroupKeys
  Prepared <- OnlyS1
  Held <- BothHeldByOnlyS1
  Uses <- GroupUses
PROPERTIES
  LaneSpec
  EveryRequestAnswered
