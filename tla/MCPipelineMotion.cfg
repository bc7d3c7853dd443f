SPECIFICATION Spec
CONSTANTS
  d1 = d1
  d2 = d2
  s1 = s1
  s2 = s2
  desk = desk
  ticker = ticker
  go = go
  retry = retry
  halt = halt
  k1 = k1
  k2 = k2
  None = None
  Device <- OneDevice
  Session <- OnlyS1
  Operator <- MCOperator
  Ticker <- ticker
  Source <- Students
  Key <- MCKey
  Denials <- MCDenials
  Priority <- MCPriority
  From <- FromStudents
  MaxDepth = 2
  RequireDeadman = TRUE
  Unpermitted <- Nobody
  PhysicalSession <- OnlyS1
  PhysicalDevice <- OneDevice
  Moves <- BackToReady
  Command <- MotionCommand
  Target <- MotionTarget
  Sender <- MotionSender
  Kind <- MotionKind
  IdempotencyKey <- MotionKeys
  Prepared <- OnlyS1
  Held <- OneHeldByOnlyS1
  Uses <- MotionUses
PROPERTIES
  MotionNeedsRearm
