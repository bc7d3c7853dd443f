SPECIFICATION Spec
CONSTANTS
  d1 = d1
  d2 = d2
  s1 = s1
  s2 = s2
  desk = desk
  ticker = ticker
  go = go
  retry = retry
  halt = halt
  k1 = k1
  k2 = k2
  None = None
  Device <- MCDevice
  Session <- MCSession
  Operator <- MCOperator
  Ticker <- ticker
  Source <- Students
  Key <- MCKey
  Denials <- MCDenials
  Priority <- MCPriority
  From <- FromStudents
  MaxDepth = 2
  RequireDeadman = FALSE
  Unpermitted <- Nobody
  PhysicalSession <- MCSession
  PhysicalDevice <- MCDevice
  Moves <- Nobody
  Command <- MotionCommand
  Target <- MotionTarget
  Sender <- MotionSender
  Kind <- MotionKind
  IdempotencyKey <- MotionKeys
  Prepared <- MCSession
  Held <- HeldByS1
  Uses <- StopAllUses
PROPERTIES
  StopAllStopsAll
