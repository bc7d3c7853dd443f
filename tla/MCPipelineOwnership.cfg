SPECIFICATION Spec
CONSTANTS
  d1 = d1
  d2 = d2
  s1 = s1
  s2 = s2
  desk = desk
  ticker = ticker
  go = go
  retry = retry
  halt = halt
  k1 = k1
  k2 = k2
  None = None
  Device <- MCDevice
  Session <- MCSession
  Operator <- MCOperator
  Ticker <- ticker
  Source <- OwnershipSource
  Key <- MCKey
  Denials <- MCDenials
  Priority <- MCPriority
  From <- OwnershipFrom
  MaxDepth = 2
  RequireDeadman = FALSE
  Unpermitted <- Nobody
  PhysicalSession <- Nobody
  PhysicalDevice <- MCDevice
  Moves <- WholeLesson
  Command <- OwnershipCommand
  Target <- OwnershipTarget
  Sender <- OwnershipSender
  Kind <- OwnershipKind
  IdempotencyKey <- OwnershipKeys
  Prepared <- OnlyS1
  Held <- HeldByS1
  Uses <- OwnershipUses
PROPERTIES
  OnlyTheOwnerMoves
