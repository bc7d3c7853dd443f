SPECIFICATION Spec
CONSTANTS
  robot = robot
  lesson = lesson
  rival = rival
  driver = driver
  watch = watch
  go = go
  again = again
  take = take
  park = park
  y1 = y1
  y2 = y2
  y3 = y3
  None = None
  Node = {robot}
  Connection = {first}
  Serves <- MCServes
  Session = {lesson, rival}
  Taught = {lesson, rival}
  Role = {driver}
  Capable <- MCCapable
  Required = {driver}
  Informational = {}
  Targeted = {driver}
  Dormant = FALSE
  Physical = {lesson, rival}
  Simulated = {}
  Reported <- MCReported
  Capability <- MCCapability
  Command = {go, take, park}
  Sender <- MCSender
  Target <- MCTarget
  Action <- MCAction
  Rank <- MCRank
  SafeState = {park}
  Actuating = {go, take, park}
  Key = {y1, y2, y3}
  KeyOf <- MCKeyOf
  Reports = {"SUCCEEDED"}
CHECK_DEADLOCK FALSE
INVARIANTS
  MovingLeaseIsArmed
PROPERTIES
  FabricImplementsArbiter
  StopAllIsLast
