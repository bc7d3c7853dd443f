SPECIFICATION Spec
CONSTANTS
  robot = robot
  lesson = lesson
  rival = rival
  driver = driver
  watch = watch
  go = go
  again = again
  take = take
  park = park
  y1 = y1
  y2 = y2
  y3 = y3
  None = None
  Node = {robot}
  Connection = {first, second}
  Serves <- MCServes
  Session = {lesson}
  Taught = {lesson}
  Role = {driver}
  Capable <- MCCapable
  Required = {driver}
  Informational = {}
  Targeted = {driver}
  Dormant = FALSE
  Physical = {lesson}
  Simulated = {}
  Reported <- MCReported
  Capability <- MCCapability
  Command = {go}
  Sender <- MCSender
  Target <- MCTarget
  Action <- MCAction
  Rank <- MCRank
  SafeState = {}
  Actuating = {go}
  Key = {y1, y2, y3}
  KeyOf <- MCKeyOf
  Reports = {"ACCEPTED", "SUCCEEDED"}
CHECK_DEADLOCK FALSE
PROPERTIES
  LosingAConnectionDisarms
