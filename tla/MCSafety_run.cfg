SPECIFICATION Spec
CONSTANTS
  Probe = {p1, p2}
  OnlyProbe = p1
  Beat = {b1}
  MaxVersion = 1
  MaxDeliveries = 1
  ApplyTimeout = 0
  Deadline = 1
  Build = {c1, c2}
  Bad = {c2}
  Released = {c1}
  First = First
  Nothing = Nothing
  Half = Half
  Applier = {a1, a2}
  Faults = {"setcap", "crash"}
  Newest = 3
  HealthFloor = 2
  BaselineDays = 3
  MinSamples = 2
  MaxTests = 5
CHECK_DEADLOCK FALSE
INVARIANTS   SchemaIsTrue DismissesOneIncident FlagNeedsMajority
