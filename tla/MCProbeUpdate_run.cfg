SPECIFICATION LiveSpec
CONSTANTS
  Probe = {p1}
  Beat = {b1}
  MaxVersion = 1
  MaxDeliveries = 1
  ApplyTimeout = 0
  Deadline = 1
  Ops = {"cancel", "forget", "rollout"}
  Faults = {"reply", "status", "restart", "crash", "central"}
CHECK_DEADLOCK FALSE
PROPERTY TruthWins
PROPERTY RolloutGoesOn
