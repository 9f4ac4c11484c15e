SPECIFICATION Spec
CONSTANTS
  loss = loss  t1 = t1  t2 = t2
  Key = {loss}
  Debounced = {loss}
  Sustain = 1
  Cooldown = 1
  Hour = 1
  Token = {t1, t2}
  MaxQueue = 1
  Faults = {"state", "enqueue", "summary", "delete", "provider", "crash"}
 
INVARIANT RaiseLoopBounded
PROPERTY RecoveryHasAlert
SYMMETRY Symmetry
