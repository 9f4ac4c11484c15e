SPECIFICATION FairSpec
CONSTANTS
  loss = loss  t1 = t1  t2 = t2
  Key = {loss}
  Debounced = {}
  Sustain = 1
  Cooldown = 1
  Hour = 1
  Token = {t1}
  MaxQueue = 1
  Faults = {}
PROPERTY NoGhostIncident
PROPERTY EventuallyTold
