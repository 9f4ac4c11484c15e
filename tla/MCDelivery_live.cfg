SPECIFICATION FairSpec
CONSTANTS
  s1 = s1  s2 = s2  s3 = s3  c1 = c1  c2 = c2
  Sample = {s1, s2}
  Conn = {c1}
  MaxBatch = 2
  MaxTime = 1
  AgentSkew <- InStep
  SkewBound = 1
  DedupWindow = 1
  MaxStall = 0
  MaxBytes = 1
PROPERTY EventuallySettled
