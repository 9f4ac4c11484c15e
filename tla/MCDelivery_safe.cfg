SPECIFICATION Spec
CONSTANTS
  s1 = s1  s2 = s2  s3 = s3  c1 = c1  c2 = c2
  Sample = {s1, s2}
  Conn = {c1, c2}
  MaxBatch = 2
  MaxTime = 3
  AgentSkew <- Ahead
  SkewBound = 1
  DedupWindow = 2
  MaxStall = 0
  MaxBytes = 2
SYMMETRY Symmetry
INVARIANTS  NoSampleVanishes RefusedOnlyWhenOld
  
