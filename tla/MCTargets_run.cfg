SPECIFICATION RaceSpec
CONSTANTS
  Target = {host}
  Host = {host}
  Addr = {1, 2}
  Interval = {0, 1}
  DefaultInterval = 0
  Threshold = {0}
  NoThreshold = 0
  Tab = {k1}
  Req = {r1, r2}
  Slot = {s1, s2, s3}
  None = None
  Ops = {"add", "remove", "interval"}
  Faults = {"client"}
SYMMETRY Symmetry
INVARIANT ProbedByOne
