SPECIFICATION FairSpec
CONSTANTS
  FlushSize = 2
  BufferCap = 3
  MaxSamples = 4
  MaxChanges = 1
  MaxDoubts = 1
  Request = {r1, r2, r3}
  MaxConns = 2
  MaxAttempts = 2
  Caller = {c1, c2}
  SeqSpace = 2
  HopTTL = {1, 2}
  MaxTotal = 3
  CheckEvery = 2
  Cap = 3
  Limit = {1, 3}
  MaxLogged = 6
  MaxStarts = 1
  Target = {h}
  Host = {h}
  Addr = {x, y}
  Nil = Nil
  Slot = {1, 2}
  Changes = 4
  Token = {"bound"}
INVARIANTS InOrder Accounted TruncatesAlone OwnProbe ViewerSeesTail RunnerInControl
PROPERTIES Drains GateGoesOn ChecksGoOn FollowsCentral RevokedStops
