SPECIFICATION FairSpec
CONSTANTS
  Period = 2
  Interval = 2
  CatchUp = 1
  Failures = {"lookup", "record", "row"}
  MaxRestarts = 1
  IP = {i1, i2, i3}
  BatchSize = 2
  MaxRow = 3
INVARIANTS SettingsTakeEffect NothingSkipped
PROPERTIES NoRunaway TimesKeepTesting CatchesUp
