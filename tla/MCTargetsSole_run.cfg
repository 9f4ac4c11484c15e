SPECIFICATION SoleSpec
CONSTANTS
  Target = {host, ip}
  Host = {host}
  Addr = {1, 2}
  Interval = {0, 1}
  DefaultInterval = 0
  Threshold = {0, 1}
  NoThreshold = 0
  Tab = {1, 2}
  Req = {r1}
  Slot = {1, 2, 3}
  None = None
  Ops = {"add", "remove", "interval", "threshold", "swap", "tab", "stop"}
  Faults = {"dns"}
 
PROPERTY FollowsDns
