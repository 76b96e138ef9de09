CONSTANTS
  Base = 2
  Nudge = 1
  HoldBand = 1
  HardSeek = 4
  Duration = 10
  Seeks = {6}
  Latency = 1
  MaxWire = 2
  MaxOps = 2
  MaxSnapshots = 1
  MaxStalls = 1
SPECIFICATION FairSpec
PROPERTIES PlaysAlong Converges
CHECK_DEADLOCK FALSE
