SPECIFICATION FairSpec
CONSTANTS
  s = s
  v = v
  w = w
  Endpoint = {s, v}
  Role <- MCRole
  MaxSends <- MCSends
  Large <- MCLarge
  Oversize <- MCOversize
  Deflating = {s, v}
  Inflating = {v}
  BufferLimit = 0
  MaxFaults = 1
CHECK_DEADLOCK FALSE
PROPERTIES
  InOrder
  QueueDrains
  AllArrive
