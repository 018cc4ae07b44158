CONSTANTS
  Bursts = 6
  QueueSize = 4
  JoinTicks = 10
  UsbMayFail = TRUE
  None = None
SPECIFICATION StreamSpec
PROPERTY CallEnds
CHECK_DEADLOCK FALSE
