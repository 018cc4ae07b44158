CONSTANTS
  Bursts = 6
  QueueSize = 4
  JoinTicks = 10
  UsbMayFail = TRUE
  None = None
SPECIFICATION StreamSpec
INVARIANTS StatusAfterStream InOrder RaisesOnlyOnUsbError
PROPERTY EndsOrBlocked
CHECK_DEADLOCK FALSE
