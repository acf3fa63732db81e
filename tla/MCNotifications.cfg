SPECIFICATION NotifySpec
CONSTANTS
  Conn = {c1, c2}
  DeviceOf <- MCDeviceOf
  Origin <- MCOrigin
  Worker = {w}
  ReadErrors = TRUE
  MaxSent = 2
SYMMETRY Symmetry
INVARIANTS
  ClosedIsForgotten
  InOrder
  OncePerDevice
CHECK_DEADLOCK FALSE
