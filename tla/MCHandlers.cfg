SPECIFICATION FairNotifySpec
CONSTANTS
  Conn = {c1}
  DeviceOf <- MCDeviceOf
  Origin <- MCOrigin
  Worker = {w}
  ReadErrors = FALSE
  MaxSent = 2
INVARIANTS
  NotifyTypeOK
  NoStandstill
PROPERTY
  HandlerReturns
CHECK_DEADLOCK FALSE
