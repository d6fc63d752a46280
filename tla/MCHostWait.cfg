SPECIFICATION Spec
CONSTANTS
  Devices = {1, 2}
  Addresses = {1, 2}
  Configs = 1
  MaxEnumRetries = 1
  MaxFatalRetries = 2
  VbusRetries = 1
  BabbleRetries = 1
  Kinds = {"disk", "dual", "other"}
  wInSize <- InSizes
  wOutSize <- OutSizes
  TotalSize = 16384
  Blocking = {TRUE}
  Surprises = FALSE
  MaxPlugs = 2
  MaxErrors = 2
  MaxFaults = 2
PROPERTY
  WaitEndsIdle
CHECK_DEADLOCK FALSE
