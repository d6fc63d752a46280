CONSTANTS
  TotalSize = 16384
  nVendorBytes = 40
  Hosts <- OnlyDisk
  Requests <- RequestsAll
  Commands <- CommandsAll
  Address = 5
  Patient = FALSE
  MaxRequests = 4
  MaxCommands = 2
  MaxAbandons = 1
  MaxBusResets = 1
SPECIFICATION Spec
INVARIANT ActualLengthIsTrue
CHECK_DEADLOCK FALSE
