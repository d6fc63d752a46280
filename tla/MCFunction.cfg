CONSTANTS
  TotalSize = 16384
  nVendorBytes = 40
  Hosts <- HostsAll
  Requests <- RequestsAll
  Commands <- CommandsAll
  Address = 5
  Patient = TRUE
  MaxRequests = 4
  MaxCommands = 2
  MaxAbandons = 1
  MaxBusResets = 1
SPECIFICATION Spec
INVARIANTS TypeOK AnswersItsRequest BusAgreed AnswersItsCommand AlwaysListening
PROPERTY EveryoneIsServed
CHECK_DEADLOCK FALSE
