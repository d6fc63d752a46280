SPECIFICATION Spec
CONSTANTS
  LunCount = 1
  Kind <- OneDisk
  CmdSets = {"SCSI", "SFF-8070i"}
  TestUnitRetries = 1
  CapacityRetries = 1
  FmtCapacityRetries = 1
  Polled = {0}
  MaxChanges = 3
INVARIANTS
  TypeOK
PROPERTIES
  PreventedBeforeMounted
  CheckTellsTruth
  EveryUnitAnnounced
  MountAnswered
CHECK_DEADLOCK FALSE
