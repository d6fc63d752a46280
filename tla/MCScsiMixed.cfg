SPECIFICATION Spec
CONSTANTS
  LunCount = 2
  Kind <- MixedDisks
  CmdSets = {"SCSI"}
  TestUnitRetries = 0
  CapacityRetries = 0
  FmtCapacityRetries = 0
  Polled = {}
  MaxChanges = 0
INVARIANTS
  InfoAboutUnit
CHECK_DEADLOCK FALSE
