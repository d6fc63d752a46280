\* Two units, used one at a time; one data retry; tags alternate; data stages
\* of 13 bytes included.
SPECIFICATION FairSpec
CONSTANTS
  MaxLuns = 2
  MaxDataRetries = 1
  TagMod = 2
  Concurrent = FALSE
  CswAsData = TRUE
INVARIANT TypeOK
INVARIANT FlagsNameRequest
INVARIANT RecoveryIsQuiet
INVARIANT OneCommandOutstanding
PROPERTY ImplementsTransport
PROPERTY EveryCommandCompletes
