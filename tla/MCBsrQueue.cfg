\* Polled, three items per poll; and interrupts, three ISR runs ahead.
SPECIFICATION FairSpec
CONSTANTS
  Items = {irp, cause}
  QueueLength = 5
  CounterMod = 4
  MaxOwed = 3
  Boards <- BothBoards
INVARIANT TypeOK
INVARIANT DrainedBeforePoll
INVARIANT NoLostWakeup
PROPERTY EventuallyHandled
PROPERTY ImplementsFifo
