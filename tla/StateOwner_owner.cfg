SPECIFICATION FairSpec
CONSTANTS
  Commands = {c1, c2}
  Start = start
  Readers = {r1}
  Subscribers = {r1}
  Impatient = {c1, r1}
  NoCommand = none
  NoReader = nobody
  QueueSize = 1
  MaxBoots = 1
CHECK_DEADLOCK FALSE
INVARIANTS
  MemoryMatchesDisk
  RejectedNeverCommitted
  AcknowledgedDurable
  SubscribersCurrent
  SnapshotsHonest
PROPERTIES
  ImplementsDurableLedger
  EveryCallReturns
