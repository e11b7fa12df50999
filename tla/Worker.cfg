SPECIFICATION FairSpec
CONSTANTS
  Events = {1, 2}
  Workers = {w1, w2}
  CreatedAt <- MCCreatedAt
  BatchLimit = 2
  MaxAttempts = 2
  Malformable = {2}
  NoJob = NoJob
  Faults = {"transfer", "claim", "settle", "crash", "stop"}
  MaxFaults = 2
INVARIANTS
  TypeOK
  NoEventLost
  SingleExecutor
  HolderIsCurrent
  DeadLetterFinal
PROPERTIES
  OnlyOwnerSettles
  ImplementsDelivery
  EventuallySettled
