SPECIFICATION FairSpec
CONSTANTS
  Events = {1, 2}
  Workers = {w1}
  CreatedAt <- MCCreatedAt
  BatchLimit = 2
  MaxAttempts = 2
  Malformable = {1}
  NoJob = NoJob
  Faults = {}
  MaxFaults = 0
PROPERTIES
  SoundEventDelivered
