SPECIFICATION FairSpec
CONSTANTS
  Events = {1}
  Workers = {w1}
  CreatedAt <- MCCreatedAt
  BatchLimit = 1
  MaxAttempts = 2
  Malformable = {}
  NoJob = NoJob
  Faults = {"crash"}
  MaxFaults = 1
PROPERTIES
  LeasedJobRecovered
