SPECIFICATION FairSpec
CONSTANTS
  Tasks = {t1, t2, t3, t4, t5, t6}
  Concurrency = 2
  MaxBurst = 2
  Prompt = {t3, t4}
  Chained = {t3, t5}
INVARIANTS
  TypeOK
  OnlyBargingExceeds
  NoWaiterForgotten
PROPERTIES
  EveryCallRuns
CHECK_DEADLOCK FALSE
