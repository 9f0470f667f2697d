SPECIFICATION CooperativeSpec
CONSTANTS
  MAX_PROCESSES = 4
  scheduler_interval = 2
  Sleeps = {0, 3}
INVARIANTS TypeOK ExactlyOneRunning EoiOwed
PROPERTY EveryoneRuns
