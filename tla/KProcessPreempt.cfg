SPECIFICATION PreemptiveSpec
CONSTANTS
  MAX_PROCESSES = 3
  scheduler_interval = 2
  Sleeps = {1}
PROPERTY InitKeepsRunning
