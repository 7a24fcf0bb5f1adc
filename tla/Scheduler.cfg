SPECIFICATION FairSpec
CONSTANTS
  MAX_PROCESSES = 5
  MAX_THREADS = 4
  SCHEDULER_QUANTUM = 10
  CREATE_QUANTUM = 5
  NFRAMES = 110
  USER_FRAMES = 50
  TICK_MOD = 1
  BootPlan <- MainPlan
INVARIANTS TypeOK OneRunning ContextIntact MachineFollows EveryProcessQueued
PROPERTIES EveryThreadRuns DeadStaysOff SliceHonoured ImplementsRoundRobin
