\* a condition with its mutex, a semaphore and a barrier
CONSTANTS
  NUM_MAX_TASK = 5
  MAX_MUTEX_OWN = 1
  TICK = 1
  TIMER_UNIT = 1
  WORD = 1
  Locks = {l1}
  Conds = {c1}
  Sems = {s1}
  Barriers = {b1}
  NULL = NULL
  KillPids = {2}
  WaitPids = {}
  SleepTimes = {}
  SemValues <- MCSemValues
  Goals = {2, 3}
  MaxPid = 4
  MaxSem = 1
  MaxNow = 3
SPECIFICATION Spec
INVARIANTS CountersMatchQueues CondWaiterGaveUpLock NeverNull
PROPERTY BarrierRound
