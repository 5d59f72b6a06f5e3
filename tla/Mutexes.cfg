\* two mutexes, a semaphore and waitpid; kill and exit of owners and waiters
CONSTANTS
  NUM_MAX_TASK = 5
  MAX_MUTEX_OWN = 2
  TICK = 1
  TIMER_UNIT = 1
  WORD = 1
  Locks = {l1, l2}
  Conds = {}
  Sems = {s1}
  Barriers = {}
  NULL = NULL
  KillPids = {2, 3}
  WaitPids = {2}
  SleepTimes = {}
  SemValues = {}
  Goals = {}
  MaxPid = 4
  MaxSem = 0
  MaxNow = 0
SPECIFICATION Spec
INVARIANTS LockTable NoLostLockWakeup KillCanFind
