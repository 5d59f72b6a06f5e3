\* spawn, kill, wait and exit; slots are reused; the clock stands, so who sleeps stays asleep
CONSTANTS
  NUM_MAX_TASK = 5
  MAX_MUTEX_OWN = 1
  TICK = 1
  TIMER_UNIT = 1
  WORD = 1
  Locks = {}
  Conds = {}
  Sems = {}
  Barriers = {}
  NULL = NULL
  KillPids = {0, 2, 3, 4, 5}
  WaitPids = {2, 3, 4}
  SleepTimes = {0}
  SemValues = {}
  Goals = {}
  MaxPid = 5
  MaxSem = 0
  MaxNow = 0
SPECIFICATION Spec
INVARIANTS TypeOK LinkedOnce StatusNamesQueue
PROPERTIES DeadStaysDead WaitReturnsAfterDeath
