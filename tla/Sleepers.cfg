\* two processes that sleep, with a clock that wraps around, and wake each other
CONSTANTS
  NUM_MAX_TASK = 4
  MAX_MUTEX_OWN = 1
  TICK = 1
  TIMER_UNIT = 2
  WORD = 5
  Locks = {l1}
  Conds = {c1}
  Sems = {}
  Barriers = {}
  NULL = NULL
  KillPids = {}
  WaitPids = {}
  SleepTimes = {0}
  SemValues = {}
  Goals = {}
  MaxPid = 4
  MaxSem = 0
  MaxNow = 0
SPECIFICATION FairSpec
PROPERTIES SleepersWakeOnTime SleeperWakes ReadyRuns
