\* the shell and one slot that is used twice, with a stack of its own each time
CONSTANTS
  NUM_MAX_TASK = 3
  MaxStacks = 3
SPECIFICATION FairSpec
INVARIANTS UserContextKept ReturnsOwnPid KernelNotInterrupted UserInterruptible KernelFramesOwn
PROPERTY TimerAcknowledged
