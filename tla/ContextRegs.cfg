\* expected to fail: at, t9, hi and lo are not saved
CONSTANTS
  NUM_MAX_TASK = 3
  MaxStacks = 3
SPECIFICATION Spec
INVARIANT AllRegistersKept
