\* the shell and one program at a time; the command area is five lines
CONSTANTS
  SCREEN_WIDTH = 4
  SCREEN_HEIGHT = 13
  SHELL_START_LINE = 7
  TERMINAL_HEIGHT = 16
  NUM_MAX_TASK = 3
  COMMAND_MAX_LEN = 15
  MaxFifo = 2
  Keys <- MCKeys
  Scripts <- MCScripts
  TaskLines <- MCTaskLines
SPECIFICATION FairSpec
INVARIANTS CursorInside RefreshFaithful TableBelowCommand CommandAsTyped
PROPERTIES CursorsPrivate AreasPrivate Displayed
