CONSTANTS
  Boards <- MCBoards
  Layout <- MCLayout
  Ram = {1, 2, 3, 4, 5, 6, 7}
  Flash = {11, 12, 13, 14, 15, 16, 17, 18, 19}
  StackTop = 100
  HfFlag = 2
  LfFlag = 3
  MaxResets = 2
SPECIFICATION Spec
CHECK_DEADLOCK FALSE
INVARIANTS MemoryReady ClocksRun
PROPERTIES   BootEnds
