SPECIFICATION LiveSpec
CONSTANTS
  Callers = {c1, c2, c3}
  Procs = {p1, p2}
  NoProc = NoProc
INVARIANTS ReaperNeverBlocks
PROPERTIES StopIsEffective OneChild DeadChildIsForgotten
CHECK_DEADLOCK FALSE
