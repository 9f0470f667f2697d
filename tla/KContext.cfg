SPECIFICATION Spec
CONSTANTS
  Procs = {p1, p2}
  NoProc = NoProc
  Values = {1}
INVARIANT FreshEntersTrampoline
CHECK_DEADLOCK FALSE
