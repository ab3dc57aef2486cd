CONSTANTS
  p1 = p1
  p2 = p2
  q1 = q1
  None = None
  Procs = {p1, p2}
  InitProc = p1
  Pipes = {q1}
  STD_SLOTS = 3
  MAX_OPEN = 1024
  PIPE_CAPACITY = 1
  FdArgs = {0}
  NewFdArgs = {3}
  MaxCount = 1
  MaxSent = 0
  MaxLen = 5
  MaxRef = 8
SPECIFICATION Spec
INVARIANT NewDescriptorIsFresh
CHECK_DEADLOCK FALSE
