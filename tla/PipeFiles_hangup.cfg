CONSTANTS
  p1 = p1
  p2 = p2
  q1 = q1
  None = None
  Procs = {p1, p2}
  InitProc = p1
  Pipes = {q1}
  STD_SLOTS = 1
  MAX_OPEN = 2
  PIPE_CAPACITY = 2
  FdArgs = {0, 1, 2}
  NewFdArgs = {0, 2}
  MaxCount = 2
  MaxSent = 3
  MaxLen = 3
  MaxRef = 2
SPECIFICATION FairSpec
INVARIANTS
  TypeOK
  ByteStream
  HangupIsFinal
  RefcountCovers
  PollPromises
PROPERTY ReaderHearsEof
CHECK_DEADLOCK FALSE
