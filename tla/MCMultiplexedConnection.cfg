SPECIFICATION FairSpec
CONSTANTS
  c1 = c1
  c2 = c2
  Reader = Reader
  Writer = Writer
  Owner = Owner
  Callers = {c1, c2}
  Timed = {c1}
  MaxCalls = 3
  MaxPending = 2
  MaxOutbound = 2
INVARIANTS WriterNotStranded DrainKeepsCalls FibersLeave NobodyStranded
PROPERTIES KeepsContract TimedCallReturns
CHECK_DEADLOCK FALSE
