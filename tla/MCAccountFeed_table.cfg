SPECIFICATION Spec
CONSTANTS
  swapA = swapA
  here = here
  there = there
  Accounts = {swapA}
  Clients = {here, there}
  NSlices = 1
  Slice <- OneAccount
  Unreadable = {2}
  QueueCap = 1
  MaxSlot = 3
INVARIANTS TableSound BehindOnlyFromStart
PROPERTIES Converges BackOnlyByOther
