SPECIFICATION Spec
CONSTANTS
  NNodes = 2
  NWorkers = 2
  NSenders = 1
  Modes = {3, 5}
  CommandCap = 1
  DataCap = 1
  MaxAge = 1
  Word = 8
  MaxSalt = 1
  MaxCommits = 2
  MaxTime = 2
  MaxRestarts = 1
INVARIANTS AskedOnce StreamsSound
PROPERTIES CommandsPass
CHECK_DEADLOCK FALSE
