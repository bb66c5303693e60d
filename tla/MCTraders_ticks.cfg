SPECIFICATION Spec
CONSTANTS
  InstructionSize = 2
  InstructionSize2 = 3
  Apps = {"saber", "orca", "msol", "usdt", "cases"}
  FlagSets <- SomeFlags
  NonceMod = 4
  Slow = 2
  Fast = 1
  Quiet = 1
  Amounts = {0, 1, 2}
  Files <- SomeFiles
INVARIANTS TwinsApart TransactionsSound BalancesSound
PROPERTIES ThrottleSound
CHECK_DEADLOCK FALSE
