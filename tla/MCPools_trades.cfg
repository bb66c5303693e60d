SPECIFICATION Spec
CONSTANTS
  Programs = {"orca", "tokenswap", "saber", "raydium"}
  Accounts <- SomeAccounts
  ReservesOf <- SomeReserves
  Before <- AtFirst
  Lost <- SomeLost
  TradeFee = 100
  OwnerFee = 200
  SaberFee = 100
  Amp = 10
  BPrice = 2
  Amounts = {1, 3, 10, 35}
  UserOf <- SomeUsers
  Gain = 1
  MaxSlot = 3
INVARIANTS VaultsKnown StepFollowsQuote CurvesSound
CHECK_DEADLOCK FALSE
