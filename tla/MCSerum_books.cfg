SPECIFICATION Spec
CONSTANTS
  Versions = {"v1", "v2"}
  Accounts <- SomeAccounts
  MarketOf <- ThreeMarkets
  BooksOf <- SomeBooks
  Split <- SomeSplit
  Broken = {"ka"}
  Incomplete = {"n"}
  Depth = 2
  BaseLotSize = 3
  QuoteLotSize = 1
  Scale = 100
  Multiplier <- SomeMultipliers
  Micro = 10
  Worth = 30
  Amounts = {1, 3, 70, 430}
  UserOf <- SomeUsers
  UpdateCap = 1
  MaxSlot = 3
INVARIANTS BooksKnown QuotesSound OrdersSound
CHECK_DEADLOCK FALSE
