SPECIFICATION Spec
CONSTANTS
  usdc = usdc
  sol = sol
  ray = ray
  direct = direct
  other = other
  Paths = {direct}
  Cycle <- OneCycle
  Tokens = {usdc, sol, ray}
  USDC = usdc
  Amounts = {80, 15900}
  Yields = {40, 140, 160, 410}
  ValidYield = 50
  UsdcAmount = 20000
  NodeId = 1
  Window = 2
  Word = 1024
  MaxSalt = 0
  MaxTime = 2
  KeepLog = 3
INVARIANTS SameIsLimited LevelsApart StepsChain SpendsWithin
