SPECIFICATION Spec
CONSTANTS
  usdc = usdc
  sol = sol
  ray = ray
  pool1 = pool1
  pool2 = pool2
  pool3 = pool3
  pool4 = pool4
  Tokens = {usdc, sol, ray}
  USDC = usdc
  Models = {pool1, pool2, pool3, pool4}
  Pair <- MCPair
  MaxAmount = 3
  Quotes <- MCQuotes
  Asked <- MCAsked
  Depth = 4
INVARIANTS MatrixSound PathSound FindsBest
