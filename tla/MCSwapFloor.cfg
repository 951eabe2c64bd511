SPECIFICATION Spec
CONSTANTS
  eth = eth
  weth = weth
  usdc = usdc
  ERC20 = {weth, usdc}
  Wrapped = weth
  Native = eth
  Router = router
  Spender = {router}
  Caller = {c1, c2}
  Entry = {15}
  Output = {198, 200}
  Opening = 200
  Asked <- MCAsked
  MaxUint256 = 3
  MaxRetries = 1
  MaxCalls = 2
  MaxMoves = 1
INVARIANT FloorAsShown
CHECK_DEADLOCK FALSE
