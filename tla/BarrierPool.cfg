SPECIFICATION Spec
CONSTANTS
  Coroutines = {1, 2}
  w1 = w1
  w2 = w2
  Warps <- MCWarps
  Pool = Pool
  Joined = {1}
  MaxAwaits <- MCMaxAwaits
  Shares <- MCShares
  Programs <- MCPrograms
  MaxCalls = 3
INVARIANTS BarrierTogether
CHECK_DEADLOCK FALSE
