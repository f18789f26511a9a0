SPECIFICATION OSpec
CONSTANTS
  Block <- OBlock
  Genesis = 1
  Prev <- OPrev
  Num <- ONum
  Lib <- OLib
  Anc <- OAnc
  MayFail = {}
  Mine = {4, 8, 9}
  Modes = {"head"}
  MaxFails = 0
  MaxRestarts = 0
  Replays = FALSE
  Trx = {"t1", "t2", "t3"}
  Txs <- MCTxs
  Expiry <- MCExpiry
  Retried = {}
  Depth <- MCDepth
  LibTotem = 99
  Requests <- MCRequests
  SBlocks = {4, 8, 9}
  SignFails = {}
  MaxSnapshots = 0
CHECK_DEADLOCK FALSE
INVARIANTS SLinked
