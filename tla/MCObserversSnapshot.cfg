SPECIFICATION OSpec
CONSTANTS
  Block <- OBlock
  Genesis = 1
  Prev <- OPrev
  Num <- ONum
  Lib <- OLib
  Anc <- OAnc
  MayFail = {}
  Mine = {}
  Modes = {"head"}
  MaxFails = 0
  MaxRestarts = 0
  Replays = FALSE
  Trx = {"t1", "t2", "t3"}
  Txs <- MCTxs
  Expiry <- MCExpiry
  Retried = {}
  Depth <- MCDepth
  LibTotem = 99
  Requests <- MCRequests
  SBlocks = {}
  SignFails = {}
  MaxSnapshots = 1
CHECK_DEADLOCK FALSE
INVARIANTS FinalIsIrreversible
