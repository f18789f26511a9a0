SPECIFICATION OSpec
CONSTANTS
  Block <- OBlock
  Genesis = 1
  Prev <- OPrev
  Num <- ONum
  Lib <- OLib
  Anc <- OAnc
  MayFail = {5}
  Mine = {9}
  Modes = {"head"}
  MaxFails = 1
  MaxRestarts = 0
  Replays = FALSE
  Trx = {"t1", "t2", "t3"}
  Txs <- MCTxs
  Expiry <- MCExpiry
  Retried = {"t1", "t2"}
  Depth <- MCDepth
  LibTotem = 99
  Requests <- MCRequests
  SBlocks = {9}
  SignFails = {9}
  MaxSnapshots = 2
CHECK_DEADLOCK FALSE
INVARIANTS OTypeOK AnswersAreTrue StatusIsTrue NoForgottenSnapshot
