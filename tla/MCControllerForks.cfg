SPECIFICATION FairSpec
CONSTANTS
  Block <- MCBlock
  Genesis = 1
  Prev <- MCPrev
  Num <- MCNum
  Lib <- MCLib
  Anc <- MCAnc
  MayFail = {3, 4, 5, 6, 7, 8, 9}
  Mine = {8, 9}
  Modes = {"head"}
  MaxFails = 0
  MaxRestarts = 0
  Replays = FALSE
INVARIANTS TypeOK NoAssertFails StateIsHead HeadsAgree
PROPERTY BestChainAdopted
