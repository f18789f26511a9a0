SPECIFICATION Spec
CONSTANTS
  Block <- MCBlock
  Genesis = 1
  Prev <- MCPrev
  Num <- MCNum
  Lib <- MCConflict
  Anc <- MCAnc
  MayFail = {3, 4, 5, 6, 7, 8, 9}
  Mine = {}
  Modes = {"head", "irreversible"}
  MaxFails = 1
  MaxRestarts = 1
  Replays = FALSE
INVARIANTS NoAssertFails HeadAboveLog RootIsLogHead
