SPECIFICATION Spec
CONSTANTS
  Block <- MCBlock
  Genesis = 1
  Prev <- MCPrev
  Num <- MCNum
  Lib <- MCLib
  Anc <- MCAnc
  MayFail = {8}
  Mine = {}
  Modes = {"head"}
  MaxFails = 0
  MaxRestarts = 1
  Replays = FALSE
INVARIANT StateIsHead
