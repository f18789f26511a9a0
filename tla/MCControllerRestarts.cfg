SPECIFICATION Spec
CONSTANTS
  Block <- MCBlock
  Genesis = 1
  Prev <- MCPrev
  Num <- MCNum
  Lib <- MCLib
  Anc <- MCAnc
  MayFail = {}
  Mine = {8, 9}
  Modes = {"head", "irreversible"}
  MaxFails = 0
  MaxRestarts = 2
  Replays = TRUE
INVARIANTS StateIsHead CommitAfterLog HeadIsBestKnown
PROPERTIES ImplementsLedger ReplayCompletes
