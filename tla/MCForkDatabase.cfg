SPECIFICATION FdbSpec
CONSTANTS
  Block <- MCBlock
  Genesis = 1
  Prev <- MCPrev
  Num <- MCNum
  Lib <- MCLib
  Anc <- MCAnc
INVARIANTS
  FdbTypeOK
  NoOrphan
  HeadIsBest
  ReopensOwnFile
PROPERTY HeadNeverWorsens
