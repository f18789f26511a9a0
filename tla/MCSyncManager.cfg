CONSTANTS
  p = p
  q = q
  Peer = {p, q}
  Networks <- MCNetworks
  Span = 1
  MinDistance = 0
  Fragile = {p}
SPECIFICATION FairSpec
INVARIANTS SyncTypeOK SyncCanGoOn
PROPERTY CatchesUp
