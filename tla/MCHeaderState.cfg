SPECIFICATION HdrSpec
CONSTANTS
  Producer = {"a", "b", "c", "d"}
  First = "a"
  Schedule <- Rotating
  MaxTracked = 3
  Repetitions = 1
  AnyRange = TRUE
  MaxMissed = 1
  MaxNum = 8
INVARIANTS HdrTypeOK CountsAreExact LibHasSupermajority VersionsFollow
PROPERTY LibNeverBack
CHECK_DEADLOCK FALSE
