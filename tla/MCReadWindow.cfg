CONSTANTS
  Threads = {t1, t2}
  MaxPosts = 2
  MaxRetries = 1
SPECIFICATION WFairSpec
INVARIANTS WTypeOK NoWriteWhileReading SwitchAssertsHold
PROPERTIES EveryTaskRuns ShutdownEnds
