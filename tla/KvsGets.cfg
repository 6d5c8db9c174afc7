\* Two executors that read and write one key through one I/O thread.
SPECIFICATION FairSpec
CONSTANTS
  Execs = {e1, e2}
  Keys = {k1}
  Workers = {w1, w2}
  w1 = w1
  w2 = w2
  Placements <- SomePlacements
  IoThreads = 2
  IdMod = 2
  MaxOps = 3
  MaxFaults = 1
  None = None
  Ids = {i1, i2}
  MaxTick = 2
  Values = {v1, v2}
  MaxTime = 4
  MaxThread = 25
  Raises = Raises
INVARIANT RightAnswer
INVARIANT FreshReads
INVARIANT GetsKept
INVARIANT AckedPutsStored
 
 
CHECK_DEADLOCK FALSE
PROPERTY GetsAnswered
