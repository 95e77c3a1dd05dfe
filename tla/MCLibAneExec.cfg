CONSTANTS
  MaxVal = 3
  Inf = 3
  Val <- MCVal
  F <- MCF
  Bufs <- MCBufs
  Words = {w1, w2}
  First = w1
  Inputs = {0, 1}
  MaxJobs = 1
  NDst = 2
  StateDst = {0, 1}
  MaxIter = 2
SPECIFICATION FairSpec
INVARIANTS ResultIsOwn InputIsMeant
PROPERTY CallsReturn
