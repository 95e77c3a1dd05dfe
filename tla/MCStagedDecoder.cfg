CONSTANTS
  NProg = 2
  Prime = 11
  Val <- MCVal
  Zero = 0
  Inf <- MCInf
  Unset <- MCUnset
  Lanes = {"x", "h"}
  X = "x"
  Src <- MCSrc
  Dst <- MCDst
  G <- MCG
  H <- MCH
  Tokens = {1}
  MaxLen = 3
  Words = {w1}
  First = w1
  MaxJobs = 1
SPECIFICATION FairSpec
INVARIANT InContext
PROPERTIES  StepsEnd
