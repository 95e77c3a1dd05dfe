CONSTANTS
  N = 3
  Counts = {0, 1, 3}
SPECIFICATION FairSpec
INVARIANTS TypeOK Ledger NothingLeft EnginePowered ThreadHasRings ParentsFirst FwLedger
PROPERTY CallsEnd
