CONSTANTS
  TileCount = 2
  NodeCount = 3
  MaxDevices = 2
  DevIds <- MCDevIds
  Handles = {1, 2, 3, 4}
SPECIFICATION FairSpec
INVARIANTS TypeOK Ledger NoLeak ReadySession
PROPERTY CallsReturn
