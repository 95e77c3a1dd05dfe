SPECIFICATION Spec
CONSTANTS
  LinearCases = {}
  RowCases = {}
  PwCases = {}
  ConvCases = {}
  PadCases = {}
  SliceCases = {}
  SplitCases = {}
  ConstCases = {}
  ScoreCases = {}
  ScoreRowCases = {}
  ActivationCases = {}
  DecayCases = {}
  RopeCases = {}
  NormCases = {}
  GatedCases = {}
  GramCases = {}
  ConvCallCases = {}
  DeltaNetCases = {}
  IndexCases = {}
  ExpertCases = {}
  RotaryCases = {}
  LaneCases <- MCChunkLanes
  ClosureCases = {}
  GenerateCases = {}
  VerifyCases = {}
  HeadCases = {}
  RowWindowCases = {}
  WindowCases = {}
  PairCases = {}
  ChunkCases = {}
  TreeCases = {}
  DirItemCases = {}
  CatCases = {}
  ListCases = {}
  FatCases = {}
INVARIANT LanesAreReference
