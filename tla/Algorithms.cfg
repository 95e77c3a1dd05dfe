SPECIFICATION Spec
CONSTANTS
  LinearCases <- MCLinearCases
  RowCases <- MCRowCases
  PwCases <- MCPwCases
  ConvCases <- MCConvCases
  PadCases <- MCPadCases
  SliceCases <- MCSliceCases
  SplitCases <- MCSplitCases
  ConstCases <- MCConstCases
  ScoreCases <- MCScoreCases
  ScoreRowCases <- MCScoreRowCases
  ActivationCases <- MCActivationCases
  DecayCases <- MCDecayCases
  RopeCases <- MCRopeCases
  NormCases <- MCNormCases
  GatedCases <- MCGatedCases
  GramCases <- MCGramCases
  ConvCallCases <- MCConvCallCases
  DeltaNetCases <- MCDeltaNetCases
  IndexCases <- MCIndexCases
  ExpertCases <- MCExpertCases
  RotaryCases <- MCRotaryCases
  LaneCases <- MCLaneCases
  ClosureCases <- MCClosureCases
  GenerateCases <- MCGenerateCases
  VerifyCases <- MCVerifyCases
  HeadCases <- MCHeadCases
  RowWindowCases <- MCRowWindowCases
  WindowCases <- MCWindowCases
  PairCases <- MCPairCases
  ChunkCases <- MCChunkCases
  TreeCases <- MCTreeCases
  DirItemCases <- MCDirItemCases
  CatCases <- MCCatCases
  ListCases <- MCListCases
  FatCases <- MCFatCases
INVARIANTS KernelsMatchDispatch ChainsCompute  ReadersReturnFiles 
