----------------------------- MODULE Algorithms -----------------------------
(***************************************************************************)
(* The pure algorithms of the repository on bounded inputs: every case is  *)
(* a state that holds the input, what the code computes for it and what a  *)
(* reference definition says it should be.                                 *)
(***************************************************************************)
EXTENDS EncoderKernels, TLC

EM == INSTANCE ElementwiseMath
GD == INSTANCE GatedDelta
Q4 == INSTANCE Qwen4Exp
SC == INSTANCE StagedChain
SF == INSTANCE StagedFormats
RR == INSTANCE RawReaders
RI == INSTANCE RawImages

CONSTANTS LinearCases, ConvCases, RowCases, PwCases, SliceCases, PadCases,
          SplitCases, ConstCases,
          ScoreCases, ScoreRowCases, ActivationCases, DecayCases, RopeCases, NormCases, GatedCases,
          GramCases, ConvCallCases, DeltaNetCases, IndexCases, ExpertCases, RotaryCases,
          LaneCases, ClosureCases, GenerateCases, VerifyCases, HeadCases,
          RowWindowCases, WindowCases, PairCases,
          ChunkCases, TreeCases, DirItemCases, CatCases, ListCases, FatCases

VARIABLES
  family,     \* which family of algorithms the case belongs to
  input,      \* the case
  computed,   \* the result of the code's algorithm
  reference   \* the result it is compared with

vars == <<family, input, computed, reference>>

None == "none"
Init == family = None /\ input = None /\ computed = <<>> /\ reference = <<>>

Case(name, c, result, expected) ==
  /\ family = None
  /\ family' = name
  /\ input' = c
  /\ computed' = result
  /\ reference' = expected

Kernels ==
  \/ \E c \in LinearCases : Case("kernels", c, LinearSilu(c), LinearReference(c))
  \/ \E c \in RowCases : Case("kernels", c, LayerNorm(c), LayerNormReference(c))
  \/ \E c \in RowCases : Case("kernels", c, Softmax(c), SoftmaxReference(c))
  \/ \E c \in RowCases : Case("kernels", c, GluKernel(c.src, c.src),
                            PwReference([op |-> "mul", xs |-> <<1, 1, c.rows, c.width>>,
                              ys |-> <<1, 1, c.rows, c.width>>, x |-> c.src,
                              y |-> SigmoidKernel(c.src)]))
  \/ \E c \in PwCases : Case("kernels", c, Pw(c), PwReference(c))
  \/ \E c \in ConvCases : Case("kernels", c, ApplyConv(c), ConvReference(c))
  \/ \E c \in PadCases : Case("kernels", c, PadWidths(c.pad, c.rank), PadReference(c))
  \/ \E c \in SliceCases : Case("kernels", c, SliceAxis(c), SliceReference(c))
  \/ \E c \in SplitCases : Case("kernels", c, SplitTop(c), SplitReference(c))
  \/ \E c \in ConstCases : Case("kernels", c, EvalConst(c), ConstReference(c))

Chains ==
  \/ \E c \in ScoreCases : Case("chains", c, EM!Softmax128(c), EM!Softmax128Reference(c))
  \/ \E c \in ScoreRowCases : Case("chains", c, EM!SoftmaxAneRow(c), EM!SoftmaxRowReference(c))
  \/ \E c \in ActivationCases :
       Case("chains", c, EM!ApplyActivation(c.flat, c.multiplier, c.multiplyInput),
            EM!ActivationReference(c.flat, c.multiplier, c.multiplyInput))
  \/ \E c \in DecayCases :
       Case("chains", c, EM!DecayMultiplier(c.alpha, c.bias, c.aLog),
            EM!DecayReference(c.alpha, c.bias, c.aLog))
  \/ \E c \in DecayCases :
       Case("chains", c, EM!AddChain(c.alpha, c.bias), EM!AddReference(c.alpha, c.bias))
  \/ \E c \in RopeCases :
       Case("chains", c, EM!Rope(c.row, c.cosine, c.sine), EM!RopeReference(c.row, c.cosine, c.sine))
  \/ \E c \in NormCases :
       Case("chains", c, EM!Normalize(c.row, c.weight, c.eps, c.mean, c.scale),
            EM!NormalizeReference(c.row, c.weight, c.eps, c.mean, c.scale))
  \/ \E c \in GatedCases : Case("chains", c, GD!GatedDeltaUpdate(c, TRUE), GD!UpdateReference(c))

Readers ==
  \/ \E c \in ChunkCases :
       Case("readers", c, RR!ParseChunk(RI!ChunkBody(c.layout, c.length, c.stripes, c.uuid), c.own),
            RI!ChunkReference(c))
  \/ \E c \in TreeCases :
       Case("readers", c, RR!WalkTree([device |-> RI!BuildTree(c.items, 1, c.per)], c.chunks, 1, c.lo, c.hi),
            RI!WalkReference(c.items, c.lo, c.hi))
  \/ \E c \in DirItemCases : Case("readers", c, RR!DirEntries(c), RI!DirReference(c))
  \/ \E c \in CatCases :
       Case("readers", c, RR!Cat(RI!BtrfsImage(c.content, c.extents, c.layout, c.copies, c.per, c.collide, c.shift),
                                 <<1>>, c.path, c.tail),
            RI!CatReference(c.content, c.extents, c.path, c.tail))
  \/ \E c \in ListCases :
       Case("readers", c, RR!ListDir(RI!BtrfsImage(<<>>, <<>>, c.layout, c.copies, c.per, c.collide, c.shift),
                                     <<1>>, c.path),
            RI!ListReference(c.path))
  \/ \E c \in FatCases :
       Case("readers", c, RR!FatRead(RI!FatImage(c.objects, c.perm), c.path), RI!FatReference(c.objects, c.path))

Staged ==
  \/ \E c \in LaneCases : Case("lanes", c, SC!DecoderTrace(c), SC!RunnerTrace(c))
  \/ \E c \in ClosureCases : Case("staged", c, SC!LanesClosed(c), SC!LanesFound(c))
  \/ \E c \in GenerateCases : Case("staged", c, SC!Generate(c), SC!GenerateReference(c))
  \/ \E c \in VerifyCases : Case("staged", c, SC!Verify(c), SC!VerifyReference(c))
  \/ \E c \in VerifyCases : Case("staged", c, SC!Replay(c), SC!ReplayReference(c))
  \/ \E c \in HeadCases : Case("staged", c, SC!TiedLogits(c.matrix, c.hidden), SC!LogitsReference(c.matrix, c.hidden))
  \/ \E c \in RowWindowCases : Case("staged", c, SF!RoundTrip(c), SF!RoundTripReference(c))
  \/ \E c \in WindowCases : Case("staged", c, SF!Windows(c), SF!WindowsReference(c))
  \/ \E c \in PairCases : Case("staged", c, SF!PairCase(c), SF!PairReference(c))

Port ==
  \/ \E c \in GramCases : Case("port", c, Q4!NGramIds(c), Q4!NGramReference(c))
  \/ \E c \in ConvCallCases : Case("port", c, Q4!ShortConv(c), Q4!ShortConvReference(c))
  \/ \E c \in DeltaNetCases : Case("port", c, Q4!GatedDeltaNet(c), Q4!DeltaNetReference(c))
  \/ \E c \in DeltaNetCases : Case("port", c, Q4!RefGatedDeltaNet(c), Q4!RefDeltaNetReference(c))
  \/ \E c \in IndexCases : Case("port", c, Q4!QSAAttention(c), Q4!AnsweredReference(c))
  \/ \E c \in IndexCases : Case("port", c, Q4!RefAttention(c), Q4!AttentionReference(c))
  \/ \E c \in ExpertCases : Case("port", c, Q4!SparseMoe(c), Q4!RefMoe(c))
  \/ \E c \in RotaryCases :
       Case("port", c, Q4!Recompose(c.freq, c.section), Q4!RecomposeReference(c.freq, c.section))

Next == Port \/ Staged \/ Kernels \/ Chains \/ Readers \/ (family # None /\ UNCHANGED vars)
Spec == Init /\ [][Next]_vars

-----------------------------------------------------------------------------
\* Every fused kernel and operator helper of the encoder returns what the
\* dispatches, the MIL operators or the text it replaces mean: the same sums
\* rounded at the same places, every element stored once, the bias of its
\* own column, the operand broadcasting pairs it with.
KernelsMatchDispatch == family = "kernels" => computed = reference

\* The numerical methods of the elementwise engine compute their closed
\* forms: seven squarings undo a division by 128, twelve Newton steps square
\* the error twelve times, halving sums every lane once, each chunk and its
\* padded tail lands where it was taken from.
ChainsCompute == family = "chains" => computed = reference

\* The raw readers return what the file system holds: a range walk finds
\* every item of the range and no other, through any tree shape, a path
\* crosses into a nested subvolume, a file or its tail is the bytes last
\* written at those offsets, and a long FAT name is put together from its
\* own parts only.
ReadersReturnFiles == family = "readers" => computed = reference

\* The qwen4_exp port and its NumPy reference agree with what the text alone
\* determines, however the text is cut into calls: the rows every n-gram head
\* looks up, the convolutions, the delta rule whether it runs chunk by chunk
\* or token by token, the keys a query may attend to, the routed experts.
\* The exceptions are the calls the code refuses, and the token context,
\* which reaches one call back.
PortIsReference == family = "port" => computed = reference

\* The data paths of the staged decoder agree with what they stand for: a
\* program of a one-chunk step is given the lanes the runner gives it, a
\* generation is the recomputation of its text, the verifier and the replay
\* report exactly the captures that were changed, rows come back from their
\* windows, a window holds its channel's transfer, and programs are paired
\* with containers of their class.
StagedDataAgree == family \in {"staged", "lanes"} => computed = reference

\* Each program of a step is given the lanes the macOS step loop gives it,
\* whatever the number of chunks: the final of a chunk hands its residual to
\* the next chunk.
LanesAreReference == family = "lanes" => computed = reference
=============================================================================
