------------------------------- MODULE AneOps -------------------------------
(***************************************************************************)
(* The instructions a host program of the repository issues, and what each *)
(* of them computes.  A tensor is a sequence of integer fingerprints (one  *)
(* number per row, head or chunk the properties tell apart); an arithmetic *)
(* kernel is a fixed mixing function of its operands, so that two results  *)
(* agree exactly when they were computed from the same operands in the     *)
(* same roles.  Addition and the dot product keep their algebra (they are  *)
(* what the tiling and the attention sums rely on).                        *)
(***************************************************************************)
EXTENDS Integers, Sequences, SequencesExt, FiniteSetsExt

CONSTANTS
  Context,        \* attention window: CONTEXT in qwen-token-runtime.py
  Taps,           \* convolution taps: CONVOLUTION_KERNEL_SIZE
  KvHeads,        \* KV_HEADS
  QueryGroup      \* QUERY_GROUP_SIZE: query heads that share one KV head

\* The sizes are positive, as the constructors check.
ASSUME SizesPositive ==
  /\ Context \in Nat \ {0} /\ Taps \in Nat \ {0}
  /\ KvHeads \in Nat \ {0} /\ QueryGroup \in Nat \ {0}

QueryHeads == KvHeads * QueryGroup

\* Fingerprints are numbers below P; P * P stays below 2^31.
P == 46337

\* Special contents of a cell: the sentinel, a non-finite result, memory
\* nobody wrote, and the lowest finite fp16 (the mask of an unused slot).
Inf  == -1
NaN  == -2
Junk == -3
Low  == -4

\* F(1) \o F(2) \o ... \o F(n).
Each(n, F(_)) ==
  LET upto[i \in 0..n] == IF i = 0 THEN <<>> ELSE upto[i - 1] \o F(i)
  IN  upto[n]

Mix(s) == FoldLeft(LAMBDA acc, v : (acc * 37 + v + 11) % P, 5, s)

SumMod(s) == FoldLeft(LAMBDA acc, v : (acc + v) % P, 0, s)

-----------------------------------------------------------------------------
(* Elementwise kernels.  A mode is the descriptor that is loaded; the      *)
(* numbers only have to differ.                                            *)

AddMode == 1      MulMode == 2      RmsMode == 3       L2Mode == 4
SigmoidMode == 5  SiluMode == 6     DecayMode == 7     RopeMode == 8
ScaleMode == 9    SoftmaxMode == 10 MaxMode == 11

EwLane(mode, a, b) ==
  IF NaN \in {a, b} THEN NaN
  ELSE IF mode = AddMode THEN (a + b) % P
  ELSE IF a = Low THEN Low
  ELSE Mix(<<mode, a, b>>)

\* Softmax over the unmasked slots; a masked slot gets probability zero.
SoftmaxOf(s) ==
  LET live  == {i \in DOMAIN s : s[i] >= 0}
      total == SumMod(SelectSeq(s, LAMBDA x : x >= 0))
  IN  [i \in DOMAIN s |-> IF i \in live THEN Mix(<<s[i], total>>) ELSE 0]

\* right is repeated over the lanes when it is a constant (length 1).
EwValue(mode, left, right) ==
  IF mode = SoftmaxMode THEN SoftmaxOf(left)
  ELSE [i \in DOMAIN left |->
          EwLane(mode, left[i], right[IF Len(right) = 1 THEN 1 ELSE i])]

-----------------------------------------------------------------------------
(* Matrix kernels.  A 512-row tile has two row groups, so that a result    *)
(* that is only partly there differs from the whole one.                   *)

Tile(matrix, row0, col0) == Mix(<<matrix, row0, col0>>)
GemmValue(w, x) == <<(w * x) % P, (w * x + w + 1) % P>>
ColumnsOf(x, col0) == Mix(Append(x, col0))

AddRows(a, b) == EwValue(AddMode, a, b)

\* W @ x over rowTiles x colTiles tiles, the partial products added.
MatVec(matrix, rowTiles, colTiles, x) ==
  LET partial(r, c) == GemmValue(Tile(matrix, r, c), ColumnsOf(x, c))
      rows(r) == FoldLeft(LAMBDA acc, c : AddRows(acc, partial(r, c)),
                          partial(r, 1), [i \in 1..(colTiles - 1) |-> i + 1])
  IN  <<Mix(Each(rowTiles, LAMBDA r : rows(r)))>>

\* One step of the recurrent update: the next state and the row it emits.
NextState(state, k, v, gates) == Mix(<<state, k, v, gates>>)
Emitted(state, q) == Mix(<<state, q>>)

-----------------------------------------------------------------------------
(* Operands and instructions.  A local of the host program is <<name, i>>. *)

Var(name) == [var |-> <<name, 0>>, part |-> 0]
VarAt(name, i) == [var |-> <<name, i>>, part |-> 0]
PartOf(name, i) == [var |-> <<name, 0>>, part |-> i]
LaneOf(name, i) == [var |-> <<name, 0>>, lane |-> i]
Const(n) == [const |-> n]
History(layer, tap) == [history |-> layer, tap |-> tap]

\* cpu is what the CPU branch of the same method computes for the same local.
Host(out, tag, args) ==
  [op |-> "host", out |-> <<out, 0>>, tag |-> tag, args |-> args,
   cpu |-> [fn |-> "host", tag |-> tag, args |-> args]]

EwTo(dest, mode, l, r) ==
  [op |-> "ew", out |-> dest, mode |-> mode, args |-> <<l, r>>]
Ew(out, mode, l, r) ==
  EwTo(<<out, 0>>, mode, l, r) @@ [cpu |-> [fn |-> "ew", mode |-> mode, args |-> <<l, r>>]]

New(owner) == [op |-> "new", owner |-> owner]

\* acc = acc + partial on the host, or through the token runtime's add.
HostAdd(dest, l, r) == <<[op |-> "hostew", out |-> dest, mode |-> AddMode, args |-> <<l, r>>]>>
RuntimeAdd(dest, l, r) == <<EwTo(dest, AddMode, l, r)>>

\* range(0, matrix.shape[0], 512), range(0, matrix.shape[1], in_cols): one
\* gemm per tile, the column tiles added into acc, the row tiles gathered.
Projection(path, Add(_, _, _), matrix, rowTiles, colTiles, x, out) ==
  LET gemm(r, c) ==
        [op |-> path, out |-> IF c = 1 THEN <<"acc", r>> ELSE <<"partial", 0>>,
         tile |-> <<matrix, r, c>>, args |-> <<[var |-> <<x, 0>>, part |-> c]>>]
      row(r) ==
        Each(colTiles, LAMBDA c :
          <<gemm(r, c)>> \o
            IF c = 1 THEN <<>>
            ELSE Add(<<"acc", r>>, VarAt("acc", r), Var("partial")))
  IN  Each(rowTiles, LAMBDA r : row(r))
        \o <<[op |-> "gather", out |-> <<out, 0>>,
              args |-> [r \in 1..rowTiles |-> VarAt("acc", r)],
              cpu |-> [fn |-> "matvec", matrix |-> matrix, rows |-> rowTiles,
                       cols |-> colTiles, args |-> <<Var(x)>>]]>>
=============================================================================
