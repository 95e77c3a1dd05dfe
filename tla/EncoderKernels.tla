--------------------------- MODULE EncoderKernels ---------------------------
(***************************************************************************)
(* The GPU kernels and operator helpers of vulkan_encoder_inproc.py, as    *)
(* functions of flat buffers, next to what the dispatches they replace     *)
(* compute.  Single precision is exact here and half() is a real rounding  *)
(* (three significant bits, ties to even), so where a value is rounded,    *)
(* and in which order a sum is formed, matters.  Sigmoid, exponential,     *)
(* inverse square root and mean are external and stand as arbitrary        *)
(* functions.  A buffer is a function on 0..size-1.                        *)
(***************************************************************************)
LOCAL INSTANCE Integers
LOCAL INSTANCE Sequences
LOCAL INSTANCE SequencesExt
LOCAL INSTANCE FiniteSets
LOCAL INSTANCE FiniteSetsExt

Mma   == 2    \* 8: side of a cooperative matrix
Tile  == 4    \* 32: side of a work group's tile, and its lanes
Block == 4    \* 16: k values of one partial

Ulp(v) == LET a == IF v < 0 THEN -v ELSE v
          IN  CHOOSE u \in {2 ^ e : e \in 0..12} : a <= 8 * u /\ (u = 1 \/ a > 4 * u)
Half(v) ==
  LET u == Ulp(v)  q == v \div u  r == v % u
  IN  IF 2 * r < u \/ (2 * r = u /\ q % 2 = 0) THEN u * q ELSE u * (q + 1)
Sigmoid(v) == (v * v + 3 * v) % 7
Rsqrt(v) == (v + 5) % 6
Mean(sum, n) == sum \div n
Silu(v) == v * Sigmoid(v)

SumOf(n, value(_)) == FoldLeft(LAMBDA a, i : a + value(i - 1), 0, [i \in 1..n |-> i])
CeilDiv(n, d) == (n + d - 1) \div d

\* What a set of stores <<address, value>> leaves in a buffer of the size;
\* <<>> when they do not write every address exactly once.
Stored(writes, size) ==
  IF {w[1] : w \in writes} = 0..(size - 1) /\ Cardinality(writes) = size
  THEN [a \in 0..(size - 1) |-> (CHOOSE w \in writes : w[1] = a)[2]]
  ELSE <<>>

-----------------------------------------------------------------------------
(* Linear.                                                                 *)

\* A slip: the partials are summed before they are rounded.
ChainUnrounded(partials, index, mn, blocks) ==
  Half(SumOf(blocks, LAMBDA b : partials[index + b * mn]))

\* The strictly sequential fp16 sum over the blocks of one element.
Chain(partials, index, mn, blocks) ==
  FoldLeft(LAMBDA acc, b : Half(acc + Half(partials[index + b * mn])),
           Half(partials[index]), [b \in 1..(blocks - 1) |-> b])

LeftoverChain(partials, rows, n, blocks) ==
  [index \in 0..(rows * n - 1) |-> Chain(partials, index, rows * n, blocks)]

\* One thread per pair of columns; the bias index comes from the pair.
LeftoverChainBias(partials, rows, n, blocks, bias) ==
  LET pairs == n \div 2
      store(index, lane) ==
        LET row == index \div pairs
            pair == index - row * pairs
            col == (row * pairs + pair) * 2 + lane
        IN  <<col, Half(Chain(partials, col, rows * pairs * 2, blocks) + bias[pair * 2 + lane])>>
  IN  Stored({store(i, lane) : i \in 0..(rows * pairs - 1), lane \in 0..1}, rows * n)

\* The same chain with the silu of the rounded sum, rounded again.
LeftoverChainBiasSilu(partials, rows, n, blocks, bias) ==
  LET sums == LeftoverChainBias(partials, rows, n, blocks, bias)
  IN  [i \in DOMAIN sums |-> Half(Silu(sums[i]))]

\* Every block's partial on the matrix unit, rounded once at the drain.
LinearF16Coopmat(lhs, rhs, rows, k, n) ==
  LET aStaged(y, z, step) ==
        [i \in 0..(Tile * Mma - 1) |->
           LET row == y * Tile + i \div Mma
           IN  IF row < rows THEN lhs[row * k + z * Block + step * Mma + (i % Mma)] ELSE 0]
      bStaged(x, z, step) ==
        [s \in 0..(Tile * Mma - 1) |->
           LET col == x * Tile + (s % Tile)
           IN  IF col < n THEN rhs[col * k + z * Block + step * Mma + s \div Tile] ELSE 0]
      acc(x, y, z, rb, cb, r, c) ==
        SumOf(Block \div Mma, LAMBDA step :
          LET a == aStaged(y, z, step)  b == bStaged(x, z, step)
          IN  SumOf(Mma, LAMBDA j : a[rb * Mma * Mma + r * Mma + j] * b[cb * Mma + j * Tile + c]))
      drained(x, y, z, rb, at) ==
        acc(x, y, z, rb, at \div (Mma * Mma), (at % (Mma * Mma)) \div Mma, at % Mma)
      groups == {g \in (0..(CeilDiv(n, Tile) - 1)) \X (0..(CeilDiv(rows, Tile) - 1))
                         \X (0..(k \div Block - 1)) : TRUE}
      threads == {t \in groups \X (0..(Tile \div Mma - 1)) \X (0..(Mma - 1)) \X (0..(Tile - 1)) :
                    /\ t[1][1] * Tile + t[4] < n
                    /\ t[1][2] * Tile + t[2] * Mma + t[3] < rows}
      store(t) ==
        LET x == t[1][1]  y == t[1][2]  z == t[1][3]  rb == t[2]  r == t[3]  lane == t[4]
        IN  <<z * rows * n + y * Tile * n + x * Tile + (rb * Mma + r) * n + lane,
              Half(drained(x, y, z, rb, (lane \div Mma) * Mma * Mma + r * Mma + (lane % Mma)))>>
  IN  Stored({store(t) : t \in threads}, (k \div Block) * rows * n)

\* xb @ wb of the fallback: the same partials in single precision.
BatchedMatmul(lhs, rhs, rows, k, n) ==
  [p \in 0..((k \div Block) * rows * n - 1) |->
     LET z == p \div (rows * n)  row == (p % (rows * n)) \div n  col == p % n
     IN  SumOf(Block, LAMBDA j : lhs[row * k + z * Block + j] * rhs[col * k + z * Block + j])]

\* apply of "linear": out, and whether the silu statement still has to run.
Linear(c) ==
  LET blocks == c.k \div Block
      partials == IF c.f16 THEN LinearF16Coopmat(c.lhs, c.rhs, c.rows, c.k, c.n)
                  ELSE BatchedMatmul(c.lhs, c.rhs, c.rows, c.k, c.n)
      plain == LeftoverChain(partials, c.rows, c.n, blocks)
  IN  IF c.fusion /\ c.biasKind = "f16" /\ c.n % 2 = 0
      THEN IF c.silu
           THEN [out |-> LeftoverChainBiasSilu(partials, c.rows, c.n, blocks, c.bias), siluLeft |-> FALSE]
           ELSE [out |-> LeftoverChainBias(partials, c.rows, c.n, blocks, c.bias),
                 siluLeft |-> FALSE]
      ELSE [out |-> [i \in DOMAIN plain |->
                       Half(plain[i] + IF c.biasKind = "none" THEN 0 ELSE c.bias[i % c.n])],
            siluLeft |-> c.silu]

\* _silu_kernel, one thread per element.
SiluKernel(src) == [i \in DOMAIN src |-> Half(Silu(src[i]))]

\* The chunk loop, dispatch by dispatch: a 16-wide product, its rounding, an
\* fp16 addition; the bias in single precision; the silu of the stored value.
LinearReference(c) ==
  [i \in 0..(c.rows * c.n - 1) |->
     LET partial(z) == Half(SumOf(Block, LAMBDA j :
                         c.lhs[(i \div c.n) * c.k + z * Block + j] * c.rhs[(i % c.n) * c.k + z * Block + j]))
         chain == FoldLeft(LAMBDA a, z : Half(a + partial(z)), partial(0),
                           [z \in 1..(c.k \div Block - 1) |-> z])
         biased == Half(chain + IF c.biasKind = "none" THEN 0 ELSE c.bias[i % c.n])
     IN  IF c.silu THEN Half(Silu(biased)) ELSE biased]

\* The linear statement and the silu statement behind it.
LinearSilu(c) ==
  LET r == Linear(c) IN IF r.siluLeft THEN SiluKernel(r.out) ELSE r.out

-----------------------------------------------------------------------------
(* Normalisation, softmax and pointwise kernels; width is 1024 or 375.     *)

RowSum(b, row, width) == SumOf(width, LAMBDA j : b[row * width + j])
RowMax(b, row, width) == Max({b[row * width + j] : j \in 0..(width - 1)})

LnCast(src) == [i \in DOMAIN src |-> src[i]]
LnSq(xf, mu, width) ==
  [i \in DOMAIN xf |-> LET t == xf[i] - mu[i \div width] IN t * t]
LnTail(xf, mu, va, ga, be, ep, width) ==
  [i \in DOMAIN xf |->
     Half((xf[i] - mu[i \div width]) * Rsqrt(va[i \div width] + ep) * ga[i % width] + be[i % width])]
LayerNorm(c) ==
  LET xf == LnCast(c.src)
      rowMeans(b) == [r \in 0..(c.rows - 1) |-> Mean(RowSum(b, r, c.width), c.width)]
      mean == rowMeans(xf)
      var == rowMeans(LnSq(xf, mean, c.width))
  IN  LnTail(xf, mean, var, c.gamma, c.beta, 1, c.width)
LayerNormReference(c) ==
  [i \in 0..(c.rows * c.width - 1) |->
     LET row == [j \in 0..(c.width - 1) |-> c.src[(i \div c.width) * c.width + j]]
         mu == Mean(SumOf(c.width, LAMBDA j : row[j]), c.width)
         va == Mean(SumOf(c.width, LAMBDA j : (row[j] - mu) * (row[j] - mu)), c.width)
         j == i % c.width
     IN  Half((row[j] - mu) * Rsqrt(va + 1) * c.gamma[j] + c.beta[j])]

\* exp is external; the quotient keeps numerator and denominator apart.
ExpOf(v) == ((v * v) % 11) + 1
SmExp(src, rmax, width) == [i \in DOMAIN src |-> ExpOf(src[i] - rmax[i \div width])]
SmDiv(expd, rsum, width) == [i \in DOMAIN expd |-> Half((100 * expd[i]) \div rsum[i \div width])]
Softmax(c) ==
  LET rmax == [r \in 0..(c.rows - 1) |-> RowMax(c.src, r, c.width)]
      e == SmExp(c.src, rmax, c.width)
  IN  SmDiv(e, [r \in 0..(c.rows - 1) |-> RowSum(e, r, c.width)], c.width)
SoftmaxReference(c) ==
  [i \in 0..(c.rows * c.width - 1) |->
     LET at(j) == c.src[(i \div c.width) * c.width + j]
         top == Max({at(j) : j \in 0..(c.width - 1)})
         e(j) == ExpOf(at(j) - top)
     IN  Half((100 * e(i % c.width)) \div SumOf(c.width, e))]

\* The gate of the fused kernel is rounded as the stored sigmoid was.
GluKernel(lhs, rhs) ==
  [i \in DOMAIN lhs |-> LET gate == Half(Sigmoid(rhs[i])) IN Half(lhs[i] * gate)]
SigmoidKernel(src) == [i \in DOMAIN src |-> Half(Sigmoid(src[i]))]

\* _pw: the layout of the right operand, NONE for a pair that is left to the
\* chain of dispatches.  Shapes are sequences.
Product(shape) == FoldLeft(LAMBDA a, d : a * d, 1, shape)
PwLayout(xs, ys) ==
  IF Product(ys) = 1 THEN "scalar"
  ELSE IF xs = ys THEN "flat"
  ELSE IF /\ Len(ys) = 4 /\ ys[1] = 1 /\ ys[2] = 1 /\ ys[4] = 1
          /\ Len(xs) = 4 /\ xs[1] = 1 /\ xs[3] = ys[3]
  THEN "row" ELSE "none"
Apply(op, a, b) == CASE op = "add" -> a + b [] op = "sub" -> a - b [] op = "mul" -> a * b

\* The element index is spread over x and y around the limit of one axis.
GridLimit == 5   \* 65535 * 256
PwKernel(op, layout, x, y, n, width, time) ==
  LET stride == IF n < GridLimit THEN n ELSE GridLimit
      threads == {t \in (0..(stride - 1)) \X (0..(CeilDiv(n, stride) - 1)) : t[1] + t[2] * stride < n}
      rhs(i) == CASE layout = "flat" -> y[i]
                  [] layout = "scalar" -> y[0]
                  [] layout = "row" -> y[(i \div width) % time]
      store(t) == LET i == t[1] + t[2] * stride IN <<i, Half(Apply(op, x[i], rhs(i)))>>
  IN  Stored({store(t) : t \in threads}, n)

\* Index of the element of y that broadcasting pairs with element i of x,
\* both of rank four.
RowMajor(s, j) == ((j[1] * s[2] + j[2]) * s[3] + j[3]) * s[4] + j[4]
Unravel(s, i) == <<i \div (s[2] * s[3] * s[4]), (i \div (s[3] * s[4])) % s[2], (i \div s[4]) % s[3], i % s[4]>>
Broadcast(xs, ys, i) ==
  RowMajor(ys, [d \in 1..4 |-> IF ys[d] = 1 THEN 0 ELSE Unravel(xs, i)[d]])
Pw(c) ==
  LET layout == PwLayout(c.xs, c.ys)
  IN  IF layout = "none" THEN <<>>
      ELSE PwKernel(c.op, layout, c.x, c.y, Product(c.xs), c.xs[4], c.ys[3])
PwReference(c) ==
  IF PwLayout(c.xs, c.ys) = "none" THEN <<>>
  ELSE [i \in 0..(Product(c.xs) - 1) |-> Half(Apply(c.op, c.x[i], c.y[Broadcast(c.xs, c.ys, i)]))]

-----------------------------------------------------------------------------
(* Convolution, padding and slicing.  A tensor is its shape and its        *)
(* elements by index sequence (axes from 0, as in the source).             *)

Indices(shape) ==
  {j \in [DOMAIN shape -> 0..Max(ToSet(shape) \cup {1}) - 1] : \A d \in DOMAIN shape : j[d] < shape[d]}
Tensor(shape, value(_)) == [shape |-> shape, at |-> [j \in Indices(shape) |-> value(j)]]

Transpose(t, perm) ==
  Tensor([d \in DOMAIN perm |-> t.shape[perm[d] + 1]],
         LAMBDA j : t.at[[d \in DOMAIN perm |-> j[CHOOSE e \in DOMAIN perm : perm[e] = d - 1]]])
ExpandDims(t, axis) ==
  Tensor(InsertAt(t.shape, axis + 1, 1), LAMBDA j : t.at[RemoveAt(j, axis + 1)])
Squeeze(t, axis) ==
  Tensor(RemoveAt(t.shape, axis + 1), LAMBDA j : t.at[InsertAt(j, axis + 1, 0)])
PadTensor(t, widths, value) ==
  LET from(j) == [d \in DOMAIN j |-> j[d] - widths[d][1]]
  IN  Tensor([d \in DOMAIN t.shape |-> widths[d][1] + t.shape[d] + widths[d][2]],
             LAMBDA j : IF from(j) \in DOMAIN t.at THEN t.at[from(j)] ELSE value)

\* pad: the pairs belong to the last axes, the leading axes are not padded.
PadWidths(pad, rank) ==
  LET pairs == [i \in 1..(Len(pad) \div 2) |-> <<pad[2 * i - 1], pad[2 * i]>>]
      kept == IF Len(pairs) > rank THEN SubSeq(pairs, Len(pairs) - rank + 1, Len(pairs)) ELSE pairs
  IN  [d \in 1..(rank - Len(kept)) |-> <<0, 0>>] \o kept

PadReference(c) ==
  LET n == Len(c.pad) \div 2
  IN  [d \in 1..c.rank |->
         LET fromEnd == c.rank - d
         IN  IF fromEnd < n THEN <<c.pad[2 * (n - fromEnd) - 1], c.pad[2 * (n - fromEnd)]>> ELSE <<0, 0>>]

\* mx.conv2d (external): NHWC input, OHWI weights, no padding of its own.
Conv2d(x, w, stride, groups) ==
  LET perGroup == w.shape[1] \div groups
      extent(d) == (x.shape[d] - w.shape[d]) \div stride[d - 1] + 1
  IN  Tensor(<<x.shape[1], extent(2), extent(3), w.shape[1]>>, LAMBDA j :
        SumOf(w.shape[2], LAMBDA ky : SumOf(w.shape[3], LAMBDA kx : SumOf(w.shape[4], LAMBDA i :
          x.at[<<j[1], j[2] * stride[1] + ky, j[3] * stride[2] + kx,
                 (j[4] \div perGroup) * w.shape[4] + i>>] * w.at[<<j[4], ky, kx, i>>]))))

\* The route that treats a pointwise convolution as a linear over time.
PointwiseForm(c) ==
  /\ Len(c.x.shape) = 3 /\ c.groups = 1 /\ c.strides = <<1>> /\ c.padType = "custom"
  /\ c.pad = <<0, 0>> /\ c.w.shape[3] = 1 /\ c.f16 /\ c.bias = <<>> /\ c.w.shape[2] % Block = 0
PointwiseConv(c) ==
  LET t == c.x.shape[3]  n == c.w.shape[1]  k == c.w.shape[2]
      rows == Transpose(c.x, <<0, 2, 1>>)
      lhs == [i \in 0..(t * k - 1) |-> rows.at[<<0, i \div k, i % k>>]]
      rhs == [i \in 0..(n * k - 1) |-> c.w.at[<<i \div k, i % k, 0>>]]
      out == LeftoverChain(LinearF16Coopmat(lhs, rhs, t, k, n), t, n, k \div Block)
  IN  Tensor(<<1, n, t>>, LAMBDA j : out[j[3] * n + j[2]])

ConvRefused(c) ==
  \/ Len(c.x.shape) \notin {3, 4} \/ c.padType \notin {"valid", "custom"}
  \/ \E d \in DOMAIN c.dilations : c.dilations[d] # 1
Lifted(c, t) == IF Len(c.x.shape) = 3 THEN ExpandDims(t, 2) ELSE t
ApplyConv(c) ==
  LET one == Len(c.x.shape) = 3
      strides == IF one THEN <<1, c.strides[1]>> ELSE c.strides
      pad == IF c.padType = "valid" THEN <<0, 0, 0, 0>> ELSE IF one THEN <<0, 0>> \o c.pad ELSE c.pad
      xp == PadTensor(Lifted(c, c.x), <<<<0, 0>>, <<0, 0>>, <<pad[1], pad[2]>>, <<pad[3], pad[4]>>>>, 0)
      conv == Transpose(Conv2d(Transpose(xp, <<0, 2, 3, 1>>), Transpose(Lifted(c, c.w), <<0, 2, 3, 1>>),
                               strides, c.groups), <<0, 3, 1, 2>>)
      biased == Tensor(conv.shape, LAMBDA j : Half(conv.at[j] + IF c.bias = <<>> THEN 0 ELSE c.bias[j[2]]))
  IN  IF PointwiseForm(c) THEN PointwiseConv(c)
      ELSE IF ConvRefused(c) THEN <<>>
      ELSE IF one THEN Squeeze(biased, 2) ELSE biased

\* MIL conv: NCHW, the sum over the kernel window of the output's group.
ConvReference(c) ==
  LET spatial == Len(c.x.shape) - 2
      pad(d) == IF c.padType = "valid" THEN <<0, 0>> ELSE <<c.pad[2 * d - 1], c.pad[2 * d]>>
      extent(d) == (pad(d)[1] + c.x.shape[d + 2] + pad(d)[2] - c.w.shape[d + 2]) \div c.strides[d] + 1
      shape == <<1, c.w.shape[1]>> \o [d \in 1..spatial |-> extent(d)]
      input(o, j, m) ==
        <<0, (o \div (c.w.shape[1] \div c.groups)) * c.w.shape[2] + m[2]>>
          \o [d \in 1..spatial |-> j[d + 2] * c.strides[d] + m[d + 2] - pad(d)[1]]
      taps(o) == {m \in DOMAIN c.w.at : m[1] = o}
      sum(j) == MapThenSumSet(LAMBDA m : IF input(j[2], j, m) \in DOMAIN c.x.at
                                         THEN c.x.at[input(j[2], j, m)] * c.w.at[m] ELSE 0, taps(j[2]))
  IN  IF ConvRefused(c) THEN <<>>
      ELSE Tensor(shape, LAMBDA j : Half(sum(j) + IF c.bias = <<>> THEN 0 ELSE c.bias[j[2]]))

\* apply_slice on one axis: the Python slice, or an index for a squeezed axis.
Wrapped(v, n) == Max({0, Min({n, IF v < 0 THEN v + n ELSE v})})
SliceAxis(c) ==
  LET start == IF c.beginMask THEN 0 ELSE Wrapped(c.begin, c.n)
      stop == IF c.endMask THEN c.n ELSE Wrapped(c.end, c.n)
  IN  IF c.squeeze THEN <<IF c.begin < 0 THEN c.begin + c.n ELSE c.begin>>
      ELSE [i \in 1..Max({0, CeilDiv(stop - start, c.step)}) |-> start + (i - 1) * c.step]
\* slice_by_index: from begin to before end in steps, a negative bound counts
\* from the end, a masked bound is the axis's own.
SliceReference(c) ==
  LET from == IF c.beginMask THEN 0 ELSE IF c.begin < 0 THEN c.begin + c.n ELSE c.begin
      to == IF c.endMask THEN c.n ELSE IF c.end < 0 THEN c.end + c.n ELSE c.end
  IN  IF c.squeeze THEN <<IF c.begin < 0 THEN c.begin + c.n ELSE c.begin>>
      ELSE SetToSortSeq({i \in 0..(c.n - 1) : i >= from /\ i < to /\ (i - from) % c.step = 0}, <)

-----------------------------------------------------------------------------
(* Program text: a sequence of character classes, "(" for every opening    *)
(* and ")" for every closing bracket, "q" for a quote, "s" for a blank.    *)

Strip(s) ==
  LET solid == {i \in DOMAIN s : s[i] # "s"}
  IN  IF solid = {} THEN <<>> ELSE SubSeq(s, Min(solid), Max(solid))

SplitTop(text) ==
  LET scan(st, i) ==
        IF st.quoted THEN [st EXCEPT !.quoted = (text[i] # "q")]
        ELSE IF text[i] = "q" THEN [st EXCEPT !.quoted = TRUE]
        ELSE IF text[i] = "(" THEN [st EXCEPT !.depth = @ + 1]
        ELSE IF text[i] = ")" THEN [st EXCEPT !.depth = @ - 1]
        ELSE IF text[i] = "," /\ st.depth = 0
        THEN [st EXCEPT !.out = Append(@, SubSeq(text, st.start, i - 1)), !.start = i + 1]
        ELSE st
      end == FoldLeft(scan, [out |-> <<>>, depth |-> 0, start |-> 1, quoted |-> FALSE],
                      [i \in DOMAIN text |-> i])
      tail == SubSeq(text, end.start, Len(text))
      items == IF Strip(tail) = <<>> THEN end.out ELSE Append(end.out, tail)
  IN  [i \in DOMAIN items |-> Strip(items[i])]

\* The commas outside quotes and brackets cut the text; a blank rest is no item.
SplitReference(text) ==
  LET quoted(i) == Cardinality({j \in 1..(i - 1) : text[j] = "q"}) % 2 = 1
      count(i, ch) == Cardinality({j \in 1..(i - 1) : text[j] = ch /\ ~quoted(j)})
      cuts == SetToSortSeq({i \in DOMAIN text : text[i] = "," /\ ~quoted(i)
                              /\ count(i, "(") = count(i, ")")}, <)
      ends == <<0>> \o cuts \o <<Len(text) + 1>>
      items == [i \in 1..(Len(ends) - 1) |-> Strip(SubSeq(text, ends[i] + 1, ends[i + 1] - 1))]
  IN  IF Last(items) = <<>> THEN Front(items) ELSE items

-----------------------------------------------------------------------------
(* Constants out of a blob file: a sequence of bytes with headers inside.  *)

Magic == 900
PayloadSpan(file, offset, want) ==
  IF file[offset + 1] # Magic \/ want > file[offset + 2] THEN -1 ELSE file[offset + 3]
ReadBytes(file, offset, want) ==
  LET from == PayloadSpan(file, offset, want)
  IN  IF from < 0 THEN <<>> ELSE SubSeq(file, from + 1, from + want)
\* dtype_view: the whole file as items, refused when it is not a whole number.
DtypeView(file, size) ==
  [i \in 0..(Len(file) \div size - 1) |-> SubSeq(file, i * size + 1, (i + 1) * size)]
EvalConst(c) ==
  LET payload == PayloadSpan(c.file, c.offset, c.count * c.size)
      items == [i \in 1..c.count |-> DtypeView(c.file, c.size)[payload \div c.size + i - 1]]
  IN  IF payload < 0 THEN <<>>
      ELSE IF payload % c.size # 0 THEN ReadBytes(c.file, c.offset, c.count * c.size)
      ELSE IF Len(c.file) % c.size # 0 THEN <<>>
      ELSE FlattenSeq(items)
\* The bytes behind the header, when it is a header of enough bytes.
ConstReference(c) ==
  LET payload == c.file[c.offset + 3]  want == c.count * c.size
  IN  IF \/ c.file[c.offset + 1] # Magic \/ want > c.file[c.offset + 2]
         \/ payload % c.size = 0 /\ Len(c.file) % c.size # 0
      THEN <<>> ELSE SubSeq(c.file, payload + 1, payload + want)
=============================================================================
