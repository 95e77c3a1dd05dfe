------------------------------ MODULE Qwen4Exp ------------------------------
(***************************************************************************)
(* The stateful parts of the qwen4_exp port and of its NumPy reference:    *)
(* the n-gram hash and its token context, the causal convolutions and      *)
(* their tails, the gated delta net in its chunked and recurrent forms,    *)
(* the block indexer over the key history, the routed experts and the      *)
(* interleaved rotary table.  A text reaches them as a sequence of calls;  *)
(* what a call keeps for the next one is an explicit state.                *)
(* Numbers are residues of GatedDelta's prime, words have WordBits bits.   *)
(***************************************************************************)
LOCAL INSTANCE Integers
LOCAL INSTANCE Sequences
LOCAL INSTANCE SequencesExt
LOCAL INSTANCE FiniteSets
LOCAL INSTANCE FiniteSetsExt
LOCAL INSTANCE Bitwise

GD == INSTANCE GatedDelta
M(v) == GD!M(v)

Mapped(n, value(_)) == <<>> \o [i \in 1..n |-> value(i)]
SumTo(n, value(_)) == FoldLeft(LAMBDA a, i : M(a + value(i)), 0, Mapped(n, LAMBDA i : i))
Fill(n, v) == Mapped(n, LAMBDA i : v)
\* The slice s[-n:], which for n = 0 is the whole sequence.
FromEnd(s, n) == IF n = 0 \/ n > Len(s) THEN s ELSE SubSeq(s, Len(s) - n + 1, Len(s))
MaxInt(a, b) == IF a > b THEN a ELSE b
MinInt(a, b) == IF a < b THEN a ELSE b
Text(calls) == FlattenSeq(calls)
CallStart(calls, n) == 1 + FoldLeft(LAMBDA a, call : a + Len(call), 0, SubSeq(calls, 1, n - 1))

-----------------------------------------------------------------------------
(* The n-gram hash.                                                        *)

WordBits == 12      \* the 64 bits of a word
Word == 2 ^ WordBits
MaxLong == 2 ^ (WordBits - 1) - 1
Gamma == 2531
LayerPrime == 1007

SplitMix(v) ==
  LET a == (v + Gamma) % Word
      b == ((a ^^ shiftR(a, 6)) * 1893) % Word
      d == ((b ^^ shiftR(b, 5)) * 2711) % Word
  IN  d ^^ shiftR(d, 6)

\* Odd multipliers no token overflows a signed word with.
HalfBound(vocab) == MaxInt(1, (MaxLong \div MaxInt(vocab, 1)) \div 2)
LayerMultipliers(c) ==
  Mapped(c.ngram, LAMBDA i :
    2 * (SplitMix(c.seed + LayerPrime * c.layer + Gamma * i) % HalfBound(c.vocab)) + 1)
\* The reference cuts the seed to a word before it mixes it.
BuildLayerMultipliers(c) ==
  Mapped(c.ngram, LAMBDA i :
    2 * (SplitMix((c.seed + LayerPrime * c.layer + Gamma * i) % Word) % HalfBound(c.vocab)) + 1)

IsPrime(v) ==
  /\ v >= 2
  /\ v % 2 = 0 => v = 2
  /\ v % 2 = 1 => \A d \in 3..v : d % 2 = 1 /\ d * d <= v => v % d # 0
NthPrimeAfter(start, count) ==
  FoldLeft(LAMBDA p, i : Min({q \in (p + 1)..(2 * p + 3) : IsPrime(q)}), start, Mapped(count, LAMBDA i : i))

NGramHeads(c) == (c.ngram - 1) * c.heads
HeadVocabSizes(c) ==
  Mapped(NGramHeads(c), LAMBDA h : NthPrimeAfter(c.base - 1, c.layer * NGramHeads(c) + h))
HeadOffsets(sizes) ==
  Mapped(Len(sizes), LAMBDA h : FoldLeft(LAMBDA a, s : a + s, 0, SubSeq(sizes, 1, h - 1)))
PaddedVocab(c, sizes) ==
  LET total == FoldLeft(LAMBDA a, s : a + s, 0, sizes)
  IN  ((total + c.divisor - 1) \div c.divisor) * c.divisor

\* shift_right_ignore_eos: the token shift places back in the same segment;
\* a segment ends with its end-of-text token.
ShiftRight(hist, shift, eos) ==
  Mapped(Len(hist), LAMBDA p :
    LET prevEos == Max({0} \cup {j \in 1..(p - 1) : hist[j] = eos})
        posInSeg == p - prevEos - 1
    IN  IF shift = 0 THEN hist[p]
        ELSE IF posInSeg >= shift /\ p - shift >= 1 THEN hist[p - shift] ELSE eos)

\* The row of the embedding each head looks up for a gram of tokens.
HeadIds(c, mults, sizes, gram) ==
  LET mixed(n) == FoldLeft(LAMBDA a, s : a ^^ (gram[s] * mults[s]), gram[1] * mults[1],
                           Mapped(n - 1, LAMBDA s : s + 1))
      offsets == HeadOffsets(sizes)
  IN  Mapped(NGramHeads(c), LAMBDA h : (mixed(2 + (h - 1) \div c.heads) % sizes[h]) + offsets[h])

\* One call: what it looks up, and the token context it leaves behind.
NGramCall(c, mults, sizes, previous, ids) ==
  LET history == previous \o ids
      shifted == Mapped(c.ngram, LAMBDA s : ShiftRight(history, s - 1, c.eos))
      tail == FromEnd(ids, c.ngram - 1)
  IN  [ids |-> Mapped(Len(ids), LAMBDA t :
                 HeadIds(c, mults, sizes, Mapped(c.ngram, LAMBDA s : shifted[s][Len(previous) + t]))),
       context |-> Fill(c.ngram - 1 - Len(tail), c.eos) \o tail]

NGramIds(c) ==
  LET mults == LayerMultipliers(c)
      sizes == HeadVocabSizes(c)
      Step(acc, call) ==
        LET r == NGramCall(c, mults, sizes, acc.context, call)
        IN  [ids |-> acc.ids \o r.ids, context |-> r.context]
      done == FoldLeft(Step, [ids |-> <<>>, context |-> Fill(c.ngram - 1, c.eos)], c.calls)
  IN  [ids |-> done.ids,
       inTable |-> \A t \in DOMAIN done.ids : \A h \in 1..NGramHeads(c) : done.ids[t][h] \in 0..(PaddedVocab(c, sizes) - 1),
       fits |-> \A i \in DOMAIN mults : (c.vocab - 1) * mults[i] <= MaxLong]

\* By definition: primes counted from the base, a table per head behind the
\* previous one, and for a token the gram of those before it in this call and
\* the one before it, up to an end of text.
TruePrimes(lo, hi) == {p \in lo..hi : p >= 2 /\ \A d \in 2..(p - 1) : p % d # 0}
SizeReference(c, index) ==
  CHOOSE p \in TruePrimes(c.base, c.base * 4 + 40) : Cardinality(TruePrimes(c.base, p)) = index
NGramReference(c) ==
  LET text == Text(c.calls)
      sizes == Mapped(NGramHeads(c), LAMBDA h : SizeReference(c, c.layer * NGramHeads(c) + h))
      mults == BuildLayerMultipliers(c)
      callOf(t) == Max({n \in DOMAIN c.calls : CallStart(c.calls, n) <= t})
      seen(t) == CallStart(c.calls, MaxInt(1, callOf(t) - 1))
      back(t, s) == IF \A j \in (t - s)..(t - 1) : j >= seen(t) /\ text[j] # c.eos
                    THEN text[t - s] ELSE c.eos
  IN  [ids |-> Mapped(Len(text), LAMBDA t : HeadIds(c, mults, sizes, Mapped(c.ngram, LAMBDA s : back(t, s - 1)))),
       inTable |-> TRUE, fits |-> TRUE]

-----------------------------------------------------------------------------
(* Causal convolutions over calls.                                         *)

Silu(v) == M(7 * v * v + v)

\* One output for every place the kernel fits.
CausalConv1d(x, weight, dilation) ==
  LET K == Len(weight)
  IN  Mapped(Len(x) - (K - 1) * dilation, LAMBDA i : SumTo(K, LAMBDA k : weight[k] * x[i + (k - 1) * dilation]))

\* The rows a call keeps for the next one: of the state it had and its own.
StateNotWritten(before, x, n) == before
ConvTail(before, x, n) == FromEnd(x, n)

\* The dilated convolution of the per-layer embedding: no state before the
\* first call, then at most stateLen rows of it.
ShortConv(c) ==
  LET stateLen == (Len(c.weight) - 1) * c.dilation
      Step(acc, call) ==
        LET x == acc.state \o call
            padded == FromEnd(Fill(stateLen, 0) \o x, stateLen + Len(call))
            out == CausalConv1d(padded, c.weight, c.dilation)
        IN  [out |-> acc.out \o Mapped(Len(out), LAMBDA i : Silu(out[i])), state |-> ConvTail(acc.state, x, stateLen)]
  IN  FoldLeft(Step, [out |-> <<>>, state |-> <<>>], c.calls).out

ShortConvReference(c) ==
  LET text == Text(c.calls)
      K == Len(c.weight)
      at(t) == IF t >= 1 THEN text[t] ELSE 0
  IN  Mapped(Len(text), LAMBDA t : Silu(SumTo(K, LAMBDA k : c.weight[k] * at(t - (K - k) * c.dilation))))

-----------------------------------------------------------------------------
(* The gated delta rule, one head: vectors by position, the state Dk x Dv. *)

Dot(x, y) == SumTo(Len(x), LAMBDA i : x[i] * y[i])
Scaled(x, f) == Mapped(Len(x), LAMBDA i : M(x[i] * f))
Plus(x, y) == Mapped(Len(x), LAMBDA i : M(x[i] + y[i]))
\* A vector of Dk numbers times the state.
Through(x, state) == Mapped(Len(state[1]), LAMBDA j : SumTo(Len(x), LAMBDA i : x[i] * state[i][j]))
Outer(x, y) == Mapped(Len(x), LAMBDA i : Scaled(y, x[i]))
AddState(s, r) == Mapped(Len(s), LAMBDA i : Plus(s[i], r[i]))
ScaleState(s, f) == Mapped(Len(s), LAMBDA i : Scaled(s[i], f))

\* 1 / sqrt(sum of squares + eps) is a fixed scatter of the sum.
L2Norm(x) == Scaled(x, M(Dot(x, x) * 3 + 2))
ReadoutScale == 5

RecurrentRule(h, initial) ==
  LET Step(acc, t) ==
        LET k == L2Norm(h.k[t])
            decayed == ScaleState(acc.state, h.decay[t])
            kvMem == Through(k, decayed)
            delta == Mapped(Len(kvMem), LAMBDA j : M((h.v[t][j] - kvMem[j]) * h.beta[t]))
            state == AddState(decayed, Outer(k, delta))
        IN  [out |-> Append(acc.out, Through(Scaled(L2Norm(h.q[t]), ReadoutScale), state)), state |-> state]
  IN  FoldLeft(Step, [out |-> <<>>, state |-> initial], Mapped(Len(h.k), LAMBDA t : t))

\* A X = B for a unit lower triangular A, by forward substitution.
SolveUnitLower(A, B) ==
  FoldLeft(LAMBDA X, i : Append(X, Mapped(Len(B[i]), LAMBDA j :
                                 M(B[i][j] - SumTo(i - 1, LAMBDA m : A[i][m] * X[m][j])))),
           <<>>, Mapped(Len(B), LAMBDA i : i))

\* The decay from behind position s up to position r, and from the start.
Decays(decay, s, r) == FoldLeft(LAMBDA a, d : M(a * d), 1, SubSeq(decay, s + 1, r))

\* One chunk of padded vectors, all at once.
Chunk(x, state) ==
  LET n == Len(x.k)
      pairwise(r, s) == IF s > r THEN 0 ELSE Decays(x.decay, s, r)
      Against(rows) == Mapped(n, LAMBDA r : Mapped(n, LAMBDA s : M(Dot(rows[r], x.k[s]) * pairwise(r, s))))
      kBeta == Mapped(n, LAMBDA r : Scaled(x.k[r], x.beta[r]))
      ut == Against(kBeta)
      intra == Against(x.q)
      newValues == SolveUnitLower(ut, Mapped(n, LAMBDA r : Scaled(x.v[r], x.beta[r])))
      kCumDecay == SolveUnitLower(ut, Mapped(n, LAMBDA r : Scaled(kBeta[r], Decays(x.decay, 0, r))))
      vNew == Mapped(n, LAMBDA r : Plus(newValues[r], Scaled(Through(kCumDecay[r], state), -1)))
      inter(r) == Through(Scaled(x.q[r], Decays(x.decay, 0, r)), state)
  IN  [out |-> Mapped(n, LAMBDA r :
                 Plus(inter(r), Mapped(Len(vNew[1]), LAMBDA j : SumTo(n, LAMBDA s : intra[r][s] * vNew[s][j])))),
       state |-> FoldLeft(LAMBDA a, r : AddState(a, Outer(Scaled(x.k[r], Decays(x.decay, r, n)), vNew[r])),
                          ScaleState(state, Decays(x.decay, 0, n)), Mapped(n, LAMBDA r : r))]

\* The text padded to whole chunks: no decay and no weight on what is padded.
ChunkRule(h, initial, size) ==
  LET T == Len(h.k)
      pad == (size - (T % size)) % size
      padded == [k |-> Mapped(T, LAMBDA t : L2Norm(h.k[t])) \o Fill(pad, Fill(Len(h.k[1]), 0)),
                 q |-> Mapped(T, LAMBDA t : Scaled(L2Norm(h.q[t]), ReadoutScale)) \o Fill(pad, Fill(Len(h.k[1]), 0)),
                 v |-> h.v \o Fill(pad, Fill(Len(h.v[1]), 0)),
                 beta |-> h.beta \o Fill(pad, 0), decay |-> h.decay \o Fill(pad, 1)]
      Part(i) == [f \in DOMAIN padded |-> SubSeq(padded[f], (i - 1) * size + 1, i * size)]
      Step(acc, i) == LET r == Chunk(Part(i), acc.state)
                      IN  [out |-> acc.out \o r.out, state |-> r.state]
      done == FoldLeft(Step, [out |-> <<>>, state |-> initial], Mapped((T + pad) \div size, LAMBDA i : i))
  IN  [out |-> SubSeq(done.out, 1, T), state |-> done.state]

-----------------------------------------------------------------------------
(* The gated delta net over calls: a token is the row of channels its      *)
(* projections give, DkHead numbers of q and of k, then those of each      *)
(* value head, and a gate pair (a, b) per value head.                      *)

DkHead == 2
DvHead == 2
ValueHeads == 2     \* share one key head
Channels == 2 * DkHead + ValueHeads * DvHead

\* The depthwise convolution with its K - 1 rows of state, then silu.
ConvRows(rows, weight) ==
  LET K == Len(weight[1])
      column(ch) == Mapped(Len(rows), LAMBDA i : rows[i][ch])
      out == Mapped(Channels, LAMBDA ch : CausalConv1d(column(ch), weight[ch], 1))
  IN  Mapped(Len(rows) - K + 1, LAMBDA i : Mapped(Channels, LAMBDA ch : Silu(out[ch][i])))
ConvState(c) == Fill(Len(c.weight[1]) - 1, Fill(Channels, 0))
ConvCall(c, state, call) == state \o Mapped(Len(call), LAMBDA t : call[t].row)

Part(row, from, n) == SubSeq(row, from + 1, from + n)
QueryOf(row) == Part(row, 0, DkHead)
KeyOf(row) == Part(row, DkHead, DkHead)
ValueOf(row, head) == Part(row, 2 * DkHead + (head - 1) * DvHead, DvHead)

\* The port: l2norm and the readout scale folded into q and k, then the
\* sequential rule over flat buffers with the state [head, Dv, Dk].
PortDelta(c, rows, call, state) ==
  LET S == Len(rows)
      flat(n, value(_)) == [i \in 0..(n - 1) |-> value(i)]
      queries == Mapped(S, LAMBDA t : Scaled(L2Norm(QueryOf(rows[t])), ReadoutScale))
      keys == Mapped(S, LAMBDA t : L2Norm(KeyOf(rows[t])))
      r == GD!GatedDeltaUpdate(
             [B |-> 1, T |-> S, Hk |-> 1, Dk |-> DkHead, Hv |-> ValueHeads, Dv |-> DvHead, vec |-> FALSE, mask |-> <<>>,
              q |-> flat(S * DkHead, LAMBDA i : queries[1 + i \div DkHead][1 + (i % DkHead)]),
              k |-> flat(S * DkHead, LAMBDA i : keys[1 + i \div DkHead][1 + (i % DkHead)]),
              v |-> flat(S * ValueHeads * DvHead, LAMBDA i :
                      rows[1 + i \div (ValueHeads * DvHead)][2 * DkHead + 1 + (i % (ValueHeads * DvHead))]),
              a |-> flat(S * ValueHeads, LAMBDA i : call[1 + i \div ValueHeads].a[1 + (i % ValueHeads)]),
              b |-> flat(S * ValueHeads, LAMBDA i : call[1 + i \div ValueHeads].b[1 + (i % ValueHeads)]),
              aLog |-> c.aLog, dtBias |-> c.dtBias, g |-> <<>>, state |-> state], FALSE)
      at(pairs, i) == (CHOOSE w \in pairs : w[1] = i)[2]
  IN  [out |-> Mapped(S, LAMBDA t : Mapped(ValueHeads, LAMBDA h :
                 Mapped(DvHead, LAMBDA d : at(r.y, ((t - 1) * ValueHeads + h - 1) * DvHead + d - 1)))),
       state |-> flat(ValueHeads * DvHead * DkHead, LAMBDA i : at(r.state, i))]

GatedDeltaNet(c) ==
  LET Step(acc, call) ==
        LET input == ConvCall(c, acc.conv, call)
            r == PortDelta(c, ConvRows(input, c.weight), call, acc.state)
        IN  [out |-> acc.out \o r.out, state |-> r.state, conv |-> ConvTail(acc.conv, input, Len(c.weight[1]) - 1)]
      done == FoldLeft(Step, [out |-> <<>>, state |-> <<>>, conv |-> ConvState(c)], c.calls)
  IN  [out |-> done.out,
       state |-> Mapped(ValueHeads, LAMBDA h : Mapped(DkHead, LAMBDA s : Mapped(DvHead, LAMBDA d :
                   done.state[((h - 1) * DvHead + d - 1) * DkHead + s - 1])))]

\* What a value head of the reference sees of the rows: q and k repeated.
HeadView(c, rows, call, h) ==
  LET S == Len(rows)
  IN  [q |-> Mapped(S, LAMBDA t : QueryOf(rows[t])), k |-> Mapped(S, LAMBDA t : KeyOf(rows[t])),
       v |-> Mapped(S, LAMBDA t : ValueOf(rows[t], h)), beta |-> Mapped(S, LAMBDA t : GD!Sigmoid(call[t].b[h])),
       decay |-> Mapped(S, LAMBDA t : GD!ComputeG(c.aLog[h - 1], call[t].a[h], c.dtBias[h - 1]))]
ZeroState == Fill(DkHead, Fill(DvHead, 0))
ByToken(S, parts) == Mapped(S, LAMBDA t : Mapped(ValueHeads, LAMBDA h : parts[h].out[t]))

\* The reference: one token takes the recurrent rule and needs a state, more
\* take the chunked one.  A first call of one token has no state to read.
RefGatedDeltaNet(c) ==
  LET Step(acc, call) ==
        LET input == ConvCall(c, acc.conv, call)
            rows == ConvRows(input, c.weight)
            parts == Mapped(ValueHeads, LAMBDA h :
                       LET view == HeadView(c, rows, call, h)
                       IN  IF Len(call) = 1 THEN RecurrentRule(view, acc.state[h])
                           ELSE ChunkRule(view, acc.state[h], c.chunk))
        IN  [out |-> acc.out \o ByToken(Len(call), parts), state |-> Mapped(ValueHeads, LAMBDA h : parts[h].state),
             conv |-> ConvTail(acc.conv, input, Len(c.weight[1]) - 1)]
      done == FoldLeft(Step, [out |-> <<>>, state |-> Fill(ValueHeads, ZeroState), conv |-> ConvState(c)], c.calls)
  IN  IF Len(c.calls[1]) = 1 THEN <<>> ELSE <<[out |-> done.out, state |-> done.state]>>

\* The rule applied to the whole text, token by token.
DeltaNetReference(c) ==
  LET text == Text(c.calls)
      rows == ConvRows(ConvCall(c, ConvState(c), text), c.weight)
      parts == Mapped(ValueHeads, LAMBDA h : RecurrentRule(HeadView(c, rows, text, h), ZeroState))
  IN  [out |-> ByToken(Len(text), parts), state |-> Mapped(ValueHeads, LAMBDA h : parts[h].state)]

\* The NumPy code cannot begin with one token.
RefDeltaNetReference(c) == IF Len(c.calls[1]) = 1 THEN <<>> ELSE <<DeltaNetReference(c)>>

-----------------------------------------------------------------------------
(* The block indexer.  A token has one small vector per index head and a   *)
(* raw key.  Scores are integers, -1 stands for minus infinity.            *)

Cos(p) == 1 + (p % 2)
Sin(p) == (p % 3) - 1
\* The half rotation of the first two numbers of three.
RopePartial(x, p) == <<x[1] * Cos(p) - x[2] * Sin(p), x[2] * Cos(p) + x[1] * Sin(p), x[3]>>
\* The layer norm stands for a fixed map that mixes the numbers of a vector.
LayerNorm3(x) == <<x[1] - x[2], x[2] + x[3], x[3] + 2 * x[1]>>
Dot3(x, y) == x[1] * y[1] + x[2] * y[2] + x[3] * y[3]

\* Positions count from 0.  The mean of a block is its sum.
Pooled(raw, block, cr) ==
  LET sum == FoldLeft(LAMBDA a, k : <<a[1] + k[1], a[2] + k[2], a[3] + k[3]>>, <<0, 0, 0>>,
                      SubSeq(raw, block * cr + 1, (block + 1) * cr))
  IN  RopePartial(LayerNorm3(sum), block * cr)
Score(token, position, raw, block, cr) ==
  FoldLeft(LAMBDA a, q : a + MaxInt(0, Dot3(RopePartial(LayerNorm3(q), position), Pooled(raw, block, cr))),
           0, token.queries)

\* argpartition: any k of the best.
TopSets(score, k) ==
  {S \in SUBSET DOMAIN score : Cardinality(S) = k /\ \A a \in S, b \in DOMAIN score \ S : score[a] >= score[b]}
BlockTokens(S, cr) == UNION {(b * cr)..(b * cr + cr - 1) : b \in S}

\* All queries of a call at once over every complete block of the history;
\* there is no mask when there is no complete block.
QSAIndexer(c, call, raw, offset) ==
  LET KV == offset + Len(call)
      NB == KV \div c.cr
      score(i) == [b \in 0..(NB - 1) |->
                    IF (b + 1) * c.cr <= offset + i THEN Score(call[i], offset + i - 1, raw, b, c.cr) ELSE -1]
      tail(i) == (((offset + i) \div c.cr) * c.cr)..(offset + i - 1)
  IN  IF NB = 0 THEN <<>>
      ELSE Mapped(Len(call), LAMBDA i :
             {BlockTokens(S, c.cr) \cup tail(i) : S \in TopSets(score(i), MinInt(c.budget \div c.cr, NB))})

\* One call of the attention layer: the raw keys are appended before the
\* indexer looks, keys are rotated at their absolute positions and cached.
\* A mask for several tokens has no columns for the history: only a first
\* call may have more than one.
AttentionCall(c, acc, call) ==
  LET raw == acc.raw \o Mapped(Len(call), LAMBDA i : call[i].key)
      keys == acc.keys \o Mapped(Len(call), LAMBDA i : <<call[i].key, acc.offset + i - 1>>)
      masks == QSAIndexer(c, call, raw, acc.offset)
      causal(i) == IF Len(call) > 1 THEN 0..(i - 1) ELSE 0..acc.offset
      attended(i) == {{keys[t + 1] : t \in sel \cap causal(i)} : sel \in masks[i]}
  IN  IF masks = <<>> \/ (Len(call) > 1 /\ acc.offset > 0) THEN [acc EXCEPT !.failed = TRUE]
      ELSE [acc EXCEPT !.raw = raw, !.keys = keys, !.offset = @ + Len(call),
                       !.out = @ \o Mapped(Len(call), attended)]
QSAAttention(c) ==
  FoldLeft(LAMBDA acc, call : IF acc.failed THEN acc ELSE AttentionCall(c, acc, call),
           [raw |-> <<>>, keys |-> <<>>, offset |-> 0, out |-> <<>>, failed |-> FALSE], c.calls).out

\* The reference: query by query over the blocks that query sees whole.
RefIndexer(c, token, position, raw) ==
  LET vis == position + 1
      ncb == vis \div c.cr
      score == [b \in 0..(ncb - 1) |-> Score(token, position, raw, b, c.cr)]
  IN  {BlockTokens(S, c.cr) \cup (ncb * c.cr)..(vis - 1) : S \in TopSets(score, MinInt(c.budget \div c.cr, ncb))}
RefAttentionCall(c, acc, call) ==
  LET raw == acc.raw \o Mapped(Len(call), LAMBDA i : call[i].key)
      keys == acc.keys \o Mapped(Len(call), LAMBDA i : <<call[i].key, acc.offset + i - 1>>)
      causal(i) == 0..(acc.offset + i - 1)
      attended(i) == {{keys[t + 1] : t \in sel \cap causal(i)} : sel \in RefIndexer(c, call[i], acc.offset + i - 1, raw)}
  IN  [acc EXCEPT !.raw = raw, !.keys = keys, !.offset = @ + Len(call), !.out = @ \o Mapped(Len(call), attended)]
RefAttention(c) ==
  FoldLeft(LAMBDA acc, call : RefAttentionCall(c, acc, call), [raw |-> <<>>, keys |-> <<>>, offset |-> 0, out |-> <<>>], c.calls).out

\* What a token may attend to depends on the text alone.
AttentionReference(c) ==
  LET text == Text(c.calls)
      raw == Mapped(Len(text), LAMBDA t : text[t].key)
  IN  Mapped(Len(text), LAMBDA t :
        {{<<raw[p + 1], p>> : p \in sel} : sel \in RefIndexer(c, text[t], t - 1, SubSeq(raw, 1, t))})
\* The tokens before the first call the port cannot run: a first call of less
\* than a block, a later one of several tokens.
AnsweredReference(c) ==
  LET bad == {n \in DOMAIN c.calls : IF n = 1 THEN Len(c.calls[1]) < c.cr ELSE Len(c.calls[n]) > 1}
      answered == IF bad = {} THEN Len(Text(c.calls)) ELSE CallStart(c.calls, Min(bad)) - 1
  IN  SubSeq(AttentionReference(c), 1, answered)

-----------------------------------------------------------------------------
(* The routed experts; hidden size 1, the rows of gate_up first the gate.  *)

Reciprocal(v) == IF M(v) = 0 THEN 0 ELSE CHOOSE w \in 1..(GD!Modulus - 1) : M(v * w) = 1
\* sanitize splits the rows of an expert in two halves.
SplitExpert(e) ==
  LET I == Len(e.gateUp) \div 2
  IN  [gate |-> SubSeq(e.gateUp, 1, I), up |-> SubSeq(e.gateUp, I + 1, Len(e.gateUp)), down |-> e.down]
Glu(w, x) == SumTo(Len(w.gate), LAMBDA i : w.down[i] * M(Silu(M(w.gate[i] * x)) * M(w.up[i] * x)))
SparseMoe(c) ==
  LET top == CHOOSE S \in TopSets(c.logits, c.k) : TRUE
      prob(e) == GD!Exp(c.logits[e])
      total == FoldSet(LAMBDA e, a : M(a + prob(e)), 0, top)
      weight(e) == IF c.normTopk THEN M(prob(e) * Reciprocal(total)) ELSE prob(e)
      y == FoldSet(LAMBDA e, a : M(a + Glu(SplitExpert(c.experts[e]), c.x) * weight(e)), 0, top)
  IN  M(y + GD!Sigmoid(M(c.sharedGate * c.x)) * Glu(c.shared, c.x))
\* argsort of the negated probabilities, the first k, one after the other.
RefMoe(c) ==
  LET order == SortSeq(Mapped(Len(c.logits), LAMBDA e : e), LAMBDA a, b : c.logits[a] > c.logits[b])
      total == SumTo(c.k, LAMBDA j : GD!Exp(c.logits[order[j]]))
      I(e) == Len(c.experts[e].gateUp) \div 2
      row(e, i) == M(c.experts[e].gateUp[i] * c.x)
      expert(e) == SumTo(I(e), LAMBDA i : c.experts[e].down[i] * M(Silu(row(e, i)) * row(e, I(e) + i)))
      out == SumTo(c.k, LAMBDA j : expert(order[j]) * M(GD!Exp(c.logits[order[j]]) * Reciprocal(total)))
  IN  M(out + GD!Sigmoid(M(c.sharedGate * c.x)) * Glu(c.shared, c.x))

-----------------------------------------------------------------------------
\* _recompose: every third slot of the time grid from the height grid, and
\* the one behind it from the width grid, each from its own start.
Recompose(freq, section) ==
  LET Put(out, dim) ==
        LET slots == {s \in DOMAIN out : s - 1 < section[dim + 1] * 3 /\ s - 1 >= dim /\ (s - 1 - dim) % 3 = 0}
        IN  Mapped(Len(out), LAMBDA s : IF s \in slots THEN freq[dim + 1][1 + (s - 1 - dim) \div 3] ELSE out[s])
  IN  FoldLeft(Put, freq[1], <<1, 2>>)
\* Slot by slot.
RecomposeReference(freq, section) ==
  Mapped(Len(freq[1]), LAMBDA s :
    LET grid == (s - 1) % 3
    IN  IF grid = 0 \/ (s - 1) \div 3 >= section[grid + 1] THEN freq[1][s] ELSE freq[grid + 1][1 + (s - 1) \div 3])
=============================================================================
