---- MODULE MCAlgorithms ----
(* Bounded inputs for Algorithms.                                           *)
EXTENDS Algorithms, Integers, Sequences, SequencesExt, FiniteSets

\* A fixed scatter of small numbers.
V(seed, i) == ((i * i + 3 * i + 5 * seed) % 13) - 6
Buffer(seed, n) == [i \in 0..(n - 1) |-> V(seed, i)]

MCLinearCases ==
  {[rows |-> rows, k |-> k, n |-> n, lhs |-> Buffer(1, rows * k), rhs |-> Buffer(2, n * k),
    bias |-> Buffer(3, n), biasKind |-> b, fusion |-> fusion, silu |-> silu, f16 |-> f16] :
      rows \in {1, 5}, k \in {4, 12}, n \in {1, 6}, b \in {"none", "f16", "f32"},
      fusion \in BOOLEAN, silu \in BOOLEAN, f16 \in BOOLEAN}

MCRowCases ==
  {[rows |-> rows, width |-> w, src |-> Buffer(seed, rows * w),
    gamma |-> Buffer(seed + 1, w), beta |-> Buffer(seed + 2, w)] :
      rows \in 1..3, w \in {2, 3}, seed \in 1..3}

PwShapes == {<<1, 2, 3, 2>>, <<1, 1, 3, 1>>, <<1, 1, 1, 1>>, <<1, 2, 1, 1>>}
MCPwCases ==
  {[op |-> op, xs |-> xs, ys |-> ys, x |-> Buffer(1, Product(xs)), y |-> Buffer(2, Product(ys))] :
     op \in {"add", "sub", "mul"}, xs \in PwShapes, ys \in PwShapes}

Small(seed, j) == ((FoldLeft(LAMBDA a, d : 2 * a + d, seed, j) + seed) % 3) - 1
Data(seed, shape) == Tensor(shape, LAMBDA j : Small(seed, j))
ConvCase(xs, ws, strides, pad, padType, groups, bias, f16, dil) ==
  [x |-> Data(1, xs), w |-> Data(2, ws), strides |-> strides, pad |-> pad, padType |-> padType,
   groups |-> groups, bias |-> bias, f16 |-> f16, dilations |-> dil]
SomeBias == [o \in 0..3 |-> 2 * o - 1]
MCConvCases ==
  {ConvCase(<<1, 4, t>>, <<n, 4, 1>>, <<1>>, <<0, 0>>, "custom", 1, b, f16, <<1>>) :
     t \in {1, 5}, n \in {2, 3}, b \in {<<>>, SomeBias}, f16 \in BOOLEAN}
  \cup {ConvCase(<<1, 4, 4>>, <<4, 1, 3>>, <<s>>, <<1, 2>>, p, 4, b, TRUE, <<d>>) :
          s \in 1..2, p \in {"custom", "valid", "same"}, b \in {<<>>, SomeBias}, d \in 1..2}
  \cup {ConvCase(<<1, 2, 3, 4>>, <<4, 2 \div g, 2, 3>>, <<sy, sx>>, <<1, 0, 2, 1>>, p, g, SomeBias, TRUE,
                 <<1, 1>>) : sy \in 1..2, sx \in 1..2, p \in {"custom", "valid"}, g \in 1..2}

MCPadCases ==
  {[pad |-> [i \in 1..(2 * n) |-> i], rank |-> rank] : n \in 1..4, rank \in 2..4}

MCSliceCases ==
  {[n |-> 4, begin |-> b, end |-> e, beginMask |-> bm, endMask |-> em, squeeze |-> sq, step |-> s] :
     b \in {-4, -2, 0, 1, 3}, e \in {-3, -1, 2, 4}, bm \in BOOLEAN, em \in BOOLEAN,
     sq \in BOOLEAN, s \in 1..2}

MCSplitCases == UNION {[1..n -> {"q", "(", ")", ",", "a", "s"}] : n \in 1..4}

BlobFile(magic, length, payload, n) ==
  <<77, magic, length, payload>> \o [i \in 1..(n - 4) |-> 100 + i]
MCConstCases ==
  {[file |-> BlobFile(m, 6, p, n), offset |-> 1, count |-> c, size |-> s] :
     m \in {Magic, 5}, p \in 4..6, n \in 12..13, c \in 1..4, s \in 1..2}

\* Residues of small numbers, and of the nearest score to either limit.
R(v) == v % EM!Prime
Residues(seed, n) == [i \in 1..n |-> R(V(seed, i))]
MCScoreCases ==
  {Residues(seed, 8) : seed \in 1..12}
  \cup {[i \in 1..8 |-> R(IF i = k THEN d ELSE 0)] : k \in 1..8, d \in {-64, -65, 64, 65}}
MCScoreRowCases == UNION {[1..t -> {R(-2), 0, 3}] : t \in {1, 2, 4}}
MCActivationCases ==
  {[flat |-> [i \in 1..n |-> R(V(seed, i) * k)], multiplier |-> m, multiplyInput |-> b] :
     seed \in 1..3, n \in {1, 4, 6, 8}, k \in {1, 4}, m \in {<<>>, Residues(7, 8)}, b \in BOOLEAN}
MCDecayCases ==
  {[alpha |-> Residues(seed, n), bias |-> Residues(seed + 4, n),
    aLog |-> [i \in 1..n |-> R(IF i = n THEN last ELSE -i)]] :
     seed \in 1..4, n \in {1, 4, 6}, last \in {-3, 0, 2}}
MCRopeCases ==
  {[row |-> Residues(seed, w), cosine |-> Residues(seed + 1, h), sine |-> Residues(seed + 2, h)] :
     seed \in 1..4, w \in {4, 6}, h \in {1, 2}}
\* Rows whose sum of squares their length divides, and whose length is refused.
NormRows == {<<1, 1, 1, 1>>, <<3, 1, 1, 1>>, <<2, 2, 2, 2, 2, 2, 2, 2>>, <<1, 3, 5, 7, 9, 1, 3, 5>>,
             <<0, 0, 0, 0>>, <<1, 1>>, [i \in 1..20 |-> 1]}
MCNormCases ==
  {[row |-> row, weight |-> w, eps |-> eps, mean |-> mean, scale |-> scale] :
     row \in NormRows, w \in {<<>>, Residues(5, 20)}, eps \in {1, 3}, mean \in BOOLEAN, scale \in {1, 5}}

\* Batches, grouped heads, several lanes per thread, scalar and vector gates,
\* every mask of a single batch and some of two.
Tn(seed, n) == [i \in 0..(n - 1) |-> V(seed, i)]
Masks(b, t) == {<<>>} \cup (IF b = 1 THEN [0..(t - 1) -> BOOLEAN]
                            ELSE {[i \in 0..(b * t - 1) |-> i % 3 = k] : k \in 0..2})
MCGatedCases ==
  UNION {{[B |-> b, T |-> t, Hk |-> hk, Dk |-> dk, Hv |-> hk * r, Dv |-> 2, vec |-> vec, mask |-> mask,
     q |-> Tn(1, b * t * hk * dk), k |-> Tn(2, b * t * hk * dk), v |-> Tn(3, b * t * hk * r * 2),
     a |-> Tn(4, b * t * hk * r), b |-> Tn(5, b * t * hk * r), aLog |-> Tn(6, hk * r), dtBias |-> Tn(7, hk * r),
     g |-> Tn(8, b * t * hk * r * dk),
     state |-> IF vec THEN Tn(9, b * hk * r * 2 * dk) ELSE <<>>] : mask \in Masks(b, t)} :
        b \in 1..2, t \in 1..3, hk \in 1..2, r \in 1..2, dk \in {2, 4}, vec \in BOOLEAN}

-----------------------------------------------------------------------------
\* A text cut into calls in every way.
RECURSIVE Cuts(_)
Cuts(n) == IF n = 0 THEN {<<>>} ELSE UNION {{<<k>> \o rest : rest \in Cuts(n - k)} : k \in 1..n}
CallsOf(text, cut) ==
  [i \in DOMAIN cut |->
    LET before == FoldLeft(LAMBDA a, k : a + k, 0, SubSeq(cut, 1, i - 1))
    IN  SubSeq(text, before + 1, before + cut[i])]
CallsFor(texts) == UNION {{CallsOf(text, cut) : cut \in Cuts(Len(text))} : text \in texts}

\* Token 0 ends a text.
MCGramCases ==
  {[ngram |-> g, heads |-> h, base |-> b, layer |-> l, seed |-> 9, vocab |-> v, divisor |-> 8, eos |-> 0, calls |-> calls] :
     g \in {3}, h \in {2}, b \in {11}, l \in {1}, v \in {5},
     calls \in CallsFor({<<1, 2, 3, 4>>, <<3, 0, 1, 2>>, <<2, 4, 0, 0>>})}
  \cup {[ngram |-> g, heads |-> h, base |-> b, layer |-> l, seed |-> s, vocab |-> v, divisor |-> 8, eos |-> 0,
          calls |-> << <<1, 4, 2>>, <<3>> >>] :
          g \in 2..4, h \in 1..2, b \in {2, 14}, l \in 0..1, s \in {0, 4090}, v \in {5, 300, 2047}}
MCConvCallCases ==
  {[weight |-> [i \in 1..k |-> V(k, i)], dilation |-> d, calls |-> calls] :
     k \in 1..3, d \in 1..2, calls \in CallsFor({[i \in 1..6 |-> V(4, i)]})}
DeltaToken(i) == [row |-> [ch \in 1..Q4!Channels |-> V(i, ch)], a |-> <<V(2, i), V(3, i)>>, b |-> <<V(4, i), V(5, i)>>]
MCDeltaNetCases ==
  {[weight |-> [ch \in 1..Q4!Channels |-> [j \in 1..k |-> V(ch, j)]], chunk |-> n, calls |-> calls,
    aLog |-> [h \in 0..1 |-> h + 1], dtBias |-> [h \in 0..1 |-> 3 * h - 1]] :
     k \in 2..3, n \in 2..3, calls \in CallsFor({[i \in 1..5 |-> DeltaToken(i)]})}
IndexToken(i, s) ==
  [key |-> <<((i * i + s) % 5) - 2, ((i + s) % 3) - 1, ((2 * i + s) % 4) - 1>>,
   queries |-> << <<((i + 2 * s) % 3) - 1, 1, i % 2>>, <<1, ((i * s) % 3) - 1, -1>> >>]
MCIndexCases ==
  {[cr |-> cr, budget |-> b * cr, calls |-> calls] :
     cr \in 2..3, b \in 1..2, calls \in CallsFor({[i \in 1..6 |-> IndexToken(i, s)] : s \in 1..3})}
MCExpertCases ==
  {[logits |-> [e \in 1..4 |-> (3 * e + s) % 7], k |-> k, x |-> x, sharedGate |-> 3, normTopk |-> TRUE,
    experts |-> [e \in 1..4 |-> [gateUp |-> [i \in 1..4 |-> V(e, i)], down |-> <<V(e, 7), V(e, 8)>>]],
    shared |-> [gate |-> <<2, 5>>, up |-> <<7, 1>>, down |-> <<3, 4>>]] :
     s \in 0..6, k \in 1..3, x \in {1, 5, 100}}
MCRotaryCases ==
  {[freq |-> [g \in 1..3 |-> [s \in 1..n |-> 100 * g + s]], section |-> <<a, b, d>>] :
     n \in 1..8, a \in {2}, b \in 0..3, d \in 0..3}

-----------------------------------------------------------------------------
\* Chains of chunks: a group start, the state block, a middle program that
\* hands the residual on as x, and a chunk final.
LaneSrc(l) == [kind |-> "lane", lane |-> l]
CtxSrcs == <<[kind |-> "ctx", lane |-> "oh"], [kind |-> "ctx", lane |-> "inv"], [kind |-> "ctx", lane |-> "mask"],
             [kind |-> "ctx", lane |-> "cosp"], [kind |-> "ctx", lane |-> "sinp"]>>
StateSrc == [kind |-> "state_in", lane |-> "state0"]
Prog(srcs, dsts, states, start, end) ==
  [srcs |-> srcs, dsts |-> dsts, states |-> states, start |-> start, end |-> end]
ProgA == Prog(<<LaneSrc("x")>>, <<"q", "z">>, 0, TRUE, FALSE)
ProgB == Prog(<<LaneSrc("q"), StateSrc>>, <<"o">>, 1, FALSE, FALSE)
ProgE == Prog(<<LaneSrc("x"), LaneSrc("o"), LaneSrc("z")>>, <<"x", "q", "z">>, 0, FALSE, FALSE)
ProgD == Prog(<<LaneSrc("q"), StateSrc>> \o CtxSrcs, <<"o">>, 1, FALSE, FALSE)
ProgF == Prog(<<LaneSrc("x"), LaneSrc("o"), LaneSrc("z")>>, <<"h">>, 0, FALSE, TRUE)
Chunk1 == <<ProgA, ProgB, ProgF>>
Chunk2 == <<ProgA, ProgB, ProgE, ProgD, ProgF>>
OneChunk == {Chunk1, Chunk2, <<ProgA, ProgD, ProgE, ProgB, ProgF>>}
TwoChunks == {a \o b : a \in {Chunk2, Chunk1}, b \in {Chunk2}}
Texts(n) == UNION {[1..k -> 0..2] : k \in 1..n}
LaneCase(man, ids) == [man |-> man, ids |-> ids, maxLen |-> 4, dh |-> 6, rd |-> 4]
MCLaneCases == {LaneCase(man, ids) : man \in OneChunk, ids \in Texts(3)}
MCChunkLanes == {LaneCase(man, ids) : man \in TwoChunks, ids \in Texts(2)}
MCClosureCases == {LaneCase(man, <<1>>) : man \in UNION {[1..n -> {ProgA, ProgB, ProgE, ProgF}] : n \in 1..4}}
MCGenerateCases ==
  {[man |-> man, ids |-> ids, maxLen |-> m, dh |-> 6, rd |-> 4, new |-> n] :
     man \in OneChunk \cup TwoChunks, ids \in {<<1>>, <<2, 0>>, <<0, 1, 4>>}, m \in 3..5, n \in 0..3}
Tampers(man) ==
  {[where |-> "none", prog |-> 1, slot |-> 1, how |-> "value"]}
  \cup {[where |-> "first", prog |-> 1, slot |-> 1, how |-> f] : f \in {"state", "blockOut", "x"}}
  \cup UNION {{[where |-> "srcs", prog |-> i, slot |-> j, how |-> h] : j \in DOMAIN man[i].srcs, h \in {"value", "short"}}
               \cup {[where |-> "dsts", prog |-> i, slot |-> j, how |-> h] : j \in DOMAIN man[i].dsts,
                                                                            h \in {"value", "short"}} : i \in DOMAIN man}
MCVerifyCases ==
  UNION {{[man |-> man, ids |-> ids, maxLen |-> 4, dh |-> 6, rd |-> 4, tamper |-> t] : t \in Tampers(man)} :
            man \in TwoChunks, ids \in {<<1>>, <<2, 0, 1>>}}
MCRowWindowCases ==
  {[array |-> [i \in 1..SF!Product(sh) |-> i], shape |-> sh, window |-> SF!StagedWindow(sh) + extra] :
     sh \in {<<2, 3>>, <<3, 1, 2>>, <<2, 4>>, <<1, 1, 5>>, <<2, 2, 1>>, <<2, 6>>}, extra \in {0, 4, 8}}

\* Two or three tasks in every link order; totals that the manifest knows,
\* and some that it does not.
TaskOf(fields, totals, payload) == [fields |-> fields, totals |-> totals, payload |-> payload]
TaskSets ==
  {<<TaskOf(<<5, 0, 4, 1>>, <<a>>, 3), TaskOf(<<4, 5, b, 0>>, <<8, 16>>, p)>> : a \in {8, 12, 80}, b \in {6, 3}, p \in {3, 12}}
  \cup {<<TaskOf(<<5, 0, 4, 0>>, <<12>>, 1), TaskOf(<<4, 7, 6, 5>>, <<a>>, 1), TaskOf(<<6, 0, 7, 0>>, <<8>>, 2)>> : a \in {8, 12, 80}}
OrdersOf(n) == {o \in [1..n -> 1..n] : o[1] = 1 /\ \A i, j \in 1..n : i # j => o[i] # o[j]}
MCWindowCases ==
  UNION {{[tasks |-> ts, order |-> o, count |-> n, size |-> 14, binding |-> b, overrides |-> v, valid |-> k] :
            o \in OrdersOf(Len(ts)), n \in 1..3, b \in {{4, 5}, {4, 7}},
            v \in {<<>>, [ch \in {4, 6} |-> 20 * ch]}, k \in {{}, {8, 16}, {8, 16, 80}}} : ts \in TaskSets}

\* Classes with their staged input sizes, smaller for an earlier index.
PairProgram(cls, i) ==
  [start |-> cls = "A", ctx |-> cls \in {"D", "F"}, bytes |-> 4 * i,
   in |-> IF cls \in {"E", "F"} THEN <<"x", "o", "z">> ELSE <<"q">>,
   out |-> CASE cls \in {"E", "F"} -> <<"h">> [] cls = "B" -> <<"o">> [] OTHER -> <<"q", "z">>]
\* The bytes of a class are those of its first program.
FirstOf(f, i) == CHOOSE j \in DOMAIN f : f[j] = f[i] /\ \A k \in 1..(j - 1) : f[k] # f[i]
MCPairCases ==
  {[programs |-> [i \in DOMAIN f |-> [PairProgram(f[i], i) EXCEPT !.bytes = 4 * FirstOf(f, i)]],
    known |-> [i \in k |-> i]] :
     f \in UNION {[1..n -> {"A", "B", "C", "F"}] : n \in 1..4} \cup {<<"D", "E", "D", "C", "E", "E", "A">>},
     k \in {{}, {1}}}

MCHeadCases ==
  {[matrix |-> [r \in 1..v |-> [i \in 1..d |-> V(r, i)]], hidden |-> [i \in 1..d |-> V(9, i)]] :
     v \in {1, 2, 4, 5, 6}, d \in 1..5}

-----------------------------------------------------------------------------
Layout(i) == RR!ChunkLayouts[i]
MCChunkCases ==
  {[layout |-> Layout(l), length |-> 20, uuid |-> u, own |-> 77,
    stripes |-> [i \in 1..n |-> <<IF i = n THEN d ELSE 1, 30 * i>>]] :
     l \in 1..3, n \in 1..2, d \in 1..2, u \in {77, 78}}

TreeKeys == << <<1, 1, 0>>, <<2, 1, 0>>, <<2, 1, 3>>, <<2, 5, 1>>, <<3, 0, 0>>, <<3, 9, 9>>, <<4, 1, 0>> >>
Bound == {<<>>, <<0, 0, 0>>, <<2, 0, 0>>, <<2, 1, 3>>, <<2, 9, 9>>, <<3, 0, 0>>, <<5, 0, 0>>}
MCTreeCases ==
  {[items |-> [i \in 1..n |-> [key |-> TreeKeys[i]]], per |-> per, lo |-> lo, hi |-> hi,
    chunks |-> <<[start |-> 0, length |-> 99, stripes |-> << <<1, 0>> >>]>>] :
     n \in {1, 4, 6, 7}, per \in 1..3, lo \in Bound, hi \in Bound}

MCDirItemCases == UNION {[1..n -> 0..2] : n \in 0..6} \cup {<<0, 0, 1, 2, 2, 1, 1, 1, 0>>, <<0, 0, 1, 2, 2, 1, 2, 1, 0>>}

\* Files in one or two extents, inline or with slack around the data.
Inline(n, comp) == <<[from |-> 0, num |-> n, inline |-> TRUE, comp |-> comp]>>
Regular(from, n, slack, at, comp) ==
  [from |-> from, num |-> n, inline |-> FALSE, slack |-> slack, at |-> at, comp |-> comp]
FileExtents(n) ==
  IF n = 0 THEN {<<>>}
  ELSE {Inline(n, comp) : comp \in 0..1}
       \cup {<<Regular(0, n + 1, slack, RI!DataAt, comp)>> : slack \in 0..1, comp \in 0..1}
       \cup {<<Regular(0, k, slack, RI!DataAt, 0), Regular(k, n - k + 1, 1, RI!DataAt + k + slack + 1, 0)>> :
                k \in 1..(n - 1), slack \in 0..1}
Paths == {<< <<5>> >>, << <<3>>, <<5>> >>, << <<4, 4>>, <<5>> >>, << <<4, 4>>, <<3>> >>, << <<4>> >>}
MCCatCases ==
  {[content |-> c, extents |-> x, layout |-> Layout(1), copies |-> 2, per |-> per, collide |-> per = 2, shift |-> 100,
    path |-> << <<5>> >>, tail |-> tail] :
     c \in {<<21, 22, 23>>}, x \in FileExtents(3), per \in 2..3, tail \in -1..4}
  \cup {[content |-> c, extents |-> Inline(Len(c), 0), layout |-> Layout(l), copies |-> 1, per |-> 2, collide |-> b,
          shift |-> 60 * l, path |-> p, tail |-> -1] : c \in {<<21, 22>>}, l \in 1..3, b \in BOOLEAN, p \in Paths}
  \cup {[content |-> <<>>, extents |-> <<>>, layout |-> Layout(2), copies |-> 1, per |-> 2, collide |-> TRUE,
          shift |-> 0, path |-> << <<5>> >>, tail |-> tail] : tail \in {-1, 0, 2}}
MCListCases ==
  {[layout |-> Layout(l), copies |-> 1, per |-> per, collide |-> b, shift |-> 40, path |-> p] :
     l \in 1..3, per \in 2..3, b \in BOOLEAN, p \in {<<>>, << <<3>> >>, << <<4, 4>> >>, << <<9>> >>}}

FatEntry(long, short, object, dir, deleted) ==
  [long |-> long, short |-> short, object |-> object, dir |-> dir, deleted |-> deleted]
FatDir(es) == [dir |-> TRUE, entries |-> es, content |-> <<>>]
FatFile(c) == [dir |-> FALSE, entries |-> <<>>, content |-> c]
FatObjects(n, deleted, long) ==
  << FatDir(<<FatEntry(<<7, 8, 9>>, <<7>>, 4, FALSE, deleted), FatEntry(long, <<1>>, 2, TRUE, FALSE),
              FatEntry(<<>>, <<12, 3>>, 3, FALSE, FALSE)>>),
     FatDir(<<FatEntry(<<4, 15, 6, 7>>, <<4>>, 4, FALSE, FALSE)>>),
     FatFile([i \in 1..n |-> 30 + i]), FatFile(<<41, 42, 43>>) >>
MCFatCases ==
  {[objects |-> FatObjects(n, d, l), perm |-> perm, path |-> p] :
     n \in 0..3, d \in BOOLEAN, l \in {<<>>, <<11, 2>>, <<1, 2, 3>>},
     perm \in {[i \in 1..14 |-> i + 1], [i \in 1..14 |-> 16 - i], [i \in 1..14 |-> ((i * 4) % 15) + 2]},
     p \in {<< <<2, 13>> >>, << <<1>>, <<4, 5, 6, 7>> >>, << <<1, 2>>, <<4, 5, 6, 7>> >>, << <<7, 8, 9>> >>, << <<1>> >>,
             << <<1, 2, 3>>, <<14, 5, 6, 17>> >>}}
====
