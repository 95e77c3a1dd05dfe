---------------------------- MODULE QwenPrograms ----------------------------
(***************************************************************************)
(* The host programs that drive the engine, as sequences of instructions:  *)
(* the Qwen model with its token runtime, the two single-layer programs,   *)
(* the network, transformer, attention, block and tiled experiments, and   *)
(* the validation programs.  A method of the source is an operator that    *)
(* returns the instructions the method issues, in its order.               *)
(***************************************************************************)
EXTENDS AneOps

CONSTANTS
  Prompt,         \* token ids of the prompt
  Generate,       \* --generate
  Clients         \* the programs a run explores

\* The tensors of layer l; the numbers only have to differ.
W(l, k) == 100 * l + k
EmbeddingMatrix == 7

\* Layers of the model: TRUE for full attention, FALSE for a recurrent one.
Layers == <<FALSE, TRUE, FALSE>>

FullLayers == {l \in DOMAIN Layers : Layers[l]}
RecurrentLayers == DOMAIN Layers \ FullLayers

-----------------------------------------------------------------------------
(* ane-qwen-model.py.  persistent is ANE_NO_PERSISTENT # "1": the tied     *)
(* head is the one matrix large enough for tile_gemm.                      *)

Project(persistent, matrix, rowTiles, colTiles, x, out) ==
  LET path == IF ~persistent THEN "ws"
              ELSE IF matrix = EmbeddingMatrix THEN "tile" ELSE "blob"
  IN  Projection(path, RuntimeAdd, matrix, rowTiles, colTiles, x, out)

NormalizeRms(out, x, w) == <<Ew(out, RmsMode, Var(x), Const(w))>>
ResidualAdd(out, l, r) == <<Ew(out, AddMode, Var(l), Var(r))>>

\* silu_mul and sigmoid_mul: the activation, then the multiplication.
ActivateMul(out, mode, l, r) ==
  <<EwTo(<<"active", 0>>, mode, l, Const(0)),
    EwTo(<<out, 0>>, MulMode, Var("active"), r)
      @@ [cpu |-> [fn |-> "gated", mode |-> mode, args |-> <<l, r>>]]>>

Mlp(p, l) ==
  NormalizeRms("x", "hidden", W(l, 1))
    \o Project(p, W(l, 2), 1, 1, "x", "gate")
    \o Project(p, W(l, 3), 1, 1, "x", "up")
    \o ActivateMul("act", SiluMode, Var("gate"), Var("up"))
    \o Project(p, W(l, 4), 1, 2, "act", "down")
    \o ResidualAdd("hidden", "hidden", "down")

\* CausalConvolution.__call__: the value enters the ring at the cursor, then
\* one product per tap from the oldest to the newest, then the cursor moves.
CausalConvolution(l) ==
  <<[op |-> "conv_store", layer |-> l, args |-> <<Var("mixed")>>]>>
    \o Each(Taps, LAMBDA t :
         LET product(dest) ==
               EwTo(dest, MulMode, History(l, t), Const(W(l, 20 + t)))
         IN  IF t = 1 THEN <<product(<<"total", 0>>)>>
             ELSE <<product(<<"product", 0>>),
                    EwTo(<<"total", 0>>, AddMode, Var("total"), Var("product"))>>)
    \o <<[op |-> "conv_advance", layer |-> l, out |-> <<"conv", 0>>,
          args |-> <<Var("total")>>,
          cpu |-> [fn |-> "conv", layer |-> l, args |-> <<Var("mixed")>>]]>>

LinearLayer(p, l) ==
  NormalizeRms("x", "hidden", W(l, 5))
    \o Project(p, W(l, 6), 1, 1, "x", "mixed")
    \o Project(p, W(l, 7), 1, 1, "x", "z")
    \o Project(p, W(l, 8), 1, 1, "x", "braw")
    \o <<Ew("beta", SigmoidMode, Var("braw"), Const(0))>>
    \o Project(p, W(l, 9), 1, 1, "x", "alpha")
    \o CausalConvolution(l)
    \o <<Ew("conv", SiluMode, Var("conv"), Const(0)),
         Ew("query", L2Mode, PartOf("conv", 1), Const(1)),
         Ew("key", L2Mode, PartOf("conv", 2), Const(0)),
         Ew("decay", DecayMode, Var("alpha"), Const(W(l, 10))),
         [op |-> "recurrent", layer |-> l, out |-> <<"output", 0>>,
          args |-> <<Var("query"), Var("key"), PartOf("conv", 3), Var("beta"), Var("decay")>>,
          cpu |-> [fn |-> "recurrent", layer |-> l,
                   args |-> <<Var("query"), Var("key"), PartOf("conv", 3),
                              Var("beta"), Var("decay")>>]]>>
    \o NormalizeRms("norm", "output", W(l, 11))
    \o ActivateMul("norm", SiluMode, Var("z"), Var("norm"))
    \o Project(p, W(l, 12), 1, 1, "norm", "out")
    \o ResidualAdd("hidden", "hidden", "out")
    \o Mlp(p, l)

\* QwenTokenRuntime.full_attention: every KV head is appended first, then
\* each query head runs scores, scale, softmax and the weighted sum.
FullAttention(l) ==
  [h \in 1..KvHeads |->
     [op |-> "append", layer |-> l, head |-> h,
      args |-> <<PartOf("k", h), PartOf("v", h)>>]]
    \o Each(QueryHeads, LAMBDA q :
         LET h == ((q - 1) \div QueryGroup) + 1
         IN  <<[op |-> "score", layer |-> l, head |-> h, out |-> <<"scores", 0>>,
                args |-> <<PartOf("q", q)>>],
               EwTo(<<"scaled", 0>>, ScaleMode, Var("scores"), Const(16)),
               EwTo(<<"probs", 0>>, SoftmaxMode, Var("scaled"), Const(0)),
               [op |-> "attend", layer |-> l, head |-> h, out |-> <<"attended", q>>,
                args |-> <<Var("probs")>>]>>)
    \o <<[op |-> "gather", out |-> <<"attended", 0>>,
          args |-> [q \in 1..QueryHeads |-> VarAt("attended", q)],
          cpu |-> [fn |-> "attention", layer |-> l, args |-> <<Var("q"), Var("k"), Var("v")>>]]>>

FullLayer(p, l, position) ==
  NormalizeRms("x", "hidden", W(l, 5))
    \o Project(p, W(l, 6), 2, 1, "x", "qfull")
    \o Project(p, W(l, 7), 1, 1, "x", "k")
    \o Project(p, W(l, 8), 1, 1, "x", "v")
    \o <<Ew("q", RmsMode, PartOf("qfull", 1), Const(W(l, 9))),
         Ew("q", RopeMode, Var("q"), Const(position)),
         Ew("k", RmsMode, Var("k"), Const(W(l, 10))),
         Ew("k", RopeMode, Var("k"), Const(position))>>
    \o FullAttention(l)
    \o ActivateMul("gated", SigmoidMode, PartOf("qfull", 2), Var("attended"))
    \o Project(p, W(l, 11), 1, 1, "gated", "o")
    \o ResidualAdd("hidden", "hidden", "o")
    \o Mlp(p, l)

Step(p, position) ==
  Each(Len(Layers), LAMBDA l :
    IF Layers[l] THEN FullLayer(p, l, position) ELSE LinearLayer(p, l))

Logits(p) ==
  NormalizeRms("h", "hidden", 3) \o Project(p, EmbeddingMatrix, 2, 1, "h", "logits")

Embed(arg) == <<Host("hidden", 1, <<arg>>)>>

\* main: the prompt, then generate tokens, each fed back, then the logits of
\* the last hidden state.
QwenTokens(p) ==
  Each(Len(Prompt), LAMBDA i : Embed(Const(Prompt[i])) \o Step(p, i - 1))
    \o Each(Generate, LAMBDA i :
         Logits(p) \o <<Host("next", 2, <<Var("logits")>>)>> \o Embed(Var("next"))
           \o Step(p, Len(Prompt) + i - 1))
    \o Logits(p)

\* QwenTokenRuntime.__init__: the elementwise backend, a score and a value
\* program per KV head of a full layer, one runner per recurrent layer.
Elementwise == <<"ew", 0, 0>>
ScoreProgram(l, h) == <<"score", l, h>>
ValueProgram(l, h) == <<"value", l, h>>
RecurrentRunner(l) == <<"rec", l, 0>>

QwenBuild ==
  LET full == SetToSortSeq(FullLayers, <)
      rec  == SetToSortSeq(RecurrentLayers, <)
  IN  <<New(Elementwise)>>
        \o Each(Len(full), LAMBDA i : Each(KvHeads, LAMBDA h :
             <<New(ScoreProgram(full[i], h)), New(ValueProgram(full[i], h))>>))
        \o [i \in DOMAIN rec |-> New(RecurrentRunner(rec[i]))]

Qwen(p) == QwenBuild \o QwenTokens(p)

-----------------------------------------------------------------------------
(* ane-qwen-layer.py and ane-qwen-step.py: one layer, host normalisation   *)
(* and attention over a host KVCache, projections through Device.gemm.     *)

LoadProjection(matrix, rowTiles, colTiles, x, out) ==
  Projection("ws", HostAdd, matrix, rowTiles, colTiles, x, out)

\* KVCache.append, then causal_attention over cache.view().
CacheAppend == [op |-> "cache_append", args |-> <<Var("k"), Var("v")>>]

QwenLayerToken(token, position) ==
  Embed(Const(token)) \o <<Host("x", 3, <<Var("hidden")>>)>>
    \o LoadProjection(11, 2, 1, "x", "q")
    \o LoadProjection(12, 1, 1, "x", "k")
    \o LoadProjection(13, 1, 1, "x", "v")
    \o <<Host("gate", 4, <<PartOf("q", 2)>>),
         Host("q", 5, <<PartOf("q", 1), Const(position)>>),
         Host("k", 6, <<Var("k"), Const(position)>>),
         CacheAppend,
         [op |-> "cache_attend", out |-> <<"attended", 0>>, args |-> <<Var("q")>>,
          cpu |-> [fn |-> "attend_all", layer |-> 0, args |-> <<Var("q"), Var("k"), Var("v")>>]],
         Host("gated", 7, <<Var("attended"), Var("gate")>>)>>
    \o LoadProjection(14, 1, 1, "gated", "o")
    \o <<Host("residual", 8, <<Var("hidden"), Var("o")>>),
         Host("m", 9, <<Var("residual")>>)>>
    \o LoadProjection(15, 1, 1, "m", "g") \o LoadProjection(16, 1, 1, "m", "u")
    \o <<Host("act", 10, <<Var("g"), Var("u")>>)>>
    \o LoadProjection(17, 1, 2, "act", "down")
    \o <<Host("hidden", 11, <<Var("residual"), Var("down")>>)>>

QwenLayer == Each(Len(Prompt), LAMBDA i : QwenLayerToken(Prompt[i], i - 1))

QwenStep ==
  Each(Len(Prompt), LAMBDA i :
    Embed(Const(Prompt[i]))
      \o LoadProjection(11, 2, 1, "hidden", "q")
      \o LoadProjection(12, 1, 2, "hidden", "k")
      \o LoadProjection(13, 1, 2, "hidden", "v")
      \o <<CacheAppend>>)
=============================================================================
