--------------------------- MODULE AneExperiments ---------------------------
(***************************************************************************)
(* The programs around the Qwen model: the experiments that submit through *)
(* fresh buffers (ane-network.py, ane-softmax.py and what is built on      *)
(* them), the batch of task descriptors, and the programs that validate    *)
(* one runner each.                                                        *)
(***************************************************************************)
EXTENDS QwenPrograms

CONSTANT Tokens   \* T: rows of the experiments' input X

-----------------------------------------------------------------------------
(* Fresh buffers: four allocations per call, unmapped after it, never      *)
(* freed.                                                                  *)

\* ane-network.py run_gemm with the blob of one matrix.
RunGemm(dest, matrix, x) ==
  [op |-> "fresh_gemm", out |-> dest, tile |-> <<matrix, 1, 1>>, args |-> <<x>>]
\* run_gemm with a blob built from activations: one row (or column) each.
RunGemmRows(dest, x, rows) ==
  [op |-> "fresh_rows", out |-> dest, args |-> <<x>> \o rows]
RunGemmColumns(dest, x, columns) ==
  [op |-> "fresh_columns", out |-> dest, args |-> <<x>> \o columns]
\* ane-softmax.py run_ew.
RunEw(dest, mode, l, r) ==
  [op |-> "fresh_ew", out |-> dest, mode |-> mode, args |-> <<l, r>>]

Join(out, args, cpu) == [op |-> "join", out |-> <<out, 0>>, args |-> args, cpu |-> cpu]

\* relu_ane: max(h, 0), one call per chunk of channels.
ReluAne(out, h) ==
  [i \in 1..2 |-> RunEw(<<"chunk", i>>, MaxMode, LaneOf(h, i), Const(0))]
    \o <<Join(out, [i \in 1..2 |-> VarAt("chunk", i)],
              [fn |-> "ew", mode |-> MaxMode, args |-> <<Var(h), Const(0)>>])>>

\* ane-tiled.py add_ane: the same chunks, added.
AddAne(dest, l, r) ==
  [i \in 1..2 |->
     RunEw(<<"chunk", i>>, AddMode, [var |-> l.var, lane |-> i], [var |-> r.var, lane |-> i])]
    \o <<[op |-> "join", out |-> dest, args |-> [i \in 1..2 |-> VarAt("chunk", i)]]>>

GemmTo(out, matrix, x) ==
  RunGemm(<<out, 0>>, matrix, x)
    @@ [cpu |-> [fn |-> "gemm", matrix |-> matrix, args |-> <<x>>]]

\* ane-network.py main: gemm, relu, gemm.
Network ==
  <<Host("x", 21, <<Const(4)>>), GemmTo("h", 31, PartOf("x", 1))>>
    \o ReluAne("a", "h")
    \o <<GemmTo("y", 32, PartOf("a", 1))>>

\* ane-tiled.py matmul_ane with both accumulators.
Tiled ==
  <<Host("x", 22, <<Const(5)>>)>>
    \o Projection("fresh_gemm", HostAdd, 33, 2, 2, "x", "tiled")
    \o Projection("fresh_gemm", AddAne, 34, 1, 2, "x", "tiled")

\* ane-attention.py: qk_scores_ane, scale_ane, softmax_ane_row, av_ane.
AttentionAne ==
  Each(Tokens, LAMBDA t :
    <<RunGemmRows(<<"scores", t>>, VarAt("Q", t), [s \in 1..Tokens |-> VarAt("K", s)])>>)
    \o Each(Tokens, LAMBDA t :
         <<RunEw(<<"scaled", t>>, ScaleMode, VarAt("scores", t), Const(16)),
           RunEw(<<"probs", t>>, SoftmaxMode, VarAt("scaled", t), Const(0))>>)
    \o [t \in 1..Tokens |->
          RunGemmColumns(<<"attn", t>>, VarAt("probs", t), [s \in 1..Tokens |-> VarAt("V", s)])
            @@ [cpu |-> [fn |-> "attention_rows", args |-> <<VarAt("Q", t)>>
                           \o [s \in 1..(2 * Tokens) |->
                                 IF s <= Tokens THEN VarAt("K", s) ELSE VarAt("V", s - Tokens)]]]]

Inputs(name, tag) ==
  [t \in 1..Tokens |-> [Host("x", tag + t, <<Const(t)>>) EXCEPT !.out = <<name, t>>]]

Attention == Inputs("Q", 40) \o Inputs("K", 50) \o Inputs("V", 60) \o AttentionAne

\* The projections of every row, and the feed-forward network back on top.
Project512(name, matrix) ==
  Each(Tokens, LAMBDA t :
    <<RunGemm(<<"full", 0>>, matrix, VarAt("X", t)),
      [op |-> "bind", out |-> <<name, t>>, args |-> <<PartOf("full", 1)>>,
       cpu |-> [fn |-> "gemm_part", matrix |-> matrix, args |-> <<VarAt("X", t)>>]]>>)

FeedForward ==
  Each(Tokens, LAMBDA t :
    <<RunGemm(<<"h", 0>>, 35, VarAt("attn", t)) @@
        [cpu |-> [fn |-> "gemm", matrix |-> 35, args |-> <<VarAt("attn", t)>>]]>>
      \o ReluAne("a", "h")
      \o <<GemmTo("y", 36, PartOf("a", 1))>>)

\* ane-block.py block_ane.
Block ==
  Inputs("X", 70) \o Project512("Q", 37) \o Project512("K", 38) \o Project512("V", 39)
    \o AttentionAne \o FeedForward

\* ane-transformer.py transformer_block_ane_softmax: scores and the weighted
\* sum on the host, softmax_ane_row on the engine.
Transformer ==
  Inputs("X", 80) \o Project512("Q", 37) \o Project512("K", 38) \o Project512("V", 39)
    \o Each(Tokens, LAMBDA t :
         <<[op |-> "host_scores", out |-> <<"scaled", t>>,
            args |-> <<VarAt("Q", t)>> \o [s \in 1..Tokens |-> VarAt("K", s)]],
           RunEw(<<"probs", t>>, SoftmaxMode, VarAt("scaled", t), Const(0)),
           [op |-> "host_columns", out |-> <<"attn", t>>,
            args |-> <<VarAt("probs", t)>> \o [s \in 1..Tokens |-> VarAt("V", s)],
            cpu |-> [fn |-> "attention_rows", args |-> <<VarAt("Q", t)>>
                       \o [s \in 1..(2 * Tokens) |->
                             IF s <= Tokens THEN VarAt("K", s) ELSE VarAt("V", s - Tokens)]]]>>)
    \o FeedForward

-----------------------------------------------------------------------------
(* ane-batch.py run: n descriptors in one submission, each with its own    *)
(* weight blob and output offset; the device is opened and closed per run. *)

BatchRun(matrices) ==
  <<[op |-> "batch", out |-> <<"out", 0>>, tiles |-> matrices, args |-> <<Const(1)>>,
     cpu |-> [fn |-> "batch", tiles |-> matrices, args |-> <<Const(1)>>]],
    [op |-> "close", kind |-> "batch"]>>
Batch == BatchRun(<<41, 41>>) \o BatchRun(<<41, 42>>)

-----------------------------------------------------------------------------
(* One runner each.                                                        *)

KvRunner == <<"kv", 0, 0>>
ProjectionRunner(g) == <<"proj", g, 0>>

\* KvStateRunner: initialize, then steps with a snapshot after each.
KvSteps ==
  <<New(KvRunner)>> \o Each(Len(Prompt), LAMBDA i :
    <<Host("k", 91, <<Const(Prompt[i])>>), Host("v", 92, <<Const(Prompt[i])>>),
      [op |-> "kv", out |-> <<"kv_done", 0>>, args |-> <<Var("k"), Var("v")>>],
      [op |-> "snapshot", out |-> <<"cache", 0>>, args |-> <<>>,
       cpu |-> [fn |-> "window", args |-> <<Var("k"), Var("v")>>]]>>)

\* validate_geometry_classes: a runner per geometry, closed before the next.
ValidateProjections ==
  Each(2, LAMBDA g :
    <<Host("x", 93, <<Const(g)>>), New(ProjectionRunner(g)),
      [op |-> "proj", geometry |-> g, out |-> <<"observed", 0>>, args |-> <<Var("x")>>,
       cpu |-> [fn |-> "artifact", args |-> <<Const(g), Var("x")>>]],
      [op |-> "close", kind |-> "proj"]>>)

\* The four validations of the elementwise backend.
ValidateActivations ==
  <<New(Elementwise), Host("values", 94, <<Const(1)>>), Host("multiplier", 95, <<Const(1)>>),
    Ew("sigmoid", SigmoidMode, Var("values"), Const(0)),
    Ew("silu", SiluMode, Var("values"), Const(0))>>
    \o ActivateMul("silu_mul", SiluMode, Var("values"), Var("multiplier"))
    \o ActivateMul("sigmoid_mul", SigmoidMode, Var("values"), Var("multiplier"))
    \o <<Ew("decay", DecayMode, Var("values"), Const(2))>>

ValidateTensorOperations ==
  <<New(Elementwise), Host("left", 96, <<Const(1)>>), Host("right", 97, <<Const(1)>>)>>
    \o ResidualAdd("sum", "left", "right")
    \o <<Ew("query", RopeMode, Var("left"), Const(37)),
         Ew("key", RopeMode, Var("right"), Const(37))>>

ValidateNormalization ==
  <<New(Elementwise), Host("values", 98, <<Const(1)>>)>>
    \o NormalizeRms("rms", "values", 5)
    \o <<Ew("l2", L2Mode, Var("values"), Const(1))>>

ValidateConvolution ==
  <<New(Elementwise)>> \o Each(Len(Prompt), LAMBDA i :
    <<Host("mixed", 99, <<Const(Prompt[i])>>)>> \o CausalConvolution(1))

-----------------------------------------------------------------------------
\* The program behind the name of a client.
HostProgram(c) ==
  CASE c = "qwen" -> Qwen(TRUE)
    [] c = "qwen_no_persistent" -> Qwen(FALSE)
    [] c = "layer" -> QwenLayer
    [] c = "step" -> QwenStep
    [] c = "network" -> Network
    [] c = "tiled" -> Tiled
    [] c = "attention" -> Attention
    [] c = "block" -> Block
    [] c = "transformer" -> Transformer
    [] c = "batch" -> Batch
    [] c = "kv" -> KvSteps
    [] c = "projections" -> ValidateProjections
    [] c = "activations" -> ValidateActivations
    [] c = "tensor_operations" -> ValidateTensorOperations
    [] c = "normalization" -> ValidateNormalization
    [] c = "convolution" -> ValidateConvolution
=============================================================================
