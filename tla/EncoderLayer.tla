---------------------------- MODULE EncoderLayer ----------------------------
(* The statements of the MIL program that EncoderRunner._parse reads (the     *)
(* compiled model is not in the repository): one encoder layer.               *)
EXTENDS Sequences

Stmt(names, op, args, role) ==
    [names |-> names, op |-> op, args |-> args, role |-> role]

\* One encoder layer with everything the runner treats specially: a biased
\* linear followed by its silu, a gated linear unit over the halves of a split,
\* the rel-pos matmul scheduled before or after q_scaled and the content matmul,
\* the mask select and the add that feeds it ("add") or that it feeds ("mul").
Feeder == << Stmt(<<"w">>, "const", <<>>, ""),
             Stmt(<<"fill">>, "const", <<>>, ""),
             Stmt(<<"h">>, "linear", <<"features", "w">>, "bias"),
             Stmt(<<"hs">>, "silu", <<"h">>, ""),
             Stmt(<<"ga", "gb">>, "split", <<"hs">>, ""),
             Stmt(<<"sg">>, "sigmoid", <<"gb">>, ""),
             Stmt(<<"g">>, "mul", <<"ga", "sg">>, ""),
             Stmt(<<"q">>, "transpose", <<"g">>, "") >>
RelPos == Stmt(<<"scores">>, "matmul", <<"q", "w">>, "scores")
Content == << Stmt(<<"qs">>, "mul", <<"q", "w">>, ""),
              Stmt(<<"content">>, "matmul", <<"qs", "g">>, "content") >>
Masked(lineage) ==
    IF lineage = "add"
    THEN << Stmt(<<"bd">>, "add", <<"content", "scores">>, ""),
            Stmt(<<"sel">>, "select", <<"fill", "mask", "bd">>, "select"),
            Stmt(<<"p">>, "softmax", <<"sel">>, "") >>
    ELSE << Stmt(<<"bd">>, "mul", <<"scores", "w">>, ""),
            Stmt(<<"sel">>, "select", <<"fill", "mask", "bd">>, "select"),
            Stmt(<<"sum">>, "add", <<"content", "sel">>, ""),
            Stmt(<<"p">>, "softmax", <<"sum">>, "") >>
Output == << Stmt(<<"pv">>, "matmul", <<"p", "g">>, "pv"),
             Stmt(<<"encoder_hidden">>, "linear", <<"pv", "w">>, "oproj"),
             Stmt(<<"encoder_mask">>, "cast", <<"mask">>, "") >>
ProgramOf(lineage, relposFirst) ==
    Feeder \o (IF relposFirst THEN <<RelPos>> \o Content
               ELSE Append(Content, RelPos))
           \o Masked(lineage) \o Output
=============================================================================
