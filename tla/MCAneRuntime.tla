---------------------------- MODULE MCAneRuntime ----------------------------
EXTENDS AneRuntime
MCPrompt == <<3, 1, 2>>
MCPrograms == [c \in Clients |-> HostProgram(c)]
MCObjects ==
  [c \in Clients |->
     CASE c \in {"qwen", "qwen_no_persistent"} ->
            <<Elementwise, ScoreProgram(2, 1), ValueProgram(2, 1), ScoreProgram(2, 2),
              ValueProgram(2, 2), RecurrentRunner(1), RecurrentRunner(3)>>
       [] c = "kv" -> <<KvRunner>>
       [] c = "projections" -> <<ProjectionRunner(1), ProjectionRunner(2)>>
       [] c \in {"activations", "tensor_operations", "normalization", "convolution"} -> <<Elementwise>>
       [] OTHER -> <<>>]
=============================================================================
