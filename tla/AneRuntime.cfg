SPECIFICATION Spec
CONSTANTS
  Context = 2
  Taps = 2
  KvHeads = 2
  QueryGroup = 2
  Prompt <- MCPrompt
  Generate = 1
  Clients = {"qwen", "qwen_no_persistent", "layer", "step", "network", "tiled", "attention",
    "block", "transformer", "batch", "kv", "projections", "activations",
    "tensor_operations", "normalization", "convolution"}
  Programs <- MCPrograms
  Objects <- MCObjects
  Width = 7
  Tokens = 2
  EarlyReturn = {"score", "attend", "recurrent", "kv", "proj"}
  Faults = {"bo_init", "mmap", "hang", "nan"}
  
PROPERTIES  SteadyBuffers
