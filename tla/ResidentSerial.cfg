CONSTANTS
  Clients = {c1}
  Bundles = {b1, b2}
  Pairs = {1, 2, 3}
  Locks = {1, 2}
  Jobs = {1, 2}
  InterruptAt <- NothingPending
  None = None
SPECIFICATION Spec
INVARIANTS    FailureCleans
