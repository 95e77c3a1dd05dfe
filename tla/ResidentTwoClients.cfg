CONSTANTS
  Clients = {c1, c2}
  Bundles = {b1, b2}
  Pairs = {1, 2, 3, 4}
  Locks = {1, 2, 3}
  Jobs = {1, 2, 3, 4}
  InterruptAt <- Never
  None = None
SPECIFICATION Spec
INVARIANT SessionsSerial
CHECK_DEADLOCK FALSE
