CONSTANTS
  Handlers = {h1, h2}
  Addresses = {a1, a2}
  Sessions = {s1, s2}
  MaxPep = 1
  MaxRoom = 1
  None = None
SPECIFICATION Spec
INVARIANT HardCap
