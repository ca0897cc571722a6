CONSTANTS
  Handlers = {h1, h2}
  Addresses = {a1, a2}
  Sessions = {s1, s2}
  MaxPep = 2
  MaxRoom = 2
  None = None
SPECIFICATION Spec
INVARIANT LookupSafe
