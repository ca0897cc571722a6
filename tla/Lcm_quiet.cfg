CONSTANTS
  Handlers = {h1, h2}
  Addresses = {a1, a2}
  Sessions = {s1, s2, s3}
  MaxPep = 2
  MaxRoom = 3
  None = None
SPECIFICATION FairQuietSpec
INVARIANTS NoFault NoLostSession
PROPERTIES ImplementsRegistry ClearStopsAll ClearCompletes
