CONSTANTS
  Handlers = {h1, h2}
  Addresses = {a1, a2}
  Sessions = {s1, s2, s3}
  MaxPep = 1
  MaxRoom = 2
  None = None
SPECIFICATION FairSpec
INVARIANTS JoinedBeforeFreed CapOvershoot
PROPERTY LcmLockReleased
