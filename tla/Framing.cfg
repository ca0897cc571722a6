SPECIFICATION ReceiveSpec
CHECK_DEADLOCK FALSE
CONSTANTS
    Kinds <- AllKinds
    LengthLimit = 13
    Messages <- AllMessages
    MaxMessages = 2
    MaxReturns = 3
INVARIANTS ReceiveTypeOK Delivered OnceInOrder Decoded
PROPERTIES AllReturned WalkEnds
