SPECIFICATION FairSpec
CONSTANTS
    Handlers = {h1}
    MaxConn = 2
    MaxQueue = 2
    Strict = TRUE
PROPERTY BreakNoticed
