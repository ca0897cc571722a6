SPECIFICATION FairSpec
CONSTANTS
    Handlers = {h1}
    MaxConn = 3
    MaxQueue = 1
    Strict = TRUE
INVARIANTS ServedHandle GivenHandle
PROPERTIES KeepAliveEchoed Readmitted
