SPECIFICATION Spec
CONSTANTS
    Handlers = {h1}
    MaxConn = 2
    MaxQueue = 2
    Strict = FALSE
INVARIANT ServedHandle
