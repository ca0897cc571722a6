SPECIFICATION ProcessSpec
CONSTANTS
    Commands <- AllCommands
    Files <- AllFiles
    MostPep = 1000
    Main = main
    Handlers = {h1, h2}
    Addresses = {"b", "c"}
    Reachable = {"a", "b", "c"}
    MaxRoom = 2
    MaxRequests = 2
    Sessions = {s1, s2}
    Openers = {f1}
    Nobody = nobody
    Numbers = {3, 4, 5, 6}
    MaxDials = 3
    SessionThreads = {t1, t2}
    Others = {t3}
    Paths = {p1}
    NoPath = nopath
    Max = 1
    MaxEntries = 3
    MostValues = 4
    MostPairs = 3
    Names = {na, nb}
SYMMETRY Symmetry
INVARIANTS
    ProcessTypeOK
    Settled AcceptSays StartOK TableOK
    Accounted OwnSocket
    MeasuredOK EntriesKept
    DocumentsOK
CHECK_DEADLOCK FALSE
