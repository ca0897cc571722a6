SPECIFICATION MessageSpec
CONSTANTS
    MaxClassifiers = 5
    ClassifierRoom = 320
    Lists <- AllLists
    Handlers = {h1, h2}
    Policies <- AllPolicies
    Groups <- AllGroups
    Leftover <- AnyLeftover
    Behind <- Rubbish
    MaxBegun = 2
    Bodies <- AllBodies
    MostRead = 5
    NoGroups <- NothingIn
INVARIANTS MessageTypeOK Tiled Fits Complete SentAsAsked OwnAddress RequestRead 
