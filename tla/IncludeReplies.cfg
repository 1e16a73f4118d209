CONSTANTS
    Top = Top
    Entity = Entity
    f = f
    empty = empty
    dog = dog
    cat = cat
    unknown = unknown
    NoContext = NoContext
    Contexts = {dog, cat}
    SharedErrors = TRUE
    TaglStatement <- Sent
    Contents <- SomeFiles
    Requests <- IncludeRequests
    MaxDepth = 2
    MaxRequests = 1
SPECIFICATION Spec
INVARIANTS
    NeverAborts
