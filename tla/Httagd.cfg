CONSTANTS
    Top = Top
    Entity = Entity
    f = f
    empty = empty
    dog = dog
    cat = cat
    unknown = unknown
    NoContext = NoContext
    Contexts = {dog, cat}
    SharedErrors = TRUE
    TaglStatement <- Sent
    Contents <- SomeFiles
    Requests <- AllRequests
    MaxDepth = 2
    MaxRequests = 2
SPECIFICATION Spec
INVARIANTS
    TypeOK
    StatusHonest
    ErrorsDoNotLeak
    RequestContextStays
    OneReply
PROPERTIES
    EveryRequestAnswered
