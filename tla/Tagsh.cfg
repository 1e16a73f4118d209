CONSTANTS
    Top = Top
    Entity = Entity
    f = f
    g = g
    missing = missing
    dog = dog
    cat = cat
    Contexts = {dog, cat}
    SharedErrors = FALSE
    TaglStatement <- Statements
    Contents <- TwoFiles
    Lines <- ShellLines
    MaxDepth = 3
    MaxCommands = 3
SPECIFICATION Spec
INVARIANTS
    TypeOK
    ContextsCounted
    CallbackTop
    CleanAfterLine
    DoesTheScript
PROPERTIES
    IncluderWaits
    EveryCommandEnds
