CONSTANTS
    Entity = Entity
    None = None
    _sub = _sub
    _rel = _rel
    a = a
    b = b
    c = c
    d = d
    HardTags = {_sub}
    UserTerms = {a, b, c, d}
    SeedSub <- ContextSub
    SeedSuper <- ContextSuper
    SeedRank <- ContextRank
    Names = {a, b, c}
    SubRelators = {_sub}
    Supers = {d}
    RelationSets <- NoRelations
    Aliases = {b}
    AliasTargets = {a, c}
    Contexts = {c, d}
    Hazards = {}
    MaxOrdinal = 3
    MaxDepth = 3
    MaxContext = 2
    RankMaxLen = 255
SPECIFICATION Spec
INVARIANTS
    AliasesResolve
    NamesKnown
    ReferencesExist
