CONSTANTS
    Entity = Entity
    None = None
    _sub = _sub
    _rel = _rel
    a = a
    b = b
    c = c
    d = d
    HardTags = {_sub}
    UserTerms = {a, b, c}
    SeedSub <- BareSub
    SeedSuper <- BareSuper
    SeedRank <- BareRank
    Names = {a, b}
    SubRelators = {_sub}
    Supers = {Entity, a}
    RelationSets <- OneRelation
    Aliases = {}
    AliasTargets = {}
    Contexts = {}
    Hazards = {"crash"}
    MaxOrdinal = 3
    MaxDepth = 3
    MaxContext = 0
    RankMaxLen = 255
SPECIFICATION Spec
INVARIANTS
    Rooted
    ReferencesExist
    NamesKnown
