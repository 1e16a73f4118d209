CONSTANTS
    Entity = Entity
    None = None
    _sub = _sub
    _rel = _rel
    a = a
    b = b
    c = c
    d = d
    HardTags = {_sub}
    UserTerms = {a, b}
    SeedSub <- BareSub
    SeedSuper <- BareSuper
    SeedRank <- BareRank
    Names = {a, b}
    SubRelators = {_sub}
    Supers = {Entity, _sub, a, b}
    RelationSets <- NoRelations
    Aliases = {}
    AliasTargets = {}
    Contexts = {}
    Hazards = {"crash"}
    MaxOrdinal = 2
    MaxDepth = 4
    MaxContext = 0
    RankMaxLen = 2
SPECIFICATION Spec
INVARIANTS
    Rooted
