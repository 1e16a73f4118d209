CONSTANTS
    Entity = Entity
    None = None
    _sub = _sub
    _rel = _rel
    a = a
    b = b
    c = c
    d = d
    HardTags = {_sub}
    UserTerms = {a, b, c}
    SeedSub <- BareSub
    SeedSuper <- BareSuper
    SeedRank <- BareRank
    Names = {a, b, c}
    SubRelators = {_sub}
    Supers = {Entity, a, b, c}
    RelationSets <- NoRelations
    Aliases = {}
    AliasTargets = {}
    Contexts = {}
    Hazards = {"ownSubtree"}
    MaxOrdinal = 4
    MaxDepth = 5
    MaxContext = 0
    RankMaxLen = 255
SPECIFICATION Spec
INVARIANTS
    Rooted
