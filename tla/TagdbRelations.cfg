CONSTANTS
    Entity = Entity
    None = None
    _sub = _sub
    _rel = _rel
    a = a
    b = b
    c = c
    d = d
    HardTags = {_sub, _rel}
    UserTerms = {a, b, c}
    SeedSub <- NestedSub
    SeedSuper <- NestedSuper
    SeedRank <- NestedRank
    Names = {a, b}
    SubRelators = {_sub, a}
    Supers = {Entity, None}
    RelationSets <- SmallRelations
    Aliases = {}
    AliasTargets = {}
    Contexts = {}
    Hazards = {"unknownRelator"}
    MaxOrdinal = 4
    MaxDepth = 2
    MaxContext = 0
    RankMaxLen = 255
    Questions <- SmallQuestions
SPECIFICATION Spec
INVARIANTS
    ReferencesExist
    NamesKnown
    SearchComplete
    QuerySelects
PROPERTIES
    SearchFollows
