SPECIFICATION Spec
CONSTANTS
    A = A
    B = B
    C = C
    D = D
    top = top
    dep = dep
    inh = inh
    agg = agg
    Element = {A, B, C, D}
    Root = top
    RelType = {dep, inh, agg}
    Owning = {agg}
    FilterId = {1, 2, 3}
    Settings <- MCSettings
    Models <- MCModels
INVARIANTS
    NoDanglingUse
    ClosureIsExact
    LargestConsistent
    RelationshipsHaveEnds
    EmptyPackagesAreJudged
PROPERTY Finishes
CHECK_DEADLOCK FALSE
