SPECIFICATION Spec
CONSTANTS
    A = A
    B = B
    E = E
    R = R
    X = X
    n = n
    src = src
    inc = inc
    top = top
    nowhere = nowhere
    Entity = {A, B, E, R, X}
    Outside = {X}
    Rejected = {R}
    Bases <- MCBases
    Fields <- MCFields
    Params <- MCParams
    NsOf <- MCNsOf
    Namespace = {n}
    Directory = {src, inc}
    Top = top
    Nowhere = nowhere
    AstId <- MCAstId
    Settings <- MCSettings
INVARIANTS ModelIsUnion InPackageOfDefinition RelationshipsAreExact
CHECK_DEADLOCK FALSE
