SPECIFICATION FairSpec
CONSTANTS
    a = a
    b = b
    c = c
    x = x
    Function = {a, b, c, x}
    Participant = {a, b, c}
    Outside = Outside
    Group = Group
    Bodies <- SmallBodies
    StartLists <- Roots
    Folds = {TRUE, FALSE}
INVARIANTS NoActivityInItself ReturnsGoToCaller WellNested EverythingIsDrawn
PROPERTIES Finishes
