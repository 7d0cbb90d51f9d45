SPECIFICATION FairSpec
CONSTANTS
    Diagram = {d1, d2, d3}
    Threads = 2
    MaxUnits = 2
    Modes = {"off", "text"}
    MayThrow = TRUE
INVARIANTS
    ExitCodeTellsFailure
    IndicatorOutlivesItsUsers
    BarTellsTheTruth
PROPERTIES
    Returns
