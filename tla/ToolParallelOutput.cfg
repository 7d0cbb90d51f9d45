SPECIFICATION Spec
CONSTANTS
    home = home
    lib = lib
    app = app
    d1 = d1
    d2 = d2
    d3 = d3
    Diagram = {d1, d2, d3}
    Dir <- Directories
    Home = home
    Settings <- Parallel
INVARIANT OutputWhereAsked
