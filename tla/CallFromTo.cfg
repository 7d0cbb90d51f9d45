CONSTANTS
    main = main
    mid = mid
    target = target
    lambda = lambda
    inner = inner
    Function <- MCFunction
    Method <- MCMethod
    Lambda <- MCLambda
    Settings <- MCSettings
    MaxChain = 4
SPECIFICATION Spec
INVARIANT FromToChainsAreComplete
CHECK_DEADLOCK FALSE
