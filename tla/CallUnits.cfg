CONSTANTS
    main = main
    mid = mid
    target = target
    lambda = lambda
    inner = inner
    Function <- MCFunction
    Method <- MCMethod
    Lambda <- MCLambda
    Settings <- MCSettings
    MaxChain = 4
SPECIFICATION Spec
INVARIANTS ChainsAreCallPaths ToChainsAreExact
CHECK_DEADLOCK FALSE
