SPECIFICATION PoolFairSpec
CONSTANTS
    Worker = {w1, w2, w3}
    Task = {t1, t2, t3}
    NoTask = NoTask
    Free = Free
INVARIANTS
    PoolTypeOK
    EachTaskInOnePlace
    QuietAfterStop
    AtMostOneLateTask
PROPERTIES
    FuturesSettleOnce
    EveryFutureSettles
    StopReturns
    ImplementsTaskService
