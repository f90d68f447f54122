SPECIFICATION Spec
CONSTANTS
    t1 = t1
    t2 = t2
    f1 = f1
    f2 = f2
    f3 = f3
    d1 = d1
    Thread = {t1, t2}
    Fiber = {f1, f2, f3}
    Fd = {d1}
    AnyThread = AnyThread
    NoWork = NoWork
    NoTimeout = NoTimeout
    MAX_TIMEOUT = 2
    INT_MAX = 3
    PartsPerMs = 2
    MaxWaited = 3
    Setups <- OneThreadOrNoWaiting
INVARIANTS
    TypeOK
    NoPanic
    OneWaker
    CountersExact
PROPERTIES
    NoEarlyReturn
    TasksFinish
    TickersRun
    StopReturns
CHECK_DEADLOCK FALSE
