SPECIFICATION ServicesSpec
CONSTANTS
    SYSTIME_TIM_PERIOD = 5
    UsPerMs = 2
    Latency = 1
    MaxDelay = 3
    MaxTime = 13
    Main = main
    Threads = {t1, t2}
    Nobody = nobody
    MaxSize = 2
INVARIANTS WrapsCounted DelayLongEnough RootsKept ConsoleInUse
CHECK_DEADLOCK FALSE
