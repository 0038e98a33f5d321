SPECIFICATION FairSpec
CONSTANTS
    N = 3
    PoolSize = 3
    Freers = {f1, f2}
    Input = input
    NoThread = nobody
    NoFrame = none
    MaxFrames = 4
INVARIANTS NoCriticalError HeldFramesIntact OneOwner LengthNotStale
           NoLostWakeup
PROPERTY EventuallyTaken
