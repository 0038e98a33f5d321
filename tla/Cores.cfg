SPECIFICATION FairSpec
CONSTANTS
    Cores = {cm4, cm7}
    Cm4 = cm4
    Cm7 = cm7
    Trace = trace
    Diag = diag
    IrqOnly = irq
    Free = free
    MaxDepth = 2
INVARIANTS MutualExclusion IrqsMaskedIffLocked Cm4StartsLast
PROPERTIES SpinEnds FifoNotWiped BootCompletes
CHECK_DEADLOCK FALSE
