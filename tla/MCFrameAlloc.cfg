CONSTANTS
    Areas <- MCAreas
    KernelEnd = 4
    Counts = {1, 2, 3}
SPECIFICATION FairSpec
INVARIANTS MergeSettles CountsAgree
PROPERTIES ImplementsPool AllocationEnds
CHECK_DEADLOCK FALSE
