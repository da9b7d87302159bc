\* Two CPUs, three contexts beside the two the CPUs start in.
SPECIFICATION Spec
CONSTANTS
    NCpus = 2
    MaxContexts = 5
INVARIANTS
    StackExclusive
    OwnerRuns
    ResumesSaved
    CallerParked
    CallChain
    ExitedStays
    ReplyPresent
CHECK_DEADLOCK FALSE
