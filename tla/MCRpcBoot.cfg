\* The calls of kmain at boot, while the daemon casts to a function that the
\* kernel does not have.
SPECIFICATION FairSpec
CONSTANTS
    RingSlots = 2
    Prompt = TRUE
    Program <- MCBoot
    Workers <- MCWorkers
    HostCasts <- MCMissingCast
    MaxHostCalls = 2
INVARIANTS
    NoneStranded
    KernelExpectsAnswer
    NeverSpinsOnOwn
CHECK_DEADLOCK FALSE
 
