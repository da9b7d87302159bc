\* Two fuses by kmain while the daemon casts to the kernel.
SPECIFICATION FairSpec
CONSTANTS
    RingSlots = 2
    Prompt = TRUE
    Program <- MCTwoFuses
    Workers <- MCWorkers
    HostCasts <- MCPrint
    MaxHostCalls = 2
INVARIANTS
    
    BlockedIsQueued

    
CHECK_DEADLOCK FALSE
