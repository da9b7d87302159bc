\* The boot calls: cast_test makes the daemon fuse to the kernel.
SPECIFICATION Spec
CONSTANTS
    RingSlots = 2
    Prompt = TRUE
    Program <- MCBoot
    Workers <- MCWorkers
    HostCasts <- MCNoCasts
    MaxHostCalls = 1
INVARIANT HostExpectsAnswer
CHECK_DEADLOCK FALSE
