\* A receiver may give up between a sender's interrupt and its publication.
SPECIFICATION Spec
CONSTANTS
    RingSlots = 2
    Prompt = FALSE
    Program <- MCHello
    Workers <- MCWorkers
    HostCasts <- MCNoCasts
    MaxHostCalls = 1
INVARIANT NoneStranded
CHECK_DEADLOCK FALSE
