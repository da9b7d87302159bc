\* One CPU, as in the default build; three contexts beside kmain.
SPECIFICATION FairSpec
CONSTANTS
    NCpus = 1
    MaxContexts = 4
PROPERTIES
    
    CastRuns
CHECK_DEADLOCK FALSE
