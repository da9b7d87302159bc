\* kmain waits for the host while fuse_proxy answers it.
SPECIFICATION Spec
CONSTANTS
    NCpus = 1
    MaxContexts = 3
INVARIANT ExitLeaves
CHECK_DEADLOCK FALSE
