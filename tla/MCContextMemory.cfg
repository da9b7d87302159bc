SPECIFICATION Spec
CONSTANTS
    Frames <- MCFrames
    ZeroFrame = 0
    VallocPages = 41
    KstackPages = 9
    PageSize = 2
    Contexts = {1, 2, 3, 4}
    Modules = {1, 2}
    Image <- MCImage
    CallSizes = {2}
    ReplySizes = {1, 3}
    MaxSteps = 6
INVARIANTS  KernelPagesApart FramesAccounted
PROPERTY ImplementsSegments
CHECK_DEADLOCK FALSE
