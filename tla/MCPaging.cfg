CONSTANTS
    Frames = {f1, f2, f3, f4, f5, f6, f7, f8, f9, f10, f11, f12, f13, f14}
    Zero = zero
    NoFrame = none
    Index = {0, 1, 2, 3}
    Rec = 3
    Root = root
    KernelPages <- MCKernelPages
    Held <- MCHeld
    UserPages <- MCUserPages
    Tmp <- MCTmp
    MaxData = 2
    MaxTables = 1
    MaxCalls = 9
SPECIFICATION Spec
INVARIANTS CountsExact FramesOwned WithRestores 
 
CHECK_DEADLOCK FALSE
