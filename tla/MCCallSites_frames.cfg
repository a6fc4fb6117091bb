SPECIFICATION Spec
CHECK_DEADLOCK FALSE
CONSTANTS
    f1 = f1
    f2 = f2
    small = small
    large = large
    method = method
    script = script
    inner = inner
    None = None
    Name <- TwoNames
    Body <- TwoBodies
    Gen <- TwoGens
    Frame <- Sizes
    Dying <- NoneDies
    Caller <- Outside
    Target <- Targets
    Home <- HomeOf
    CompileByName = FALSE
    MaxDepth = 2
INVARIANT FramesFit
