SPECIFICATION Spec
CONSTANTS
    f = f
    h = h
    g = g
    b1 = b1
    None = None
    Name <- MCName
    Boot <- MCBoot
    Body <- MCBody
    InternalOverride = TRUE
    Fpm = TRUE
    LateCallbacks = FALSE
INVARIANT NoStrayInternal
