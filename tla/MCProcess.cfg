SPECIFICATION Spec
CONSTANTS
    f = f
    g = g
    b = b
    core = core
    session = session
    runkit7 = runkit7
    user = user
    GET = GET
    LIVE = LIVE
    None = None
    Name <- MCName
    Boot <- MCBoot
    Body <- MCBody
    InternalOverride = TRUE
    Fpm = TRUE
    Builtin <- MCBuiltin
    Listable <- MCListable
    Module <- MCModule
    Core = core
    Runkit7 = runkit7
    LoadOrder <- MCLoadOrder
    Callbacks <- MCCallbacks
INVARIANTS
    TypeOK
    OwnSuperglobalsOnly
    SuperglobalsUndone
PROPERTIES
    FunctionTableSpec
    ChangedShutsDownLast
    ModifiedIsRestored
