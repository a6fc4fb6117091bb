SPECIFICATION Spec
CONSTANTS
    iface = iface
    base = base
    middle = middle
    leaf = leaf
    k = k
    s = s
    r = r
    g1 = g1
    g2 = g2
    LOW = LOW
    low = low
    FOO = FOO
    foo = foo
    Unfit = Unfit
    Null = Null
    None = None
    Class <- MCClass
    Interface <- MCInterface
    Parent <- MCParent
    Super <- MCSuper
    Implements <- MCImplements
    Const <- MCConst
    Own <- MCOwn
    Site <- MCSite
    Flag <- MCFlag
    Gen <- MCGen
    Value <- MCValue
    Boxed <- MCBoxed
    Global <- MCGlobal
    Folded <- MCFolded
    Internal <- MCInternal
INVARIANTS
    TypeOK
    StaleSitesReadNull
    StaleOnlyBelowAnAdd
    InternalsStay
PROPERTIES
    PrivateStaysHome
    HeirsFollow
    SharersReadNull
