SPECIFICATION DestructorsSpec
CONSTANTS
    base = base
    leaf = leaf
    enum = enum
    k = k
    s = s
    r = r
    g1 = g1
    g2 = g2
    FOO = FOO
    foo = foo
    Unfit = Unfit
    Null = Null
    None = None
    Class <- MCClass
    Interface = {}
    Parent <- MCParent
    Super <- MCSuper
    Implements <- MCImplements
    Const <- MCConst
    Own <- MCOwn
    Site <- MCSite
    Flag <- MCFlag
    Gen <- MCGen
    Value <- MCValue
    Boxed <- MCBoxed
    Dying <- MCDying
    Reader <- MCReader
    Global <- MCGlobal
    Folded <- MCFolded
    Internal = {}
INVARIANTS
    DestructorsTypeOK
    SitesFollow
PROPERTIES
    CasesStay
    CallsTakeEffect
