SPECIFICATION Spec
CONSTANTS
    iface = iface
    base = base
    middle = middle
    leaf = leaf
    k = k
    s = s
    r = r
    g1 = g1
    g2 = g2
    LOW = LOW
    low = low
    FOO = FOO
    foo = foo
    Unfit = Unfit
    Null = Null
    None = None
    Class <- CaseClass
    Interface = {}
    Parent <- CaseParent
    Super <- CaseSuper
    Implements <- CaseImplements
    Const <- MCConst
    Own <- CaseOwn
    Site = {}
    Flag <- MCFlag
    Gen <- MCGen
    Value <- MCValue
    Boxed <- MCBoxed
    Global <- CaseGlobal
    Folded <- CaseFolded
    Internal = {}
PROPERTY RedefineNeedsConstant
