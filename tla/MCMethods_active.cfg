SPECIFICATION Spec
CONSTANTS
    a1 = a1
    b1 = b1
    c1 = c1
    d1 = d1
    m1 = m1
    m2 = m2
    g1 = g1
    g2 = g2
    None = None
    Class <- DeepClass
    Parent <- DeepParent
    Super <- DeepSuper
    Method <- OneMethod
    Magic <- NoMethod
    Constructors <- NoMethod
    Gen <- TwoGens
SYMMETRY GenSymmetry
PROPERTY RedefineSparesActive
