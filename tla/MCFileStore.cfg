SPECIFICATION Spec
CONSTANTS
    k1 = k1
    k2 = k2
    e1 = e1
    e2 = e2
    s1 = s1
    s2 = s2
    s3 = s3
    None = None
    Cut = Cut
    Keys <- TwoKeys
    Values <- TwoValues
    ServerKeys <- ThreeServerKeys
SYMMETRY Symmetry
INVARIANTS
    TypeOK
    OneServerKey
    KeyStays
PROPERTIES
    ImplementsDurableMap
