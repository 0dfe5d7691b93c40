SPECIFICATION Spec
CONSTANTS
    Request = {r1, r2}
    Key = {k1, k2, k3}
    MaxAge = 1
    Limit = 2
    Horizon = 3
SYMMETRY Symmetric
VIEW View
INVARIANT TypeOK
PROPERTIES
    UnavailableExplained
    WithdrawnKeyRunsOut
