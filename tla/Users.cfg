SPECIFICATION Spec
CONSTANTS
    Request = {r1, r2, r3}
    Key = {k1, k2}
    Name = {n1, n2}
    NoName = NoName
    NoUser = NoUser
SYMMETRY Symmetric
VIEW View
CONSTRAINT ThreeOnOneUser
INVARIANT TypeOK
PROPERTIES
    LoginsKeepRoles
    NameUnlessRaced
    FirstAdminUnlessRaced
