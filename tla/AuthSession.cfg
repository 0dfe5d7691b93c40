SPECIFICATION Spec
CONSTANTS
    Request = {r1, r2, r3}
    Session = {s1, s2}
    Sid = {h1, h2}
    NoRequest = NoRequest
    MaxPair = 2
SYMMETRY Symmetric
VIEW View
CONSTRAINT OneOrTwoSessions
INVARIANTS
    TypeOK
    RefreshSerialized
    StoredPairIsNewest
    RefusalExplained
    DeletedForGood
    AuthenticatedByGenuineToken
PROPERTIES
    SessionEndsForAReason
    Lifecycle
