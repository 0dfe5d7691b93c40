SPECIFICATION Spec
CONSTANTS
    Request = {r1, r2, r3}
    Type = {"ley", "decreto"}
    TypeSlug <- SlugsApart
    Number = {"1"}
    Suffix <- Suffixes
    Year <- Years
    NoRequest = NoRequest
    MaxDocuments = 2
SYMMETRY Symmetric
VIEW View
CONSTRAINT ThreeOnOneType
INVARIANTS
    TypeOK
    ScopeFollowsMode
PROPERTIES
    DuplicateMeansNumberTaken
    Registry
