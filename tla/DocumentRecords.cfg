SPECIFICATION Spec
CONSTANTS
    Request = {r1, r2}
    Doc = {d1, d2}
    File = {f1, f2, f3}
    RelationType = {"MODIFIES", "ABROGATES"}
    NoFile = NoFile
    MaxRelations = 3
    MaxDownloads = 2
SYMMETRY Symmetric
VIEW View
CONSTRAINT FilesOrRelations
INVARIANTS
    TypeOK
    FilesAreReady
    OwnFileUnlessRaced
    NotFoundExplained
    LegalStatusUnlessRaced
    DownloadsUnlessRaced
CHECK_DEADLOCK FALSE
PROPERTY OnlyPendingActivated
