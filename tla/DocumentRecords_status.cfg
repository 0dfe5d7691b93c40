SPECIFICATION Spec
CONSTANTS
    Request = {r1, r2}
    Doc = {d1, d2}
    File = {f1, f2}
    RelationType = {"MODIFIES", "ABROGATES"}
    NoFile = NoFile
    MaxRelations = 2
    MaxDownloads = 0
CONSTRAINT OneTarget
INVARIANT LegalStatusFollowsRelation
CHECK_DEADLOCK FALSE
