SPECIFICATION Spec
CONSTANTS
    Doc = {1, 2, 3, 4}
    Key <- MCKey
    Type = {1, 2}
    Owner <- MCOwner
    Slugged = {1}
    Source <- MCSource
    LegalStatus = {"VALID", "ABROGATED"}
    Any = Any
    Limits = {1, 2}
    CurrentYear = 2025
    MaxChanges = 2
CONSTRAINT ActiveForLanding
INVARIANTS
    TypeOK
    PagesExplained
    DeadLinksExplained
    LandingAgrees
CHECK_DEADLOCK FALSE
