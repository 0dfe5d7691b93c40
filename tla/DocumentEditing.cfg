SPECIFICATION Spec
CONSTANTS
    Request = {r1, r2}
    Doc = {1, 2}
    Type = {1, 2}
    Name = {"Ley", "LEY", "Ley 1", "?"}
    Owner <- MCOwner
    Segments <- MCSegments
    NameSlug <- MCNameSlug
    Date = {1, 2}
    NoName = NoName
    NoSlug = NoSlug
    NoDate = NoDate
    Absent = Absent
SYMMETRY Symmetric
VIEW View
CONSTRAINT SlugsOrDates
INVARIANTS
    TypeOK
    SlugFollowsType
    BackfilledUnlessOvertaken
    DatesOrderedUnlessRaced
CHECK_DEADLOCK FALSE
