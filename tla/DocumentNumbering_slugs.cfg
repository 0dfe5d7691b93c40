SPECIFICATION Spec
CONSTANTS
    Request = {r1, r2}
    Type = {"ley", "ley 1"}
    TypeSlug <- SlugsNested
    Number <- Numbers
    Suffix <- Suffixes
    Year = {"2026"}
    NoRequest = NoRequest
    MaxDocuments = 2
SYMMETRY Symmetric
VIEW View
PROPERTY DuplicateMeansNumberTaken
