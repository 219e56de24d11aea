SPECIFICATION Spec
CONSTANTS
    c1 = c1
    c2 = c2
    c3 = c3
    e1 = e1
    Nobody = Nobody
    Records = {c1, c2, c3}
    Enqueuers = {e1}
    MaxFiles = 2
    MaxDeaths = 2
    MaxDiskErrors = 1
    MaxPublishErrors = 1
INVARIANTS
    SpoolTypeOK
    SavedIsSafe
    CountMatchesDirectory
    DirectoryBounded
    RestartFits
PROPERTIES
    SavedIsPublished
