SPECIFICATION Spec
CONSTANTS
    None = None
    Events <- MCEvents
    Artifacts = {"f"}
    Filters = {None, "p"}
    MaxLog = 3
    MaxJobs = 2
INVARIANTS RebuildMatchesStream CurrentIsUnambiguous
PROPERTIES  SupersessionGoesThrough
CHECK_DEADLOCK FALSE
