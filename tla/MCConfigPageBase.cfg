SPECIFICATION Spec
CONSTANTS
    None = None
    a = a
    b = b
    c = c
    Contents <- MCContents
    Original = a
    Revisions <- MCRevisions
    Submissions <- MCSubmissions
    MaxEdits = 1
INVARIANT BaseIsCompared
CHECK_DEADLOCK FALSE
