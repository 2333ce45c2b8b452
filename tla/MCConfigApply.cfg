SPECIFICATION Spec
CONSTANTS
    o1 = o1
    o2 = o2
    old = old
    good = good
    bad = bad
    foreign = foreign
    None = None
    Ops <- MCOps
    Contents <- MCContents
    Initial = old
    Drafts <- MCDrafts
    Edits <- MCEdits
    Unloadable <- MCUnloadable
    KeepBackups = 1
    MaxFaults = 1
    MaxCrashes = 1
SYMMETRY MCSymmetry
INVARIANTS
    TypeOK
    SucceededIsLive
    RolledBackIsRestored
    ReplacedIsRecoverable
    RefusedIsHarmless
    DivergenceIsReported
PROPERTY ReplacesItsBase
CHECK_DEADLOCK FALSE
