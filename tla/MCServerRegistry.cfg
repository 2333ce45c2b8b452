SPECIFICATION Spec
CONSTANTS
    r1 = r1
    r2 = r2
    t1 = t1
    t2 = t2
    password = password
    privateKey = privateKey
    c1 = c1
    c2 = c2
    None = None
    Ids <- MCIds
    Targets <- MCTargets
    Secrets <- MCSecrets
    Calls <- MCCalls
SYMMETRY MCSymmetry
INVARIANTS
    TypeOK
    TargetsAreUnique
    RowTellsLastChange
    StatusTellsLastCall
CHECK_DEADLOCK FALSE
