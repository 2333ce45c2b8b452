SPECIFICATION Spec
CONSTANTS
    o1 = o1
    o2 = o2
    o3 = o3
    caddy = caddy
    main = main
    legacy = legacy
    NoOp = NoOp
    Ops <- MCOps
    Outcomes <- MCOutcomes
    Keys <- MCKeys
    Servers <- MCServers
    LockKey <- MCLockKey
    ServerOf <- MCServerOf
    MaxFaults = 1
    MaxCrashes = 1
SYMMETRY MCSymmetry
INVARIANTS
    TypeOK
    OneRunnerPerTarget
    ActiveRowsAreOwned
    OutcomeBeforeHandover
PROPERTIES
    TerminalIsFinal
    ImplementsTargetLock
CHECK_DEADLOCK FALSE
