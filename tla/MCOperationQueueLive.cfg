SPECIFICATION FairSpec
CONSTANTS
    o1 = o1
    o2 = o2
    o3 = o3
    caddy = caddy
    main = main
    legacy = legacy
    NoOp = NoOp
    Ops <- LiveOps
    Outcomes <- MCOutcomes
    Keys <- MCKeys
    Servers <- MCServers
    LockKey <- LiveLockKey
    ServerOf <- LiveServerOf
    MaxFaults = 2
    MaxCrashes = 2
PROPERTY AcceptedOperationsEnd
CHECK_DEADLOCK FALSE
