SPECIFICATION Spec
CONSTANTS
    c1 = c1
    c2 = c2
    ip = ip
    adminName = adminName
    otherName = otherName
    secret = secret
    old = old
    None = None
    OldToken = old
    Default = adminName
    Calls <- MCCalls
    Clients <- MCClients
    Names <- MCNames
    Passwords <- MCPasswords
    MaxRestarts = 1
    MaxFailures = 2
    Window = 1
    Lockout = 3
    CaptchaTtl = 1
    Minute = 1
    MaxPerMinute = 1
SYMMETRY MCSymmetry
INVARIANTS
    TypeOK
    OldPasswordIsOut
    AccountIsSound
PROPERTY LockoutLasts
CHECK_DEADLOCK FALSE
