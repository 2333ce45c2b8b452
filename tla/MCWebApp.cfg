SPECIFICATION WebSpec
CONSTANTS
    None = None
    a = a
    b = b
    h1 = h1
    h2 = h2
    h3 = h3
    Contents <- MCContents
    Original = a
    Revisions <- MCRevisions
    Submissions <- MCSubmissions
    MaxEdits = 1
    MaxFailures = 1
    Window = 1
    Lockout = 1
    CaptchaTtl = 1
    Minute = 2
    MaxPerMinute = 2
    MaxCaptchas = 3
    Hosts <- MCHosts
    Machines <- MCMachines
    KeyOf <- MCKeyOf
    Lines <- MCLines
    MaxLines = 4
    MaxCells = 12
    MaxWords = 2
    MaxChars = 2
    MaxNesting = 10
    MaxMarker = 1
INVARIANTS
    TypeOK
    BaseWasShown
    UserMatchesSession
    SavedHostWasVerified
    DiffShowsBothTexts
    QuotedWordsAreRead
    FormatKeepsText
PROPERTY FreshCaptchaSent
CHECK_DEADLOCK FALSE
