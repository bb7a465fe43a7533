SPECIFICATION WebSpec
CONSTANTS
    Row <- MCRow
    NoRow = NoRow
    PidOf <- MCPidOf
    ProtectedRow = {"sshd"}
    SortKey = {"cpu_percent"}
    RankBy <- MCRankBy
    SearchTerm = {"", "n"}
    Matching <- MCMatching
    ProcsPerPage = 1
    MaxPosts = 2

    Socket = {1, 2, 3}
    NoSocket = NoSocket
    KeepEvents = 2
    MaxEvents = 2
    MaxDrops = 2
    MaxRemounts = 1
    MaxTimers = 3
    MaxFlips = 1

    Event = {1, 2}
    EventType = {"sqli", "xss"}
    AllTypes = ""
    TypeOf <- MCTypeOf
    AgeOf <- MCAgeOf
    EventsPerPage = 1

    Address = {ip}
    Typo = typo
    MaxBlockPosts = 2
    MaxFailures = 1

    Incident = {i1, i2}
    NoIncident = NoIncident
    MaxListed = 2
    MaxNotes = 1

    Entry = {1}
    Trace = {t1, t2}
    AnyTrace = AnyTrace
    TraceOf <- MCTraceOf

    Token = {good, bad}
    NoToken = NoToken
    ValidToken = {good}
    Policy = {p0, p1}
    DefaultPolicy = p0
    MaxSaves = 2

    LogFilter = {"", "auth", "nginx"}
    NoLogFilter = ""
    LinesOf <- MCLinesOf
    KeepLines = 2
    MaxLines = 4
    MaxChoices = 3

    MaxRecords = 2
    MaxOutages = 1
INVARIANTS
    WebTypeOK
    OutcomeIsOfTheChoice PagesExist OneLifeAtATime TablesMatchChoice
    NoteIsAboutDisplayed FormShowsServer LinkIsApplied LiveLinesMatch
PROPERTIES
    HeaderComesToFollow TablesComeToFollow LogsComeToRest
CHECK_DEADLOCK FALSE
