SPECIFICATION ClientSpec
CONSTANTS
    KeyDevices = {a, b}
    KeyPasswords = {p}
    KeySessions = {s1}
    MaxSalt = 3
    Overlapping = TRUE
    ChainFaults = FALSE
    Tabs = {t1}
    SendFlows = {x1}
    Self = me
    Peers = {bob}
    RotateAt = 1
    MaxSession = 1
    MaxIndex = 1
    MaxSends = 1
    Loads <- MCOneLoad
    MediaFiles = {f1}
    Pictures = {f1}
    Previewed = {f1}
    MaxLoads = 1
    ReadDevices = {a}
    MaxStamp = 1
    MaxOpens = 1
    MaxOffline = 0
    MaxLog = 1
    MaxTimes = 1
    MaxCuts = 0
    OrphansFirst = FALSE
    Chats = {c1, c2}
    NoChat = nochat
    MaxSubmissions = 2
    MaxPages = 2
    StrayMoves = FALSE
    BrowserTabs = {t1}
    LocalUsers = {u1}
    Nobody = nobody
    NarrowRaces = FALSE
INVARIANTS
    HistoryReachable
CHECK_DEADLOCK FALSE
