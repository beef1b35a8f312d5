SPECIFICATION ClientSpec
CONSTANTS
    KeyDevices = {a, b}
    KeyPasswords = {p}
    KeySessions = {s1}
    MaxSalt = 3
    Overlapping = FALSE
    ChainFaults = FALSE
    Tabs = {t1, t2}
    SendFlows = {x1, x2}
    Self = me
    Peers = {bob}
    RotateAt = 1
    MaxSession = 2
    MaxIndex = 2
    MaxSends = 2
    Loads <- MCLoads
    MediaFiles = {f1, f2}
    Pictures = {f1}
    Previewed = {f1}
    MaxLoads = 3
    ReadDevices = {a, b}
    MaxStamp = 2
    MaxOpens = 1
    MaxOffline = 1
    MaxLog = 4
    MaxTimes = 2
    MaxCuts = 1
    OrphansFirst = FALSE
    Chats = {c1, c2}
    NoChat = nochat
    MaxSubmissions = 2
    MaxPages = 2
    StrayMoves = FALSE
    BrowserTabs = {t1, t2}
    LocalUsers = {u1, u2}
    Nobody = nobody
    NarrowRaces = FALSE
INVARIANTS
    ClientTypeOK
    HistoryReachable
    IndexNeverReused
    MessageComesWithKey
    ShownIsLive
    
    
    

    
CHECK_DEADLOCK FALSE
