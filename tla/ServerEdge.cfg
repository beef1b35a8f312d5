SPECIFICATION EdgeSpec
CONSTANTS
    GuardDevices = {d1}
    GuardRequests = {r1, r2}
    DeviceTtl = 2
    ProfileTtl = 1
    RequestTime = 1
    MaxKv = 2
    Forms = {f1, f2}
    NonceTtl = 2
    SubmitTime = 1
    Blobs = {b1, b2}
    QuotaRequests = {q1, q2}
    QuotaCap = 1
    QuotaTtl = 1
    UrlTtl = 2
    Messages = {m1, m2}
    Attachments = {m1}
    Recipients <- MCRecipients
    Streams <- MCStreams
    SendAttempts = 2
    PutAttempts = 2
    HubBuffer = 1
    HandleKeys <- MCHandleKeys
    SweepPage = 1
    SweepBatch = 2
INVARIANTS
    EdgeTypeOK
    
    NeverRefusedForIdling
    OneUsePerChallenge
    GrantsWithinQuota
    DeletionIsSeen
    
    SentIsComplete
    SparesTheLiving
    SweepIsComplete
PROPERTIES
    
    SubmitEnds
CHECK_DEADLOCK FALSE
