\* Two tabs of one device sharing its IndexedDB, one failure.
CONSTANTS
  t1 = t1
  t2 = t2
  d1 = d1
  d2 = d2
  Messages <- Two
  Handlers = {h1}
  PageSize = 2
  LastDay = 0
  MaxArchives = 8
  Devices = {d1}
  Tabs = {t1, t2}
  DeviceOf <- OneDevice
  Shares <- Share
  KeyOf <- OpensWithFirst
  LateArrivals <- None
  Retried <- None
  LostShares <- NothingLost
  SyncPage = 1
  MaxFaults = 1
SPECIFICATION FairDeviceSpec
INVARIANTS
  DeviceTypeOK
  IngestedIsSaved
PROPERTIES
  ArchivedIsVisible
