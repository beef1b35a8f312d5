\* Two devices; the second cannot open the share and needs the key backup.
CONSTANTS
  t1 = t1
  t2 = t2
  d1 = d1
  d2 = d2
  Messages <- Two
  Handlers = {h1}
  PageSize = 2
  LastDay = 0
  MaxArchives = 8
  Devices = {d1, d2}
  Tabs = {t1, t2}
  DeviceOf <- EachItsOwn
  Shares <- Share
  KeyOf <- OpensWithFirst
  LateArrivals <- None
  Retried <- None
  LostShares <- LostOnSecond
  SyncPage = 1
  MaxFaults = 0
SPECIFICATION FairDeviceSpec
INVARIANTS
  NothingStranded
PROPERTIES
  EventuallyVisible
