\* A text below the cursor, with traffic after it.
CONSTANTS
  t1 = t1
  t2 = t2
  d1 = d1
  d2 = d2
  Messages <- Four
  Handlers = {h1}
  PageSize = 2
  LastDay = 1
  MaxArchives = 8
  Devices = {d1}
  Tabs = {t1}
  DeviceOf <- OneDevice
  Shares <- Share
  KeyOf <- OpensWithFirst
  LateArrivals <- Second
  Retried <- Second
  LostShares <- NothingLost
  SyncPage = 1
  MaxFaults = 0
SPECIFICATION FairDeviceSpec
PROPERTIES
  SweptByTraffic
