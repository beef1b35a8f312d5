\* A text whose ULID sorts below the cursor when it arrives.
CONSTANTS
  t1 = t1
  t2 = t2
  d1 = d1
  d2 = d2
  Messages <- Three
  Handlers = {h1}
  PageSize = 2
  LastDay = 0
  MaxArchives = 8
  Devices = {d1}
  Tabs = {t1}
  DeviceOf <- OneDevice
  Shares <- Share
  KeyOf <- OpensWithFirst
  LateArrivals <- Second
  Retried <- None
  LostShares <- NothingLost
  SyncPage = 1
  MaxFaults = 0
SPECIFICATION FairDeviceSpec
PROPERTIES
  EventuallyVisible
