\* A rotation may overlap the deletion of its account.
SPECIFICATION AccountSpec
CONSTANTS
  r1 = r1
  r2 = r2
  h = h
  s1 = s1
  s2 = s2
  None = None
  Callers = {r1, r2}
  Semaphores = {s1, s2}
  Handle = h
  Uids <- RegisteredUsers
  Rids <- RequestIds
  Keys <- LockedKeys
  Overlap <- WithDeletion
  Cooldown = 1
  LastDay = 1
  MaxFaults = 0
SYMMETRY Requests
CHECK_DEADLOCK FALSE
PROPERTY
  TombstoneHolds
