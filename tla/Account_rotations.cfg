\* Two requests on one handle; only rotations of one account overlap.
SPECIFICATION AccountSpec
CONSTANTS
  r1 = r1
  r2 = r2
  h = h
  s1 = s1
  s2 = s2
  None = None
  Callers = {r1, r2}
  Semaphores = {s1, s2}
  Handle = h
  Uids <- RegisteredUsers
  Rids <- RequestIds
  Keys <- LockedKeys
  Overlap <- Rotations
  Cooldown = 1
  LastDay = 1
  MaxFaults = 1
SYMMETRY Requests
CHECK_DEADLOCK FALSE
INVARIANTS
  AccountTypeOK
  HandleIsKept
  AnswersAgree
  ResolveIsCurrent
  MutualExclusion
  KeysAreApart
PROPERTIES
  TombstoneHolds
  RotationChain
