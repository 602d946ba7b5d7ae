\* Two requests for one platform, nothing fails.
SPECIFICATION Spec
CONSTANTS
  r1 = r1
  r2 = r2
  r3 = r3
  m1 = m1
  i1 = i1
  i2 = i2
  i3 = i3
  i4 = i4
  i5 = i5
  b1 = b1
  b2 = b2
  platform = platform
  all = all
  Nobody = Nobody
  last      = r2
  Requests  = {r1, r2}
  Retries   = {}
  Keys      = {platform}
  KeyOf     <- AllForPlatform
  Ids       = {i1}
  ChunkSize = 1
  Pages     = {}
  Faults    = {}
INVARIANT StartIsExclusive
CHECK_DEADLOCK FALSE
