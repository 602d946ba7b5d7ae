\* One request, nothing fails, two full chunks and one product more.
SPECIFICATION Spec
CONSTANTS
  r1 = r1
  r2 = r2
  r3 = r3
  m1 = m1
  i1 = i1
  i2 = i2
  i3 = i3
  i4 = i4
  i5 = i5
  b1 = b1
  b2 = b2
  platform = platform
  all = all
  Nobody = Nobody
  last      = r1
  Requests  = {r1}
  Retries   = {}
  Keys      = {platform}
  KeyOf     <- AllForPlatform
  Ids       = {i1, i2, i3, i4, i5}
  ChunkSize = 2
  Pages     = {}
  Faults    = {}
INVARIANT Resumable
SYMMETRY AnyProduct
CHECK_DEADLOCK FALSE
