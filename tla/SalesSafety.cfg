\* Two requests for the platform and a retry, fewer than two full chunks of new products.
SPECIFICATION Spec
CONSTANTS
  r1 = r1
  r2 = r2
  r3 = r3
  m1 = m1
  i1 = i1
  i2 = i2
  i3 = i3
  i4 = i4
  i5 = i5
  b1 = b1
  b2 = b2
  platform = platform
  all = all
  Nobody = Nobody
  last      = r2
  Requests  = {r1, r2}
  Retries   = {m1}
  Keys      = {platform}
  KeyOf     <- AllForPlatform
  Ids       = {i1, i2, i3}
  ChunkSize = 2
  Pages     = {}
  Faults    = {"page", "parse", "kill", "crash"}
INVARIANTS
  TypeOK
  FlagIsOwned
  DateIsEarned
  Resumable
SYMMETRY AnyProduct
\* The requests run out: the system stops.
CHECK_DEADLOCK FALSE
