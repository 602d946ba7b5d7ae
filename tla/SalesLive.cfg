\* Three requests, one of them for all platforms, and two pages; scripts are killed, the server
\* lives; no new products, so that scripts are short.
SPECIFICATION FairSpec
CONSTANTS
  r1 = r1
  r2 = r2
  r3 = r3
  m1 = m1
  i1 = i1
  i2 = i2
  i3 = i3
  i4 = i4
  i5 = i5
  b1 = b1
  b2 = b2
  platform = platform
  all = all
  Nobody = Nobody
  last      = r3
  Requests  = {r1, r2, r3}
  Retries   = {}
  Keys      = {platform, all}
  KeyOf     <- OneForAll
  Ids       = {}
  ChunkSize = 1
  Pages     = {b1, b2}
  Faults    = {"kill"}
PROPERTIES
  FlagIsFreed
  OutcomeIsSeen
\* The requests run out: the system stops.
CHECK_DEADLOCK FALSE
