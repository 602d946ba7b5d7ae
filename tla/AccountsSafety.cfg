\* Five requests of any kind, two e-mail addresses.
SPECIFICATION Spec
CONSTANTS
  r1 = r1
  r2 = r2
  r3 = r3
  r4 = r4
  r5 = r5
  e1 = e1
  e2 = e2
  Requests = {r1, r2, r3, r4, r5}
  Emails   = {e1, e2}
  None     = None
SYMMETRY RequestSymmetry
INVARIANTS
  TypeOK
  InactiveHasToken
  OldTokensAreDead
  TokensDieForAReason
  NoCircleOfWaits
PROPERTIES
  OwnTokenOnly
\* Requests run out: the system stops.
CHECK_DEADLOCK FALSE
