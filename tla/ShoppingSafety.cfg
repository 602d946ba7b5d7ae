\* Three requests of any kind on the stores of one user and of one session.
SPECIFICATION Spec
CONSTANTS
  r1 = r1
  r2 = r2
  r3 = r3
  p1 = p1
  p2 = p2
  u1 = u1
  s1 = s1
  Requests  = {r1, r2, r3}
  Users     = {u1}
  Sessions  = {s1}
  Products  = {p1, p2}
  AddQty    = {1}
  SetQty    = {0, 2}
  Absent    = Absent
  NoRequest = NoRequest
SYMMETRY RequestSymmetry
INVARIANTS
  TypeOK
  WishlistIsExact
  OnlyStocked
  WhatIsHeldExpires
PROPERTIES
  KeepsCartContract
  SignInIsComplete
\* Requests run out: the system stops.
CHECK_DEADLOCK FALSE
