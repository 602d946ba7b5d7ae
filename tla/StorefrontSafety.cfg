SPECIFICATION Spec
CONSTANTS
  p1 = p1
  p2 = p2
  p3 = p3
  s1 = s1
  s2 = s2
  e1 = e1
  q1 = q1
  q2 = q2
  r1 = r1
  r2 = r2
  Products = {p1, p2, p3}
  Xbox = {p1, p3}
  Created = {p2}
  Scripts = {s1, s2}
  Edits = {e1}
  Setters = {q1, q2}
  Readers = {r1, r2}
  Reset = Reset
  Clean = Clean
  MaxRestarts = 1
  NoRow = NoRow
  NewRates = {1, 3}
  NoRate = NoRate
  NoPrice = NoPrice
  TTL = 2
  MaxDelay = 1
  MaxTime = 6
  NoEntry = NoEntry
  Values = {5}
  Contents <- MCContents
  Casts <- MCCasts
CONSTRAINT Focus
INVARIANTS
  TypeOK
  ManualStays
  
  AgeIsBounded
  ShownIsRecent
PROPERTIES
  RunningDealsAreKept
  ExpiredGoesHere
\* Casts without a loop end with their last request.
CHECK_DEADLOCK FALSE
