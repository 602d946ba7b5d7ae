--------------------------- MODULE MCSalesUpdate ---------------------------
(***************************************************************************)
(* Small instances of SalesUpdate.                                         *)
(***************************************************************************)
EXTENDS SalesUpdate, TLC

CONSTANTS
  r1, r2, r3, m1, \* requests, and a retry
  i1, i2, i3, i4, i5, \* products
  b1, b2,         \* pages
  platform, all,  \* flags
  last            \* a request

\* Requests for the platform only, and all but one of them for it.
AllForPlatform == [r \in Requests |-> platform]
OneForAll      == [r \in Requests |-> IF r = last THEN all ELSE platform]

\* Nothing tells products apart.
AnyProduct == Permutations(Ids)
=============================================================================
