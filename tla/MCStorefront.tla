---------------------------- MODULE MCStorefront ----------------------------
(***************************************************************************)
(* A small instance of Storefront: casts of a few actors, each of which    *)
(* brings out one kind of overlap.                                         *)
(***************************************************************************)
EXTENDS Storefront

CONSTANTS p1, p2, p3, s1, s2, e1, q1, q2, r1, r2

MCContents == SUBSET Products

MCCasts ==
  {{p1, p2, s1, e1, Reset, Clean},       \* writers of products
   {p1, p2, s1, s2, Reset, Clean},
   {p1, p3, s1, s2, Reset},              \* ... of two of one platform: deadlocks
   {p1, p2, s1, q1, q2},                 \* writers of prices
   {p1, p2, s1, e1, q1},
   {p2, e1, r1, r2}}                     \* a writer and its readers

\* What becomes of a cast with readers after an edit that deletes nothing, which no response
\* tells, is not explored.
Focus == cast \cap Readers = {} \/ edited = {} \/ ~Present(p2)
=============================================================================
