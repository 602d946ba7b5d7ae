---------------------------- MODULE ChunksProofs ----------------------------
(***************************************************************************)
(* For which lengths and sizes chunkify yields every item.                 *)
(***************************************************************************)
EXTENDS Chunks, TLAPS

\* What divmod returns.
LEMMA DivMod ==
  ASSUME NEW n \in Nat, NEW c \in Nat \ {0}
  PROVE  /\ n \div c \in Nat
         /\ n % c \in 0 .. (c - 1)
         /\ n = c * (n \div c) + (n % c)
  OBVIOUS

\* With fewer items than two full chunks, every item is in a chunk.
THEOREM ShortIsCovered ==
  ASSUME NEW n \in Nat, NEW c \in Nat \ {0}, n < 2 * c
  PROVE  Covered(n, c) = 1 .. n
  <1> DEFINE q == n \div c
             m == n % c
  <1>1. q \in {0, 1} /\ m \in 0 .. (c - 1) /\ n = c * q + m
    <2>1. q \in Nat /\ m \in 0 .. (c - 1) /\ n = c * q + m
      BY DivMod
    <2> HIDE DEF q, m
    <2>2. q < 2
      BY <2>1
    <2>3. QED
      BY <2>1, <2>2
  <1>2. CASE q = 0
    BY <1>1, <1>2 DEF Covered, ChunkCount, Chunk, LastTop, FullChunks
  <1>3. CASE q = 1
    BY <1>1, <1>3 DEF Covered, ChunkCount, Chunk, LastTop, FullChunks, Top
  <1>4. QED
    BY <1>1, <1>2, <1>3

\* The product of two numbers greater than one is no less than their sum.
LEMMA ProductExceedsSum ==
  ASSUME NEW a \in Nat, NEW b \in Nat, a >= 2, b >= 2
  PROVE  a * b >= a + b
  <1> DEFINE x == a - 1
             y == b - 1
  <1>1. x \in Nat /\ y \in Nat /\ x >= 1 /\ y >= 1
    OBVIOUS
  <1>2. x * y >= 1
    BY <1>1
  <1>3. x * y = a * b - a - b + 1
    OBVIOUS
  <1>4. a * b \in Int
    OBVIOUS
  <1>5. QED
    BY <1>2, <1>3, <1>4

\* From two full chunks of at least two items on, the last item is in no chunk: the
\* slices advance by one item where they should advance by a chunk.
THEOREM LastItemIsDropped ==
  ASSUME NEW n \in Nat, NEW c \in Nat \ {0}, n >= 2 * c, c >= 2
  PROVE  n \notin Covered(n, c)
  <1> DEFINE q == n \div c
             m == n % c
  <1>1. q \in Nat /\ m \in 0 .. (c - 1) /\ n = c * q + m
    BY DivMod
  <1>2. q >= 2
    <2> HIDE DEF q, m
    <2>1. ASSUME q <= 1 PROVE FALSE
      <3>1. q = 0 \/ q = 1
        BY <1>1, <2>1
      <3>2. c * q = 0 \/ c * q = c
        BY <3>1
      <3>3. QED
        BY <1>1, <3>2
    <2>2. QED
      BY <1>1, <2>1
  <1>3. c * q >= c + q
    BY <1>1, <1>2, ProductExceedsSum
  <1>4. \A k \in 1 .. q + 1 : n \notin Chunk(k, n, c)
    <2> SUFFICES ASSUME NEW k \in 1 .. q + 1 PROVE n \notin Chunk(k, n, c)
      OBVIOUS
    <2>1. FullChunks(n, c) = q /\ LastTop(n, c) = q - 1 + c
      BY <1>1, <1>2 DEF FullChunks, LastTop, Top
    <2> DEFINE p == c * q
    <2>2. p \in Int /\ p >= c + q /\ n = p + m
      BY <1>1, <1>3
    <2> HIDE DEF p, q, m
    <2>3. CASE k <= q
      BY <1>1, <2>1, <2>2, <2>3 DEF Chunk, Top
    <2>4. CASE k > q
      <3>1. Chunk(k, n, c) = (q - 1 + c + 1) .. (q - 1 + c + m)
        BY <1>1, <2>1, <2>4 DEF Chunk, m
      <3>2. QED
        BY <1>1, <2>2, <3>1
    <2>5. QED
      BY <1>1, <2>3, <2>4
  <1>5. QED
    BY <1>1, <1>4 DEF Covered, ChunkCount, FullChunks
=============================================================================
