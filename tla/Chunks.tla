------------------------------- MODULE Chunks -------------------------------
(***************************************************************************)
(* chunkify of core/utils/helpers.py, on positions: the chunks it yields   *)
(* for a sequence of n items and chunks of size c, as sets of positions    *)
(* 1 .. n.  Operators only, without state.                                 *)
(***************************************************************************)
EXTENDS Integers

FullChunks(n, c) == n \div c

\* An empty sequence yields nothing; any other one yields the full chunks and the rest,
\* which may be empty.
ChunkCount(n, c) == IF n = 0 THEN 0 ELSE FullChunks(n, c) + 1

\* Where the i-th full chunk (from 0) ends: `i + 1 * chunk_size`.
Top(i, c) == i + c

\* Where the last full chunk ends, 0 if there is none.
LastTop(n, c) == IF FullChunks(n, c) = 0 THEN 0 ELSE Top(FullChunks(n, c) - 1, c)

\* Mutant: the slice seq[i:top] loses its first item.
ChunkShort(k, n, c) ==
  IF k <= FullChunks(n, c) THEN (k + 1) .. Top(k - 1, c)
                           ELSE (LastTop(n, c) + 1) .. (LastTop(n, c) + (n % c))

\* The k-th chunk (from 1): seq[i:top] for i = k - 1, or seq[top : top + left_unchunked].
Chunk(k, n, c) ==
  IF k <= FullChunks(n, c) THEN k .. Top(k - 1, c)
                           ELSE (LastTop(n, c) + 1) .. (LastTop(n, c) + (n % c))

\* The positions that are in some chunk.
Covered(n, c) == {p \in 1 .. n : \E k \in 1 .. ChunkCount(n, c) : p \in Chunk(k, n, c)}
=============================================================================
