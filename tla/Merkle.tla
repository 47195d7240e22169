------------------------------- MODULE Merkle -------------------------------
(***************************************************************************)
(* Merkle proofs over weight chunks and trace leaves (merkle.rs).  A hash  *)
(* is the term it is computed from, so two hashes agree exactly when their *)
(* inputs do.  The "rt" tree pairs a lone last node with itself; the "b3"  *)
(* tree carries it up and marks its root, as BLAKE3 does.  Positions count *)
(* from 0.                                                                 *)
(***************************************************************************)
EXTENDS Integers, Sequences

CONSTANT HashChunk    \* B3_CHUNK, units of one chunk
ASSUME HashChunkAssumption == HashChunk \in Nat \ {0}

NoHash == <<>>
Halved(n) == (n + 1) \div 2
NChunks(total) == IF total = 0 THEN 1 ELSE (total + HashChunk - 1) \div HashChunk

\* Parent of two nodes; top says that it is the root of a b3 tree.
Merge(tree, l, r, top) == IF tree = "rt" THEN <<"pair", l, r>> ELSE <<IF top THEN "root" ELSE "node", l, r>>

\* The level above, and what becomes of a last node without a sibling.
NextLevel(tree, level, top) ==
    [i \in 1..Halved(Len(level)) |->
        IF 2 * i <= Len(level) THEN Merge(tree, level[2 * i - 1], level[2 * i], top)
        ELSE IF tree = "rt" THEN Merge(tree, level[2 * i - 1], level[2 * i - 1], top) ELSE level[2 * i - 1]]

RECURSIVE Root(_, _)
Root(tree, level) == IF Len(level) = 1 THEN level[1] ELSE Root(tree, NextLevel(tree, level, Len(level) = 2))
-----------------------------------------------------------------------------
\* Siblings of the nodes lo..hi, level by level, the left one first.
RECURSIVE RangeProof(_, _, _, _)
RangeProof(tree, level, lo, hi) ==
    IF Len(level) = 1 THEN <<>>
    ELSE (IF lo % 2 = 1 THEN <<level[lo]>> ELSE <<>>)
           \o (IF hi % 2 = 0 /\ hi + 1 < Len(level) THEN <<level[hi + 2]>> ELSE <<>>)
           \o RangeProof(tree, NextLevel(tree, level, Len(level) = 2), lo \div 2, hi \div 2)

\* Root reached from the nodes of a level of n, the first at lo; every hash of the proof is used.
RECURSIVE FoldLevel(_, _, _, _, _)
FoldLevel(tree, n, lo, level, proof) ==
    LET left == lo % 2
        hi   == lo + Len(level) - 1
        right == IF hi % 2 = 0 /\ hi + 1 < n THEN 1 ELSE 0
    IN  IF n = 1 THEN (IF proof = <<>> /\ Len(level) = 1 THEN level[1] ELSE NoHash)
        ELSE IF Len(proof) < left + right THEN NoHash
        ELSE FoldLevel(tree, Halved(n), (lo - left) \div 2,
                       NextLevel(tree, SubSeq(proof, 1, left) \o level \o SubSeq(proof, left + 1, left + right), n = 2),
                       SubSeq(proof, left + right + 1, Len(proof)))

\* Mutant of the definition below.
RangeFoldUnbounded(tree, n, first, leaves, proof) == IF leaves = <<>> THEN NoHash ELSE FoldLevel(tree, n, first, leaves, proof)

\* Root reached from contiguous leaves of a tree of n.
RangeFold(tree, n, first, leaves, proof) ==
    IF leaves = <<>> \/ first + Len(leaves) > n THEN NoHash ELSE FoldLevel(tree, n, first, leaves, proof)

\* The same for one leaf of a b3 tree, whose path skips the levels where it has no sibling.
RECURSIVE B3Path(_, _)
B3Path(level, i) ==
    LET n == Len(level)
    IN  IF n = 1 THEN <<>>
        ELSE (IF n % 2 = 0 \/ i # n - 1 THEN <<level[IF i % 2 = 0 THEN i + 2 ELSE i]>> ELSE <<>>)
               \o B3Path(NextLevel("b3", level, n = 2), i \div 2)

RECURSIVE B3Climb(_, _, _, _)
B3Climb(n, i, acc, path) ==
    IF n = 1 THEN (IF path = <<>> THEN acc ELSE NoHash)
    ELSE IF n % 2 = 1 /\ i = n - 1 THEN B3Climb(Halved(n), i \div 2, acc, path)
    ELSE IF path = <<>> THEN NoHash
    ELSE B3Climb(Halved(n), i \div 2,
                 IF i % 2 = 0 THEN Merge("b3", acc, Head(path), n = 2) ELSE Merge("b3", Head(path), acc, n = 2), Tail(path))
B3Fold(n, index, leaf, path) == IF index >= n THEN NoHash ELSE B3Climb(n, index, leaf, path)
-----------------------------------------------------------------------------
\* Chunk c (from 0) of the data; its chaining value depends on where it is.
ChunkAt(data, c) == SubSeq(data, c * HashChunk + 1, IF (c + 1) * HashChunk > Len(data) THEN Len(data) ELSE (c + 1) * HashChunk)
ChunkCv(chunk, c) == <<"cv", c, chunk>>
HashOf(bytes) == <<"hash", bytes>>
ChunkCvs(data) == [c \in 1..NChunks(Len(data)) |-> ChunkCv(ChunkAt(data, c - 1), c - 1)]

\* Hash of an input of a declared length, from one of its chunks.
LeafFromChunk(total, c, chunk, path) ==
    LET n == NChunks(total)
        expected == IF c + 1 < n THEN HashChunk ELSE total - c * HashChunk
    IN  IF c >= n \/ Len(chunk) # expected THEN NoHash
        ELSE IF n = 1 THEN (IF path = <<>> THEN HashOf(chunk) ELSE NoHash)
        ELSE B3Fold(n, c, ChunkCv(chunk, c), path)

\* The same from contiguous chunks, end to end.
LeafFromChunks(total, first, bytes, proof) ==
    LET n     == NChunks(total)
        count == IF bytes = <<>> THEN 0 ELSE NChunks(Len(bytes))
        end   == first + count
    IN  IF count = 0 \/ end > n \/ Len(bytes) # (IF total < end * HashChunk THEN total ELSE end * HashChunk) - first * HashChunk
        THEN NoHash
        ELSE IF n = 1 THEN (IF proof = <<>> THEN HashOf(bytes) ELSE NoHash)
        ELSE RangeFold("b3", n, first, [i \in 1..count |-> ChunkCv(ChunkAt(bytes, i - 1), first + i - 1)], proof)

ChunksProof(data, first, count) ==
    IF NChunks(Len(data)) = 1 THEN <<>> ELSE RangeProof("b3", ChunkCvs(data), first, first + count - 1)
=============================================================================
