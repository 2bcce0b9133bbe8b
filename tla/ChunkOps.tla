------------------------------ MODULE ChunkOps ------------------------------
(***************************************************************************)
(* What list_split() and list_from_chunks() do to a list, as operators on  *)
(* sequences.  Module ListHeap checks the pointer code against them.       *)
(***************************************************************************)
EXTENDS CacheLines, Sequences

Chunks == Target + 1

(* list_split() gives every chunk Len(s) \div Chunks lines and the last    *)
(* one the rest.                                                           *)
First(s, j) == (j - 1) * (Len(s) \div Chunks) + 1
Final(s, j) == IF j = Chunks THEN Len(s) ELSE j * (Len(s) \div Chunks)

Chunk(s, j) == SubSeq(s, First(s, j), Final(s, j))

WithoutOneMore(s, j) == SubSeq(s, Final(s, j) + 2, Len(s))
                          \o SubSeq(s, 1, First(s, j) - 1)

(* list_from_chunks() links the other chunks, starting after chunk j and   *)
(* wrapping around.                                                        *)
Without(s, j) == SubSeq(s, Final(s, j) + 1, Len(s))
                   \o SubSeq(s, 1, First(s, j) - 1)
=============================================================================
