--------------------------- MODULE MCSegmentIndex ---------------------------
(* A small folder: a flat index, one of one page, one of two pages.        *)
EXTENDS SegmentIndex

Chunks(starts) == [i \in 1..Len(starts) |-> Meta(i, starts[i])]
FolderIndexes == {Chunks(<<1>>), Chunks(<<0, 2>>), Chunks(<<1, 2, 3>>)}
=============================================================================
