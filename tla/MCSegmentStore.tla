---------------------------- MODULE MCSegmentStore ----------------------------
(* SegmentStore with first chunks below, at and above the trigger size.       *)
EXTENDS SegmentStore

Ents(s) == [i \in 1..Len(s) |-> Entry(s[i][1], s[i][2])]

InitialContents ==
    {<<>>,
     Ents(<<<<1, 1>>>>),                                    \* below the target
     Ents(<<<<1, 0>>, <<2, 1>>, <<1, 1>>>>),                \* at the trigger
     Ents(<<<<0, 0>>, <<1, 0>>, <<2, 1>>, <<0, 1>>>>)}      \* above it
=============================================================================
