------------------------------- MODULE NodeMap -------------------------------
(***************************************************************************)
(* What the prefix tree (src/THEO/prefixdb/prefixTree.go) promises to      *)
(* PrefixDB: an atomic map from node keys to node infos.  A write replaces *)
(* the infos of its keys, a lookup answers the info of its key, and        *)
(* nothing else (caching, compaction, sweeps) is visible.                  *)
(***************************************************************************)
CONSTANTS Keys, Infos, Readers, NoInfo, Unanswered

VARIABLES
    map,    \* the info of every key, NoInfo: the key has no node
    got     \* the answer each reader has received, Unanswered: none yet

Init ==
    /\ map = [k \in Keys |-> NoInfo]
    /\ got = [r \in Readers |-> Unanswered]

\* PutNodeInfosWithBlockID for one key; NoInfo deletes it.
Write ==
    /\ \E k \in Keys, i \in Infos \union {NoInfo} : map' = [map EXCEPT ![k] = i]
    /\ UNCHANGED got

\* Get answers what the map holds at one instant of the call.
Answer ==
    /\ \E r \in Readers, k \in Keys : got' = [got EXCEPT ![r] = map[k]]
    /\ UNCHANGED map

\* The caller takes its answer.
Take ==
    /\ \E r \in Readers : got' = [got EXCEPT ![r] = Unanswered]
    /\ UNCHANGED map

Next == Write \/ Answer \/ Take

Spec == Init /\ [][Next]_<<map, got>>
==============================================================================
