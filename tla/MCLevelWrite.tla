--------------------------- MODULE MCLevelWrite ---------------------------
(* LevelWrite for TLC: a regular writer, a state writer whose batches are    *)
(* small or larger than the buffer, and a transaction.                      *)
EXTENDS LevelWrite

CONSTANTS wr, ws, wt

MCStoreOf == [w \in Writers |-> IF w = ws THEN "state" ELSE "regular"]
MCFound == [st \in Stores |-> IF st = "state" THEN 1 ELSE 0]
MCSizes == [w \in Writers |-> IF w = ws THEN {1, BufferCap + 1} ELSE {1}]
=============================================================================
