---------------------------- MODULE MCBlockReads ----------------------------
\* BlockReads for TLC: a replay that writes each key once, in its own block,
\* and a program that does anything with two keys.
EXTENDS BlockReads

CONSTANTS k1, k2, k2b, k3

MCKeyBlock == (k1 :> 1) @@ (k2 :> 2) @@ (k2b :> 2) @@ (k3 :> 3)

MCPrograms ==
    {[does |-> {"own", "mark", "restart"}, keys |-> Keys, blocks |-> Blocks],
     [does |-> {"again", "any", "delete", "prefix", "mark", "restart"},
      keys |-> {k1, k2}, blocks |-> 1 .. 4]}
=============================================================================
