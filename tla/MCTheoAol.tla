----------------------------- MODULE MCTheoAol -----------------------------
\* TheoAol for TLC: three blocks hold keys, one of them two keys.
EXTENDS TheoAol

CONSTANTS k1, k2, k2b, k3

MCKeyBlock == (k1 :> 1) @@ (k2 :> 2) @@ (k2b :> 2) @@ (k3 :> 3)
MCKeyBlockFew == (k1 :> 1) @@ (k2 :> 2) @@ (k3 :> 3)
=============================================================================
