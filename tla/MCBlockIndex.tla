---------------------------- MODULE MCBlockIndex ----------------------------
\* BlockIndex for TLC; the configurations give every constant its value.
EXTENDS BlockIndex
=============================================================================
