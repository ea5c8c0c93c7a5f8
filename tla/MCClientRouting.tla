--------------------------- MODULE MCClientRouting ---------------------------
EXTENDS ClientRouting, TLC
=============================================================================
