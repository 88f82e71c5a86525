--------------------------- MODULE MCActionStream ---------------------------
EXTENDS ActionStream, TLC
CONSTANTS s1, s2
MCOne == {s1}
MCTwo == {s1, s2}
=============================================================================
