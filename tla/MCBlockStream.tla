--------------------------- MODULE MCBlockStream ---------------------------
EXTENDS BlockStream
=============================================================================
