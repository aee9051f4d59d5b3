--------------------------- MODULE MCRequestGuard ---------------------------
EXTENDS RequestGuard
=============================================================================
