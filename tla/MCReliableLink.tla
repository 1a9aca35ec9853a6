--------------------------- MODULE MCReliableLink ---------------------------
EXTENDS ReliableLink
=============================================================================
