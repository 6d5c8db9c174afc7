----------------------------- MODULE MCShmRing -----------------------------
EXTENDS ShmRing
=============================================================================
