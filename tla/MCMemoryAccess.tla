--------------------------- MODULE MCMemoryAccess ---------------------------
\* Memory accesses alone, for a client that was written for smaller agents.
EXTENDS MemoryAccess
SomePage1 == 3 .. 5
=============================================================================
