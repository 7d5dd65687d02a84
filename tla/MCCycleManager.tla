--------------------------- MODULE MCCycleManager ---------------------------
\* Two starts: a cycle whose tail may still be under way, and the probe or cycle that
\* follows it.  A tail compares its identity with the latest one only.
EXTENDS CycleManager
=============================================================================
