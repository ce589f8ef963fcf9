--------------------------- MODULE MCEdgeCollector ---------------------------
\* An instance of EdgeCollector for TLC: one group, a PLC value that changes
\* between two.
EXTENDS EdgeCollector

CONSTANTS g, u, v

MCGroups == {g}
MCValues == {u, v}

=============================================================================
