----------------------------- MODULE MCPollGroup -----------------------------
\* An instance of PollGroup for TLC: one tag whose deadband takes two steps of
\* its readings to cross.
EXTENDS PollGroup

CONSTANTS a

MCReadings == {0, 1, 2}
MCDeadband == [k \in Tags |-> 2]

=============================================================================
