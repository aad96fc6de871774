----------------------------- MODULE MCSemlib2 -----------------------------
EXTENDS Semlib2

MCInitValue == [s \in Sems |-> 1]
MCZero == [s \in Sems |-> 0]

=============================================================================
