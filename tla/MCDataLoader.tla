---------------------------- MODULE MCDataLoader ----------------------------
EXTENDS DataLoader

CONSTANTS r1, r2, r3

\* One request of high priority, two of the same lower one.
Priorities == [r \in Request |-> IF r = r1 THEN 10 ELSE 50]

=============================================================================
