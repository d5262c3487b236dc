-------------------------------- MODULE MCServer --------------------------------
EXTENDS Server, TLC

CONSTANTS p1, p2, c1, c2

\* Behaviours of the hub, and behaviours of the requests: many in one second,
\* or fewer with more that goes wrong.
SomeBudgets == {[connections |-> 2, messages |-> 3, requests |-> 0, faults |-> 0, seconds |-> 0],
                [connections |-> 2, messages |-> 2, requests |-> 0, faults |-> 1, seconds |-> 0],
                [connections |-> 0, messages |-> 0, requests |-> 4, faults |-> 1, seconds |-> 0],
                [connections |-> 0, messages |-> 0, requests |-> 3, faults |-> 2, seconds |-> 1]}
================================================================================
