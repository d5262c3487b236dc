--------------------------- MODULE MCDownloadQueue ---------------------------
\* Small instances of DownloadQueue for TLC.
EXTENDS DownloadQueue

CONSTANTS m1, m2

OneItem  == {1}
TwoItems == {1, 2}
OneBook  == {1}
TwoBooks == {1, 2}
SameBook  == [i \in Item |-> 1]
OwnBook   == [i \in Item |-> i]
Downloads2 == 1..2
Downloads3 == 1..3
Downloads4 == 1..4
Downloads5 == 1..5
=============================================================================
