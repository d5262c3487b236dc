--------------------------- MODULE MCDownloadClients ---------------------------
\* Small instances of DownloadClients for TLC.
EXTENDS DownloadClients, TLC

CONSTANTS p1, p2, r1, r2

Instances == 1..4
Alike == Permutations({p1, p2}) \cup Permutations({r1, r2})
=============================================================================
