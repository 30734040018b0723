------------------------------- MODULE MCCheckIn -------------------------------
\* Small instances of CheckIn.
EXTENDS CheckIn, TLC

Symmetric == Permutations(Badges) \cup Permutations(Scanners)
===============================================================================
