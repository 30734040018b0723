------------------------------- MODULE MCMembers -------------------------------
\* Small instances of Members.
EXTENDS Members, TLC

Symmetric == Permutations(Users) \cup Permutations(Invites) \cup Permutations(Requests)
=============================================================================
