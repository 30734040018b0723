--------------------------- MODULE MCRegistrations ---------------------------
\* Small instances of Registrations.
EXTENDS Registrations, TLC

MCSettings == {<<TRUE, 1, {}>>, <<TRUE, 2, Tiers>>, <<FALSE, 0, {}>>}

Symmetric ==
  Permutations(Users) \cup Permutations(Requests) \cup Permutations(Tiers)
=============================================================================
