----------------------------- MODULE MCPayments -----------------------------
EXTENDS Payments, TLC
Symmetric == Permutations(Requests) \cup Permutations(Payments)
=============================================================================
