--------------------------- MODULE MCSubscriptions ---------------------------
\* Small instances of Subscriptions.
EXTENDS Subscriptions, TLC

MCSymmetry == Permutations(Requests)
=============================================================================
