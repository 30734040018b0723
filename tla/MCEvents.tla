------------------------------- MODULE MCEvents -------------------------------
EXTENDS Events, TLC

Symmetric == Permutations(Events) \cup Permutations(Requests)

\* A plan that freezes creation and two that the table leaves unlimited.
MCPlanLimits == [p \in 0..TopPlan |-> IF p = 0 THEN 1 ELSE None]
===============================================================================
