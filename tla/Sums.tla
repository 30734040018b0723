--------------------------------- MODULE Sums ---------------------------------
\* Sums over the elements of a finite set.
EXTENDS FiniteSetsExt

\* The sum of f[x] for x in S.  f is a function, not an operator, so that facts
\* about every f can be stated and cited.
Total(S, f) == MapThenSumSet(LAMBDA x : f[x], S)
===============================================================================
