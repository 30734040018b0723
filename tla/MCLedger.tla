------------------------------- MODULE MCLedger -------------------------------
\* Small instances of Ledger.
EXTENDS Ledger

CONSTANTS p1, p2

\* Two periods that overlap: the first success of p1 falls into both, the
\* second one, after an overwritten success, into the later period only.
Overlapping == {{<<p1, 1>>}, {<<p1, 1>>, <<p1, 2>>, <<p2, 1>>}}
===============================================================================
