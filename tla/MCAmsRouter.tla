---------------------------- MODULE MCAmsRouter ----------------------------
\* Values of the constants of AmsRouter for TLC.
EXTENDS AmsRouter, TLC

CONSTANTS t1, t2, A, B, h1, h2

TwoThreads == {t1, t2}
TwoNetIds == {A, B}
TwoHosts == {h1, h2}
=============================================================================
