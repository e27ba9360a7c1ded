------------------------ MODULE MCWaitForCompletion ------------------------
\* WaitForCompletion for TLC: two tasks, the first one asked for twice.
EXTENDS WaitForCompletion

CONSTANTS i1, i2

MCAsked == <<i1, i2, i1>>
=============================================================================
