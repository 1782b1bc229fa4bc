---------------------------- MODULE MCDataPath ----------------------------
EXTENDS DataPath

\* Off, the rdmap part and both parts: 1 and 4 differ from 3 in the buffer, and 2 sends no
\* message, as 0.
ModesDef == {0, 3, 5}
=============================================================================
