---------------------------- MODULE MCExecution ----------------------------
EXTENDS Execution

\* Longer than the observer's two windows together.
MCSizes == {3}
=============================================================================
