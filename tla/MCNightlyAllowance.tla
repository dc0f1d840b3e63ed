------------------------- MODULE MCNightlyAllowance -------------------------
EXTENDS NightlyAllowance

\* Self-hosted and hosted on the default allowance, and both backlogs on one that
\* is large enough for them.
MCDeployments ==
    {[accounts |-> FALSE, conversations |-> FALSE, allowance |-> 49],
     [accounts |-> TRUE,  conversations |-> FALSE, allowance |-> 49],
     [accounts |-> FALSE, conversations |-> TRUE,  allowance |-> 49],
     [accounts |-> TRUE,  conversations |-> TRUE,  allowance |-> 79]}

\* Both backlogs on the default allowance.
MCBothOnDefault == {[accounts |-> TRUE, conversations |-> TRUE, allowance |-> 49]}
=============================================================================
