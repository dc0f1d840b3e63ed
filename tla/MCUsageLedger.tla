--------------------------- MODULE MCUsageLedger ---------------------------
EXTENDS UsageLedger, TLC

\* A free event and one that is not: a repricing makes the ledger of the one
\* and moves the ledger of the other.
MCCosts  == {0, 1}
OneCost  == {1}
OnePrice == {2}
NoPrices == {}

\* A user's requests from an installed application, and those that name no install;
\* or requests that name nobody.
CONSTANTS alice, device
UserCallers == {[user |-> alice, install |-> device], [user |-> alice, install |-> NoName]}
Nobody      == {Anonymous}

RunSymmetry   == Permutations(Runs) \union Permutations(Events)
EventSymmetry == Permutations(Events)
=============================================================================
