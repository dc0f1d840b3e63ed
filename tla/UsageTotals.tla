---------------------------- MODULE UsageTotals ----------------------------
(***************************************************************************)
(* What the usage ledger promises its readers: an event counts in its       *)
(* month's total from the moment it is recorded, once, at its cost, and a   *)
(* repricing replaces that cost.  Nothing else (no late or repeated insert, *)
(* no nightly run, finished, failed or overlapping another) moves a total.  *)
(***************************************************************************)
EXTENDS Integers

CONSTANTS Events, Costs

VARIABLES known,  \* the events recorded
          figure  \* what each event contributes to its month's total

Init == /\ known = {}
        /\ figure = [e \in Events |-> 0]

Record(e) ==
    /\ e \notin known
    /\ known' = known \union {e}
    /\ \E cost \in Costs : figure' = [figure EXCEPT ![e] = cost]

Reprice(priced, cost) ==
    /\ priced \subseteq known
    /\ figure' = [e \in Events |-> IF e \in priced THEN cost ELSE figure[e]]
    /\ UNCHANGED known

Next == \/ \E e \in Events : Record(e)
        \/ \E priced \in SUBSET Events, cost \in Costs : Reprice(priced, cost)

Spec == Init /\ [][Next]_<<known, figure>>
=============================================================================
