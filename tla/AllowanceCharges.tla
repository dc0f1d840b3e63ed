-------------------------- MODULE AllowanceCharges --------------------------
(***************************************************************************)
(* What admission promises about the monthly allowance, whatever happens to *)
(* the reads, limiters and counters it consults: a request is charged to at *)
(* most one period, no period is charged beyond the most its plans ever     *)
(* allowed, and a request that was refused is not charged at all.  Only a   *)
(* request that is served, or that failed as a fault of the gateway after   *)
(* its call was counted, may be charged.  A request may be served uncharged. *)
(***************************************************************************)
EXTENDS FiniteSets, Integers

CONSTANTS Requests, Periods, Uncharged, MostAllowed

VARIABLES outcome,  \* by request: "open", then how it was answered
          charged   \* by request: the period it was charged to, if any

Charges(period) == {r \in Requests : charged[r] = period}

Init == /\ outcome = [r \in Requests |-> "open"]
        /\ charged = [r \in Requests |-> Uncharged]

Answer(r, how) == /\ outcome[r] = "open"
                  /\ outcome' = [outcome EXCEPT ![r] = how]

Charge(r) == \E period \in Periods :
    /\ Cardinality(Charges(period)) < MostAllowed
    /\ charged' = [charged EXCEPT ![r] = period]

Serve(r)  == Answer(r, "served")  /\ (Charge(r) \/ UNCHANGED charged)
Fault(r)  == Answer(r, "faulted") /\ (Charge(r) \/ UNCHANGED charged)
Refuse(r) == Answer(r, "refused") /\ UNCHANGED charged

Next == \E r \in Requests : Serve(r) \/ Fault(r) \/ Refuse(r)

Spec == Init /\ [][Next]_<<outcome, charged>>
=============================================================================
