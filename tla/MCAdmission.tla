---------------------------- MODULE MCAdmission ----------------------------
(***************************************************************************)
(* Admission; the caches of the rows it and the gates before it read; and    *)
(* the rows several editors write, under ceilings those caches may answer    *)
(* with.  They share no state here: admission takes any answer a cache may   *)
(* give, and a creation any ceiling its account had.  A behaviour is one of   *)
(* the three, so their state spaces add up.                                  *)
(***************************************************************************)
EXTENDS Admission, IsolateCaches, ResourceWrites, TLC

VARIABLE part

gateVars == <<part, vars, cacheVars, writeVars>>

GateInit ==
    /\ part \in {"admission", "caches", "writes"}
    /\ Init /\ CacheInit /\ WritesInit
    /\ part # "admission" => request = [r \in Requests |-> CHOOSE q \in Prepared("attest") : TRUE]
    /\ part # "caches" => cache = CHOOSE c \in RowCaches : TRUE
    /\ part # "writes" => plans = {CHOOSE ceiling \in Ceilings : TRUE}

\* Applications are interchangeable: they are created in one order.
InOrder == born' \cap AppIds = 1 .. Cardinality(born' \cap AppIds)

GateNext ==
    /\ UNCHANGED part
    /\ \/ part = "admission" /\ Next /\ UNCHANGED <<cacheVars, writeVars>>
       \/ part = "caches" /\ CacheNext /\ UNCHANGED <<vars, writeVars>>
       \/ part = "writes" /\ WritesNext /\ InOrder /\ UNCHANGED <<vars, cacheVars>>

GateSpec == GateInit /\ [][GateNext]_gateVars

Unlimited == [rpm |-> NoLimit, rpd |-> NoLimit, budget |-> FALSE]

\* A caller and an application that can each be the one out of room, and an
\* application whose limits were removed while requests were in flight.
MCConfigs == {[perUser |-> [rpm |-> 1, rpd |-> NoLimit, budget |-> FALSE],
               perApp  |-> [rpm |-> NoLimit, rpd |-> 1, budget |-> FALSE]],
              [perUser |-> Unlimited, perApp |-> Unlimited]}

\* A plan with nothing left, and one with a request a month.
MCPlanLimits == {0, 1}

\* A plan with room for more keys, and one with room for more applications and for
\* none of their keys.
MCCeilings == {[apps |-> 1, keys |-> 2], [apps |-> 2, keys |-> 0]}

\* Requests, lookups and writers are given the same names.
MCSymmetry == Permutations(Requests) \union Permutations(Isolates)
=============================================================================
