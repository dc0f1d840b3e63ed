------------------------------ MODULE MCCleanup ------------------------------
(***************************************************************************)
(* What writes conversations, and what deletes stored state when its time   *)
(* is over: an application's log; the nightly deletion of what it wrote; the *)
(* allowance that run and its sweeps draw on; and the alarm of an endpoint's *)
(* counter.  They share no state: the deletion takes any stored object, and *)
(* the allowance any number of its calls.  A behaviour is one of the four,   *)
(* so their state spaces add up.                                             *)
(***************************************************************************)
EXTENDS ConversationRetention, EndpointRateLimiter, ConversationLog, MCNightlyAllowance

VARIABLE part

cleanupVars == <<part, retentionVars, endpointVars, vars, nightVars>>

\* Records are interchangeable: theirs are numbers, in the order of their days.
CleanupInit ==
    /\ part \in {"log", "retention", "night", "endpoint"}
    /\ Init /\ RetentionInit /\ NightInit /\ EndpointInit
    /\ \A r, s \in Records : r < s => capture[r].day <= capture[s].day
    /\ part # "log" => capture = [r \in Records |-> [phase |-> "served", day |-> Min(Days)]]
    /\ part # "night" => deployment = CHOOSE d \in Deployments : TRUE
    /\ part # "endpoint" => policy = CHOOSE p \in Policies : TRUE

InLog(step)       == part = "log" /\ step /\ UNCHANGED <<part, retentionVars, nightVars, endpointVars>>
InRetention(step) == part = "retention" /\ step /\ UNCHANGED <<part, vars, nightVars, endpointVars>>
InNight(step)     == part = "night" /\ step /\ UNCHANGED <<part, vars, retentionVars, endpointVars>>
InEndpoint(step)  == part = "endpoint" /\ step /\ UNCHANGED <<part, vars, retentionVars, nightVars>>

CleanupNext ==
    \/ InLog(Next)
    \/ InRetention(RetentionNext)
    \/ InNight(NightNext)
    \/ InEndpoint(EndpointNext)

\* The platform and the night's run go on: one condition for all their steps,
\* weaker than the fairness of each part, which asks it of every action.
GoesOn ==
    \/ InLog(AlarmFires \/ PutLands \/ PutAnswered)
    \/ InRetention(Start \/ Work)
    \/ InNight(NightBegins \/ Sweeps)
    \/ InEndpoint(InstantPasses \/ Deliver \/ AlarmRuns)

CleanupSpec == CleanupInit /\ [][CleanupNext]_cleanupVars /\ WF_cleanupVars(GoesOn)

MCRetentions == {1, 2}

\* A window with room for two, and a longer one with room for one.
MCPolicies == {[limit |-> 2, windowMs |-> 2], [limit |-> 1, windowMs |-> 3]}

MCDays == {0, 1}

\* A line that fills half a batch each.
MCChars == [r \in Records |-> 1]
=============================================================================
