------------------------ MODULE EndpointRateLimiter ------------------------
(***************************************************************************)
(* The abuse counter of one endpoint and subject (do/EndpointRateLimiter.ts):*)
(* one fixed-window counter, and one alarm that deletes it when its window    *)
(* is over so that a dormant subject stores nothing.  The platform delivers  *)
(* an alarm at its time or any time later, and again when its handler fails; *)
(* requests are served between the delivery and the handler.  Callers pass   *)
(* the policy, which a deployment may change while the counter is stored.    *)
(***************************************************************************)
EXTENDS Integers

CONSTANTS Policies,      \* the [limit, windowMs] an endpoint may be given
          AlarmFailures, \* bound: failures of the alarm's handler, fewer than
                         \* the platform's retries
          Requested,     \* bound: the last instant a request arrives
          MaxInstant     \* bound: the clock

ASSUME EndpointAssumption ==
    /\ Policies \subseteq [limit: Nat \ {0}, windowMs: Nat \ {0}] /\ Policies # {}
    /\ AlarmFailures \in Nat /\ Requested \in Nat
    /\ MaxInstant \in Nat /\ \A p \in Policies : Requested + p.windowMs <= MaxInstant

VARIABLES
    instant,
    policy,    \* the policy the deployed Worker passes
    counter,   \* COUNTER_KEY
    due,       \* when the object's alarm is due
    delivered, \* an alarm was delivered and its handler has yet to run
    failed,    \* how often the handler failed
    allowed    \* observation: what was allowed in the window last counted

endpointVars == <<instant, policy, counter, due, delivered, failed, allowed>>

NotDue   == -1
NoCounter == [windowStart |-> -1, windowMs |-> 1, count |-> 0]

EndpointInit ==
    /\ instant = 0 /\ policy \in Policies
    /\ counter = NoCounter /\ due = NotDue
    /\ delivered = FALSE /\ failed = 0
    /\ allowed = NoCounter

WindowStart == (instant \div policy.windowMs) * policy.windowMs

Current(c) == c.windowStart = WindowStart /\ c.windowMs = policy.windowMs

CountOf(c) == IF Current(c) THEN c.count ELSE 0

\* One more in the current window.
Opened(c) == [windowStart |-> WindowStart, windowMs |-> policy.windowMs, count |-> CountOf(c) + 1]

ExpiresAt(c) == c.windowStart + c.windowMs

\* check, where it allows the request; a refusal stores nothing.  The alarm is
\* set with the first request of a window.
Allow ==
    /\ instant <= Requested
    /\ CountOf(counter) < policy.limit
    /\ counter' = Opened(counter)
    /\ due' = IF Current(counter) THEN due ELSE ExpiresAt(counter')
    /\ allowed' = [windowStart |-> WindowStart, windowMs |-> policy.windowMs,
                   count |-> IF allowed.windowStart = WindowStart /\ allowed.windowMs = policy.windowMs
                             THEN allowed.count + 1 ELSE 1]
    /\ UNCHANGED <<instant, policy, delivered, failed>>

\* The platform delivers the alarm, which is then no longer set.
Deliver ==
    /\ due # NotDue /\ due <= instant /\ ~delivered
    /\ delivered' = TRUE /\ due' = NotDue
    /\ UNCHANGED <<instant, policy, counter, failed, allowed>>

\* Fault: the handler deletes whatever is stored.
DeletesAll ==
    counter' = NoCounter /\ due' = NotDue

\* Fault: the handler ends the alarm for good, and leaves a newer window's counter.
DeletesOrEnds ==
    /\ counter' = IF ExpiresAt(counter) <= instant THEN NoCounter ELSE counter
    /\ due' = NotDue

\* A counter whose window is over goes, with any alarm; one that a request opened
\* meanwhile stays, and the alarm is set for its own end.
DeletesOrRearms ==
    IF counter = NoCounter \/ ExpiresAt(counter) <= instant
    THEN counter' = NoCounter /\ due' = NotDue
    ELSE due' = ExpiresAt(counter) /\ UNCHANGED counter

AlarmRuns ==
    /\ delivered /\ delivered' = FALSE
    /\ DeletesOrRearms
    /\ UNCHANGED <<instant, policy, failed, allowed>>

\* The handler fails, before it changed anything, and is run again.
AlarmFails ==
    /\ delivered /\ failed < AlarmFailures
    /\ failed' = failed + 1
    /\ UNCHANGED <<instant, policy, counter, due, delivered, allowed>>

Deploy ==
    /\ policy' \in Policies \ {policy}
    /\ instant <= Requested
    /\ UNCHANGED <<instant, counter, due, delivered, failed, allowed>>

InstantPasses ==
    /\ instant < MaxInstant
    /\ instant' = instant + 1
    /\ UNCHANGED <<policy, counter, due, delivered, failed, allowed>>

EndpointNext == Allow \/ Deliver \/ AlarmRuns \/ AlarmFails \/ Deploy \/ InstantPasses

\* Time goes on, and the platform delivers what is due and runs it.
EndpointFairness == WF_endpointVars(InstantPasses) /\ WF_endpointVars(Deliver) /\ WF_endpointVars(AlarmRuns)

EndpointSpec == EndpointInit /\ [][EndpointNext]_endpointVars /\ EndpointFairness
-----------------------------------------------------------------------------
(* Properties.                                                              *)

\* However late an alarm is delivered and however often its handler is retried,
\* no request is allowed beyond the limit of the window it arrives in: a cleanup
\* that began for an older window never forgets what this one counted.
WindowHeld == [][allowed' # allowed => allowed'.count <= policy.limit]_endpointVars

\* A subject nobody asks about any more stores nothing, neither counter nor alarm,
\* whatever alarm was replaced, delivered late or retried on the way ("Dormant
\* subjects then retain no billable storage").
DormantStoresNothing == <>[](counter = NoCounter /\ due = NotDue)
=============================================================================
