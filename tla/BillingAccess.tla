--------------------------- MODULE BillingAccess ---------------------------
(***************************************************************************)
(* What one isolate knows of one organization's plan (billing/gateway.ts):  *)
(* a short cache of pending or settled reads of the billing service, which  *)
(* concurrent requests share, and the last plan the service gave, kept      *)
(* longer so that an outage can be answered with it.  The plan changes at   *)
(* the service at any time; the isolate that asked for a change forgets     *)
(* what it knew, with reads possibly in flight.                             *)
(*                                                                          *)
(* A plan is the number of the change that made it, so a later plan is a    *)
(* greater number.  A request's own cache only repeats its first answer,    *)
(* and is left out.                                                         *)
(***************************************************************************)
EXTENDS Integers, Sequences

CONSTANTS Askers,      \* the requests that ask, each of which may have to read
          Nobody,
          AccessTtl,   \* BILLING_ACCESS_CACHE_TTL_MS
          Retry,       \* BILLING_UNAVAILABLE_RETRY_AFTER_SECONDS
          StaleMax,    \* BILLING_STALE_MAX_MS
          MaxCall,     \* bound: how long the service may take to answer
          MaxPlanChanges, \* bound: changes of plan
          LastMoment   \* bound: the clock stops here

ASSUME BillingAssumption ==
    /\ Nobody \notin Askers
    /\ AccessTtl \in Nat \ {0} /\ Retry \in Nat \ {0} /\ StaleMax \in Nat \ {0}
    /\ Retry <= AccessTtl
    /\ MaxCall \in Nat /\ MaxPlanChanges \in Nat /\ LastMoment \in Nat

VARIABLES
    now,
    history,   \* the service: every plan there has been, the last one current
    read,      \* the reads of the service, each by the request that began it
    call,      \* what each request asked and which read answers it
    entry,     \* billingAccessCache: the read it holds and until when
    lastKnown, \* lastKnownAccess
    floor,     \* observation: the plan current at the last invalidation
    lately     \* observation: the reads begun since this isolate last forgot any

caches      == <<entry, lastKnown>>
billingVars == <<now, history, read, call, caches, floor, lately>>

Moments == 0..LastMoment
Never == LastMoment + StaleMax + AccessTtl + Retry + MaxCall + 1
Versions == 1..(MaxPlanChanges + 1)
Current  == Len(history)

EmptyEntry == [read |-> Nobody, expiresAt |-> 0]
NotKnown == [plan |-> 0, storedAt |-> 0]
NotRead == [phase |-> "none", startedAt |-> 0, settledAt |-> 0, plan |-> 0, result |-> "none"]
NotAsked == [on |-> Nobody, askedAt |-> 0, floor |-> 0]

BillingInit ==
    /\ now = 0
    /\ history = <<[endsAt |-> Never, replacedAt |-> Never]>>
    /\ read = [r \in Askers |-> NotRead]
    /\ call = [r \in Askers |-> NotAsked]
    /\ entry = EmptyEntry /\ lastKnown = NotKnown
    /\ floor = 1 /\ lately = {}

-----------------------------------------------------------------------------
(* getBillingAccess *)

Unexpired(e) == e.read # Nobody /\ now < e.expiresAt

\* A fresh entry answers, settled or not, with the read it holds; otherwise the
\* request begins a read, which is cached while it is pending.
Ask(r) ==
    /\ call[r] = NotAsked
    /\ \/ /\ Unexpired(entry)
          /\ call' = [call EXCEPT ![r] = [on |-> entry.read, askedAt |-> now, floor |-> floor]]
          /\ UNCHANGED <<read, entry, lately>>
       \/ /\ ~Unexpired(entry)
          /\ call' = [call EXCEPT ![r] = [on |-> r, askedAt |-> now, floor |-> floor]]
          /\ read' = [read EXCEPT ![r] = [NotRead EXCEPT !.phase = "asked", !.startedAt = now]]
          /\ entry' = [read |-> r, expiresAt |-> now + AccessTtl]
          /\ lately' = lately \union {r}
    /\ UNCHANGED <<now, history, lastKnown, floor>>

-----------------------------------------------------------------------------
(* loadBillingAccess, and what is done with its answer in the same turn *)

EndsAt(plan) == history[plan].endsAt
Ended(plan)  == EndsAt(plan) <= now

\* The service evaluates the call.
Evaluated(r) ==
    /\ read[r].phase = "asked"
    /\ read' = [read EXCEPT ![r].phase = "read", ![r].plan = Current]
    /\ UNCHANGED <<now, history, call, caches, floor, lately>>

\* Fault: whatever was known answers, however old.
UsableAtAnyAge == lastKnown # NotKnown /\ ~Ended(lastKnown.plan)

\* The last known plan, while the stale window is open and it has not ended.
Usable == /\ lastKnown # NotKnown /\ now < lastKnown.storedAt + StaleMax
          /\ ~Ended(lastKnown.plan)

\* Fault: an answer is cached for its whole window although its plan ends in it.
FreshUntilTtl(plan, startedAt) == startedAt + AccessTtl

\* How long an answer of the service is cached: no longer than its plan lasts.
FreshUntil(plan, startedAt) ==
    IF EndsAt(plan) < startedAt + AccessTtl THEN EndsAt(plan) ELSE startedAt + AccessTtl

\* Fault: a failed read is forgotten at once.
NotHeld(startedAt) == startedAt

\* How long a failed, or stale, answer is held.
HeldUntil(startedAt) == startedAt + Retry

\* Fault: the entry is written whoever holds its place.
Reinserted(r, until) == [read |-> r, expiresAt |-> until]

\* Only the entry that still holds this read is changed by its answer.
Shortened(r, until) == IF entry.read = r THEN [entry EXCEPT !.expiresAt = until] ELSE entry

Settles(r, plan, result) ==
    read' = [read EXCEPT ![r] = [@ EXCEPT !.phase = "settled", !.settledAt = now,
                                          !.plan = plan, !.result = result]]

\* The service answered: the plan is remembered, unless it has already ended.
Returns(r) ==
    /\ read[r].phase = "read"
    /\ IF Ended(read[r].plan)
       THEN /\ Settles(r, 0, "unavailable")
            /\ entry' = Shortened(r, HeldUntil(read[r].startedAt))
            /\ UNCHANGED lastKnown
       ELSE /\ Settles(r, read[r].plan, "fresh")
            /\ entry' = Shortened(r, FreshUntil(read[r].plan, read[r].startedAt))
            /\ lastKnown' = [plan |-> read[r].plan, storedAt |-> now]
    /\ UNCHANGED <<now, history, call, floor, lately>>

\* The call failed, evaluated or not: the last known plan answers, if any may.
Fails(r) ==
    /\ read[r].phase \in {"asked", "read"}
    /\ IF Usable THEN Settles(r, lastKnown.plan, "stale") ELSE Settles(r, 0, "unavailable")
    /\ entry' = Shortened(r, HeldUntil(read[r].startedAt))
    /\ UNCHANGED <<now, history, call, lastKnown, floor, lately>>

-----------------------------------------------------------------------------
\* invalidateBillingAccess, after this isolate changed the plan or a claim did.
InvalidateAccess ==
    /\ entry' = EmptyEntry /\ lastKnown' = NotKnown
    /\ floor' = Current /\ lately' = {}
    /\ UNCHANGED <<now, history, read, call>>

\* Other organizations push an entry out of either map.
CrowdOut ==
    /\ \/ entry # EmptyEntry /\ entry' = EmptyEntry /\ UNCHANGED lastKnown /\ lately' = {}
       \/ lastKnown # NotKnown /\ lastKnown' = NotKnown /\ UNCHANGED <<entry, lately>>
    /\ UNCHANGED <<now, history, read, call, floor>>

\* The plan changes at the service, for good or until a day in the future.
PlanChanges ==
    /\ Current \in 1..MaxPlanChanges
    /\ \E endsAt \in {t \in Moments : t > now} \union {Never} :
          history' = Append([history EXCEPT ![Current].replacedAt = now],
                          [endsAt |-> endsAt, replacedAt |-> Never])
    /\ UNCHANGED <<now, read, call, caches, floor, lately>>

Pending(r) == read[r].phase \in {"asked", "read"}

\* Time passes, unless a call would be outstanding for longer than MaxCall.
TimePasses ==
    /\ now < LastMoment
    /\ \A r \in Askers : Pending(r) => now - read[r].startedAt < MaxCall
    /\ now' = now + 1
    /\ UNCHANGED <<history, read, call, caches, floor, lately>>

BillingNext ==
    \/ \E r \in Askers : Ask(r) \/ Evaluated(r) \/ Returns(r) \/ Fails(r)
    \/ InvalidateAccess \/ CrowdOut \/ PlanChanges \/ TimePasses

BillingSpec == BillingInit /\ [][BillingNext]_billingVars

-----------------------------------------------------------------------------
(* Properties *)

Results == {"none", "fresh", "stale", "unavailable"}

\* Every plan, read, request and cached entry has the shape the code gives it.
BillingTypeOK ==
    /\ now \in Moments
    /\ history \in Seq([endsAt: Moments \union {Never}, replacedAt: Moments \union {Never}])
    /\ Current \in Versions
    /\ read \in [Askers -> [phase: {"none", "asked", "read", "settled"}, startedAt: Moments,
                            settledAt: Moments, plan: 0..Current, result: Results]]
    /\ call \in [Askers -> [on: Askers \union {Nobody}, askedAt: Moments, floor: 0..Current]]
    /\ entry \in [read: Askers \union {Nobody}, expiresAt: Nat]
    /\ lastKnown \in [plan: 0..Current, storedAt: Moments]
    /\ floor \in 1..Current
    /\ lately \subseteq Askers

\* The requests a read has answered, and when: they wait for it to settle, or
\* find it settled.
Answer(r) == read[call[r].on]
AnsweredWith(result) ==
    {r \in Askers : call[r] # NotAsked /\ Answer(r).phase = "settled"
                        /\ Answer(r).result = result}
AnsweredAt(r) == IF call[r].askedAt > Answer(r).settledAt
                 THEN call[r].askedAt ELSE Answer(r).settledAt

Replaced(r) == history[Answer(r).plan].replacedAt

\* A request is judged by a plan that was the organization's at most one cache
\* window before it asked, and, while the service does not answer, at most the
\* stale window, one held failure and one call before ("up to 30 seconds
\* normally, and up to an hour while the billing service is unreachable"),
\* however reads are shared, overtaken, evicted and invalidated.
PlanIsRecent ==
    /\ \A r \in AnsweredWith("fresh") : Replaced(r) > call[r].askedAt - AccessTtl
    /\ \A r \in AnsweredWith("stale") :
          Replaced(r) > call[r].askedAt - (StaleMax + Retry + MaxCall)

\* A plan that has ended admits nobody: not from the cache it was put in before
\* it ended, and from a held stale answer only while that is held
\* (entitlementEndsAt and the window its entry is shortened to).
EndedPlanIsOver ==
    /\ \A r \in AnsweredWith("fresh") : EndsAt(Answer(r).plan) > AnsweredAt(r)
    /\ \A r \in AnsweredWith("stale") : EndsAt(Answer(r).plan) + Retry > AnsweredAt(r)

\* A request made after a change was invalidated is not answered afresh with an
\* older plan: a read in flight across the invalidation does not come back into
\* the cache (getBillingAccess: "Only this entry's own answer may shorten it").
FreshAfterInvalidation ==
    \A r \in AnsweredWith("fresh") : Answer(r).plan >= call[r].floor

Failed(q) == read[q].phase = "settled" /\ read[q].result # "fresh"
Begins(r) == read[r].phase = "none" /\ read'[r].phase = "asked"

\* While the service fails it is asked once per retry interval: no read begins
\* sooner than that after one that failed, unless this isolate forgot meanwhile
\* ("a flapping billing service is asked at most once per this interval").
AskedOncePerRetry ==
    [][\A r \in Askers, q \in lately :
          Begins(r) /\ Failed(q) => now >= read[q].startedAt + Retry]_billingVars

\* An invalidation forgets the plan: no request made after it is answered, in
\* an outage either, with a plan replaced before it (invalidateBillingAccess:
\* "Forgets what this isolate [...] knows of an organization's plan").
InvalidationForgets ==
    FreshAfterInvalidation /\ \A r \in AnsweredWith("stale") : Answer(r).plan >= call[r].floor
=============================================================================
