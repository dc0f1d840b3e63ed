----------------------------- MODULE Admission -----------------------------
(***************************************************************************)
(* The admission of prepared requests to one application                    *)
(* (execution/admission.ts).  Each request reads its user's block status    *)
(* and its organization's allowance together, decides only when both have   *)
(* settled, then calls the caller's limiter, the application's limiter and  *)
(* the allowance counter, in that order, each a Durable Object shared with  *)
(* the requests in flight beside it.                                        *)
(*                                                                          *)
(* What a read answers is any value it can: the caches behind it may be     *)
(* stale and billing may change between two requests.  A limiter may refuse *)
(* for a replayed assertion or a spent budget at any time (UserLimiter says *)
(* when it does); its windows are counted here.                             *)
(***************************************************************************)
EXTENDS RequestWindows, OrgQuota, FiniteSets

CONSTANTS Requests,    \* the requests that reach admission
          Installs, Users,
          NoUser,      \* the user of a request that identifies nobody
          Configs,     \* the limits an application may have had: perUser, perApp
          Schedules,   \* the allowance schedules (free, a subscription)
          PlanLimits,  \* the monthly limits of plans
          MaxClock     \* bound: the clock stops here

Limits == [rpm: Nat \union {NoLimit}, rpd: Nat \union {NoLimit}, budget: BOOLEAN]

ASSUME AdmissionAssumption ==
    /\ MaxClock \in Nat
    /\ \A c \in Configs : c \in [perUser: Limits, perApp: Limits]
    /\ PlanLimits \subseteq Int
    /\ \E top \in PlanLimits \union {0} : 0 <= top /\ \A l \in PlanLimits : l <= top
    /\ NoUser \notin Users
    /\ IsFiniteSet(Requests)

VARIABLES
    clock,
    request,   \* what each request is and has learned
    windows,   \* the request_windows row of each limiter object
    used,      \* the allowance counter's row of each period
    tokens,    \* observation: the limiters that have counted each request
    charged    \* observation: the period each request was counted toward

vars == <<clock, request, windows, used, tokens, charged>>

Times   == 0..MaxClock
Periods == Schedules \X {MonthOf(t) : t \in Times}
Uncharged == <<"none", -1>>

Identities ==
    [method: {"attest"}, install: Installs, user: Users \union {NoUser}]
      \union [method: {"server"}, install: {NoUser}, user: Users \union {NoUser}]

App == <<"app", NoUser>>
LimiterNames == {App} \union ({"install"} \X Installs) \union ({"user"} \X Users)

HasLimits(limits) == limits.rpm # NoLimit \/ limits.rpd # NoLimit \/ limits.budget

\* The per-caller limiter a request is counted by, as a set: empty for none.
CallerLimiter(q) ==
    IF q.identity.method = "attest"
    THEN IF q.signed \/ HasLimits(q.config.perUser)
         THEN {<<"install", q.identity.install>>} ELSE {}
    ELSE IF HasLimits(q.config.perUser) /\ q.identity.user # NoUser
         THEN {<<"user", q.identity.user>>} ELSE {}

AppLimiter(q) == IF HasLimits(q.config.perApp) THEN {App} ELSE {}

BlockAnswers == {"active", "blocked", "failed"}
NoQuota      == [kind |-> "pending", limit |-> 0, period |-> Uncharged]
\* No plan resolves ("unpaid"); nothing is counted ("unmetered": self-hosted,
\* billing unavailable, or a plan without a monthly limit); or a metered plan.
QuotaAnswers(periods) ==
    [kind: {"failed", "unpaid", "unmetered"}, limit: {0}, period: {Uncharged}]
      \union [kind: {"metered"}, limit: PlanLimits, period: periods]

Stages == {"idle", "reading", "caller", "app", "quota", "served", "refused", "faulted"}

RequestRecords ==
    [stage: Stages, identity: Identities, config: Configs, signed: BOOLEAN,
     arrivedAt: Times, now: Times,
     block: BlockAnswers \union {"pending"},
     quota: QuotaAnswers(Periods) \union {NoQuota}]

\* A request that reaches admission.  An application uses one of the two
\* methods, only a device signs, and per-user limits need identified users.
Prepared(method) ==
    {q \in [stage: {"idle"}, identity: Identities, config: Configs, signed: BOOLEAN,
            arrivedAt: {0}, now: {0}, block: {"pending"}, quota: {NoQuota}] :
        /\ q.identity.method = method
        /\ q.signed => method = "attest"
        /\ method = "server" /\ q.identity.user = NoUser => ~HasLimits(q.config.perUser)}

Init ==
    /\ clock = 0
    /\ \E method \in {"attest", "server"} : request \in [Requests -> Prepared(method)]
    /\ windows = [n \in LimiterNames |-> NoWindows]
    /\ used = [p \in Periods |-> 0]
    /\ tokens = [r \in Requests |-> {}]
    /\ charged = [r \in Requests |-> Uncharged]

\* Fault: the allowance is claimed while the limiters have yet to answer.
ClaimFirst(stage) == CASE stage = "reading" -> "quota" [] stage = "quota" -> "caller"
                       [] stage = "caller" -> "app" [] stage = "app" -> "served"

\* The order in which a request is judged.
After(stage) == CASE stage = "reading" -> "caller" [] stage = "caller" -> "app"
                  [] stage = "app" -> "quota" [] stage = "quota" -> "served"

Moves(r, stage) == request' = [request EXCEPT ![r].stage = stage]
Passes(r)  == Moves(r, After(request[r].stage))
Refused(r) == Moves(r, "refused")
Faulted(r) == Moves(r, "faulted")

Unspent == UNCHANGED <<windows, used, tokens, charged>>

-----------------------------------------------------------------------------
(* The two reads, and the decision made when both have settled. *)

Arrive(r) ==
    /\ request[r].stage = "idle"
    /\ request' = [request EXCEPT ![r].stage = "reading", ![r].arrivedAt = clock]
    /\ UNCHANGED clock /\ Unspent

\* Fault: a user whose status could not be read is let through.
PassesUnlessBlocked(block) == block # "blocked"

PassesBlock(block) == block = "active"

\* Both reads settle before anything is decided, and the block status decides
\* first.  A request that identifies nobody has no status to read; the period
\* is the one the request arrived in, however late the answers are.
Judge(r) ==
    /\ request[r].stage = "reading"
    /\ \E block \in BlockAnswers,
          quota \in QuotaAnswers(Schedules \X {MonthOf(request[r].arrivedAt)}) :
          /\ request[r].identity.user = NoUser => block = "active"
          /\ request' = [request EXCEPT
                 ![r].block = block, ![r].quota = quota, ![r].now = clock,
                 ![r].stage = IF PassesBlock(block) THEN After("reading")
                              ELSE IF block = "failed" THEN "faulted" ELSE "refused"]
    /\ UNCHANGED clock /\ Unspent

-----------------------------------------------------------------------------
(* The two limiters.  Only a request both windows have room for is counted. *)

HasRoom(name, limits, now) ==
    LET counts == WindowCounts(windows[name], now)
    IN ~Exceeded(counts.minute, limits.rpm) /\ ~Exceeded(counts.day, limits.rpd)

Counted(r, name) ==
    /\ windows' = [windows EXCEPT ![name] = BumpWindows(WindowCounts(@, request[r].now))]
    /\ tokens' = [tokens EXCEPT ![r] = @ \union {name}]
    /\ UNCHANGED <<clock, used, charged>>

LimiterAdmits(r, name, limits) ==
    /\ HasRoom(name, limits, request[r].now)
    /\ Counted(r, name) /\ Passes(r)

LimiterRefuses(r, name, limits, signed) ==
    /\ ~HasRoom(name, limits, request[r].now) \/ limits.budget \/ signed
    /\ Refused(r) /\ UNCHANGED clock /\ Unspent

\* The call throws: the object may have counted the request before it did.
LimiterThrows(r, name, limits) ==
    /\ \/ HasRoom(name, limits, request[r].now) /\ Counted(r, name)
       \/ UNCHANGED clock /\ Unspent
    /\ Faulted(r)

\* Where no limiter is configured none is called.
NotCalled(r) == Passes(r) /\ UNCHANGED clock /\ Unspent

AskCaller(r) ==
    LET q == request[r]
        limits == q.config.perUser
    IN /\ q.stage = "caller"
       /\ \/ CallerLimiter(q) = {} /\ NotCalled(r)
          \/ \E name \in CallerLimiter(q) :
                \/ LimiterAdmits(r, name, limits)
                \/ LimiterRefuses(r, name, limits, q.signed)
                \/ LimiterThrows(r, name, limits)

AskApp(r) ==
    LET q == request[r]
        limits == q.config.perApp
    IN /\ q.stage = "app"
       /\ \/ AppLimiter(q) = {} /\ NotCalled(r)
          \/ \E name \in AppLimiter(q) :
                \/ LimiterAdmits(r, name, limits)
                \/ LimiterRefuses(r, name, limits, FALSE)
                \/ LimiterThrows(r, name, limits)

-----------------------------------------------------------------------------
(* The allowance: its failed read surfaces only now, then the one claim. *)

Unmetered(r) ==
    /\ request[r].stage = "quota"
    /\ \/ request[r].quota.kind = "failed" /\ Faulted(r)
       \/ request[r].quota.kind = "unpaid" /\ Refused(r)
       \/ request[r].quota.kind = "unmetered" /\ Passes(r)
    /\ UNCHANGED clock /\ Unspent

\* The counter object runs the call.
Upsert(r) ==
    LET q == request[r].quota
    IN /\ used' = [used EXCEPT ![q.period] = Upserted(@, q.limit)]
       /\ charged' = [charged EXCEPT ![r] =
                         IF Admits(used[q.period], q.limit) THEN q.period ELSE @]
       /\ UNCHANGED <<clock, windows, tokens>>

Claiming(r) == request[r].stage = "quota" /\ request[r].quota.kind = "metered"

Claim(r) ==
    LET q == request[r].quota
    IN /\ Claiming(r)
       /\ Upsert(r)
       /\ IF Admits(used[q.period], q.limit) THEN Passes(r) ELSE Refused(r)

\* The platform failed to answer: served uncounted, though the object may have
\* counted the request before the call failed.
ClaimUnanswered(r) ==
    /\ Claiming(r)
    /\ Upsert(r) \/ (UNCHANGED clock /\ Unspent)
    /\ Passes(r)

\* An overloaded object never ran the call.
ClaimOverloaded(r) ==
    /\ Claiming(r)
    /\ Refused(r) /\ UNCHANGED clock /\ Unspent

\* Any other error is a fault of the gateway, before or after the upsert.
ClaimThrows(r) ==
    /\ Claiming(r)
    /\ Upsert(r) \/ (UNCHANGED clock /\ Unspent)
    /\ Faulted(r)

-----------------------------------------------------------------------------
Tick == /\ clock < MaxClock
        /\ clock' = clock + 1
        /\ UNCHANGED request /\ Unspent

Step(r) == \/ Arrive(r) \/ Judge(r) \/ AskCaller(r) \/ AskApp(r)
           \/ Unmetered(r) \/ Claim(r) \/ ClaimUnanswered(r)
           \/ ClaimOverloaded(r) \/ ClaimThrows(r)

Next == Tick \/ \E r \in Requests : Step(r)

Spec == Init /\ [][Next]_vars

-----------------------------------------------------------------------------
(* Properties *)

\* Every request, limiter row and allowance row has the shape the code gives it.
TypeOK ==
    /\ clock \in Times
    /\ request \in [Requests -> RequestRecords]
    /\ windows \in [LimiterNames -> [minuteKey: Int, minute: Nat, dayKey: Int, day: Nat]]
    /\ used \in [Periods -> Nat]
    /\ tokens \in [Requests -> SUBSET LimiterNames]
    /\ charged \in [Requests -> Periods \union {Uncharged}]

\* A period's count is exactly the requests counted toward it: a refused call
\* left no trace in the row, an unanswered one is counted once or not at all,
\* and a request that crosses into a new period counts in the one it arrived
\* in (OrgQuota.admit, and the catch around it in admitRequest).
AllowanceExact ==
    \A p \in Periods : used[p] = Cardinality({r \in Requests : charged[r] = p})

\* What a request spends, it spends in order: nothing while its user is not
\* known to be unblocked, nothing of the application's window before the
\* caller's own limiter counted it, and nothing of the allowance before both
\* limiters did.  So a caller over their own limit neither drains the window
\* every other user shares nor the organization's month (admitRequest:
\* "Per-user before per-app", "it must not happen at all if an app limit
\* refuses first", "a blocked user spends no app token").
SpendingOrder ==
    \A r \in Requests : LET q == request[r] IN
        /\ tokens[r] # {} \/ charged[r] # Uncharged => q.block = "active"
        /\ App \in tokens[r] => CallerLimiter(q) \subseteq tokens[r]
        /\ charged[r] # Uncharged =>
               CallerLimiter(q) \union AppLimiter(q) \subseteq tokens[r]

\* Admission keeps the promise of AllowanceCharges: a request is charged at
\* most once and only by being served (or faulted after its call counted), and
\* no period is charged beyond the largest limit any plan ever carried.
Answered(r) == IF request[r].stage \in {"served", "refused", "faulted"}
               THEN request[r].stage ELSE "open"
LargestLimit == CHOOSE top \in PlanLimits \union {0} :
                    0 <= top /\ \A l \in PlanLimits : l <= top

Promise == INSTANCE AllowanceCharges
    WITH outcome <- [r \in Requests |-> Answered(r)], MostAllowed <- LargestLimit
ChargesOnlyServed == Promise!Spec
=============================================================================
