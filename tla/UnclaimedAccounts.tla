------------------------- MODULE UnclaimedAccounts -------------------------
(***************************************************************************)
(* The account a first run of the CLI creates before anybody owns it, on a  *)
(* hosted deployment (routes/cli/bootstrap.ts, core/account-lifecycle.ts):   *)
(* requests under one bootstrap token create it, renew the one key the        *)
(* operation's record names and enable it; a person claims it, or its         *)
(* recovery deadline passes and cleanup collects it; and its applications'     *)
(* traffic is gated on a row of it that is cached for a short while.          *)
(*                                                                          *)
(* The identity service (cf-auth) keeps the operation and the keys, one for     *)
(* each request that issues any.  A request is over before the window its key  *)
(* is held sealed for.                                                        *)
(***************************************************************************)
EXTENDS Integers, FiniteSets

CONSTANTS Renewals,     \* the requests under the bootstrap token
          Visits,       \* the requests of its applications' users
          NoKey,
          FreeAccess,   \* UNCLAIMED_ACCESS_MS
          Recovery,     \* ACCOUNT_RECOVERY_MS
          SealFor,      \* how long a key is held sealed
          LifecycleTtl, \* LIFECYCLE_CACHE_TTL_MS
          MaxRequest,   \* bound: how long a request takes
          MaxLost,      \* bound: answers of the identity service that are lost
          LastHour      \* bound: the clock stops here

ASSUME AccountAssumption ==
    /\ NoKey \notin Renewals /\ Renewals \intersect Visits = {}
    /\ FreeAccess \in Nat /\ Recovery \in Nat /\ FreeAccess <= Recovery
    /\ LifecycleTtl \in Nat /\ MaxLost \in Nat /\ LastHour \in Nat
    /\ SealFor \in Nat /\ MaxRequest \in Nat /\ MaxRequest < SealFor

VARIABLES
    hour,
    account,   \* mgmt_organization, and whether a person owns it
    verified,  \* whether the person who may claim it has verified their address
    operation, \* the bootstrap operation: its state, its record's key, its sealed outcome
    apiKeys,   \* mgmt_api_key, by the request that issued it
    renewal,   \* what each request under the token is doing
    visit,     \* what each user's request is doing
    claim,     \* what the claim's approval is doing
    lifecycle, \* accountLifecycleCache
    lookup,    \* the row each request reads
    events,    \* app_usage_event, by the visit it is of
    collected, \* observation: cleanup collected the account
    lostAnswers

identity    == <<operation, apiKeys, lostAnswers>>
gate        == <<lifecycle, lookup>>
store       == <<account, events, collected>>
accountVars == <<hour, store, verified, identity, renewal, visit, claim, gate>>

NotCreated == [state |-> "none", since |-> 0, activated |-> FALSE]
NotOpened  == [state |-> "none", key |-> NoKey, sealedUntil |-> 0]
NotBegun   == [step |-> "new", began |-> 0, seen |-> NotOpened, key |-> NoKey]
NotCached  == [row |-> NotCreated, until |-> 0]

AccountsInit ==
    /\ hour = 0 /\ account = NotCreated /\ verified = FALSE
    /\ operation = NotOpened /\ apiKeys = [r \in Renewals |-> "none"] /\ lostAnswers = 0
    /\ renewal = [r \in Renewals |-> NotBegun]
    /\ visit = [q \in Visits |-> [step |-> "new", began |-> 0]]
    /\ claim = [step |-> "none", by |-> NoKey]
    /\ lifecycle = NotCached /\ lookup = [x \in Renewals \union Visits |-> NotCreated]
    /\ events = {} /\ collected = FALSE

-----------------------------------------------------------------------------
(* assertAccountAccess *)

\* Whether a row refuses at this hour.  An account that is not there is not found;
\* its own deadlines are compared with the clock, whenever the row was read.
Denied(row, mode) ==
    \/ row.state \notin {"unclaimed", "claimed"}
    \/ row.state = "claimed" /\ mode = "proxy" /\ ~row.activated
    \/ row.state = "unclaimed" /\ hour >= row.since + Recovery
    \/ row.state = "unclaimed" /\ mode = "proxy" /\ hour >= row.since + FreeAccess

Cached == hour < lifecycle.until

Filled(row) == [row |-> row, until |-> hour + LifecycleTtl]

\* accountLifecycle, on a miss: the row is read, and the cache filled when it is
\* answered.  A row that is not there is not cached.
LooksUp(x) ==
    /\ ~Cached /\ lookup[x] = NotCreated /\ account.state \in {"unclaimed", "claimed"}
    /\ lookup' = [lookup EXCEPT ![x] = account]
    /\ UNCHANGED <<hour, store, verified, identity, renewal, visit, claim, lifecycle>>

\* The row the request goes on with: the cache's, or the one it read.
Sees(x, row) ==
    \/ Cached /\ lookup[x] = NotCreated /\ row = lifecycle.row /\ UNCHANGED gate
    \/ /\ lookup[x] # NotCreated /\ row = lookup[x]
       /\ lifecycle' = Filled(row)
       /\ lookup' = [lookup EXCEPT ![x] = NotCreated]
    \/ ~Cached /\ lookup[x] = NotCreated /\ row = account /\ account.state = "gone" /\ UNCHANGED gate

-----------------------------------------------------------------------------
(* bootstrap *)

Proceeds(r, step) == renewal' = [renewal EXCEPT ![r].step = step]

\* The operation as it is delivered: its outcome only while it is held sealed.
HeldSealed == hour < operation.sealedUntil

\* engine.open: the token's first request opens the operation, and any other is
\* answered with it.
OpenBootstrap(r) ==
    /\ renewal[r].step = "new"
    /\ operation' = IF operation.state = "none" THEN [operation EXCEPT !.state = "pending"] ELSE operation
    /\ renewal' = [renewal EXCEPT ![r] =
         [step |-> IF operation'.state = "pending" THEN "creating" ELSE "checking",
          began |-> hour, seen |-> operation', key |-> IF HeldSealed THEN operation.key ELSE NoKey]]
    /\ UNCHANGED <<hour, store, verified, apiKeys, lostAnswers, visit, claim, gate>>

\* createAccount: the account is created in the batch that completes the operation,
\* by whichever request finds it pending.
CreateAccount(r) ==
    /\ renewal[r].step = "creating"
    /\ IF operation.state = "pending"
       THEN /\ operation' = [operation EXCEPT !.state = "completed"]
            /\ account' = [state |-> "unclaimed", since |-> hour, activated |-> FALSE]
       ELSE UNCHANGED <<operation, account>>
    /\ Proceeds(r, "viewing")
    /\ UNCHANGED <<hour, verified, apiKeys, lostAnswers, visit, claim, gate, events, collected>>

ViewOperation(r) ==
    /\ renewal[r].step = "viewing"
    /\ renewal' = [renewal EXCEPT ![r] = [@ EXCEPT !.step = "checking", !.seen = operation,
                                                   !.key = IF HeldSealed THEN operation.key ELSE NoKey]]
    /\ UNCHANGED <<hour, store, verified, identity, visit, claim, gate>>

\* The account and the operation are judged as they were read: a key that was still
\* held sealed is enabled, and otherwise another is issued.
CheckAccount(r) ==
    /\ renewal[r].step = "checking"
    /\ \E row \in {lifecycle.row, lookup[r], account} :
          /\ Sees(r, row)
          /\ Proceeds(r, IF \/ Denied(row, "read") \/ row.state = "claimed"
                        \/ renewal[r].seen.state # "completed" THEN "ended"
                     ELSE IF renewal[r].key # NoKey THEN "enabling" ELSE "issuing")
    /\ UNCHANGED <<hour, store, verified, identity, visit, claim>>

\* The key is issued inactive, to an account that is still there.
IssueKey(r) ==
    /\ renewal[r].step = "issuing"
    /\ IF account.state = "gone" THEN Proceeds(r, "ended") /\ UNCHANGED apiKeys
       ELSE Proceeds(r, "amending") /\ apiKeys' = [apiKeys EXCEPT ![r] = "inactive"]
    /\ UNCHANGED <<hour, store, verified, operation, lostAnswers, visit, claim, gate>>

\* Fault: a key is recorded although another is held sealed.
MayAmendHeld == operation.state = "completed" /\ account.state # "claimed"

\* Only while no key is held sealed, and never once a person owns the account.
MayAmend == operation.state = "completed" /\ ~HeldSealed /\ account.state # "claimed"

Recorded(r) == operation' = [operation EXCEPT !.key = r, !.sealedUntil = hour + SealFor]

\* The record names the new key, and the one it replaced is retired next; or it
\* names another, and this one is.
Amend(r) ==
    /\ renewal[r].step = "amending"
    /\ IF MayAmend
       THEN /\ Recorded(r)
            /\ renewal' = [renewal EXCEPT ![r] =
                 [@ EXCEPT !.step = IF renewal[r].seen.key = NoKey THEN "enabling" ELSE "retiring", !.key = r]]
       ELSE UNCHANGED operation /\ Proceeds(r, "yielding")
    /\ UNCHANGED <<hour, store, verified, apiKeys, lostAnswers, visit, claim, gate>>

RetireReplaced(r) ==
    /\ renewal[r].step = "retiring"
    /\ apiKeys' = [apiKeys EXCEPT ![renewal[r].seen.key] = "revoked"]
    /\ Proceeds(r, "enabling")
    /\ UNCHANGED <<hour, store, verified, operation, lostAnswers, visit, claim, gate>>

RetireOwn(r) ==
    /\ renewal[r].step = "yielding"
    /\ apiKeys' = [apiKeys EXCEPT ![r] = "revoked"]
    /\ Proceeds(r, "polling")
    /\ UNCHANGED <<hour, store, verified, operation, lostAnswers, visit, claim, gate>>

\* The key the winner recorded, while it is held.
PollWinner(r) ==
    /\ renewal[r].step = "polling"
    /\ renewal' = [renewal EXCEPT ![r] =
         IF operation.state = "completed" /\ HeldSealed
         THEN [@ EXCEPT !.step = "enabling", !.key = operation.key] ELSE [@ EXCEPT !.step = "ended"]]
    /\ UNCHANGED <<hour, store, verified, identity, visit, claim, gate>>

\* The answer of the amendment is lost, whether or not it landed.
AmendUnanswered(r) ==
    /\ renewal[r].step = "amending" /\ lostAnswers < MaxLost
    /\ lostAnswers' = lostAnswers + 1
    /\ \/ MayAmend /\ Recorded(r)
       \/ UNCHANGED operation
    /\ Proceeds(r, "asking")
    /\ UNCHANGED <<hour, store, verified, apiKeys, visit, claim, gate>>

\* The record is asked who won before the key this request issued is retired.
AskRecord(r) ==
    /\ renewal[r].step = "asking"
    /\ apiKeys' = IF operation.key = r THEN apiKeys ELSE [apiKeys EXCEPT ![r] = "revoked"]
    /\ Proceeds(r, "ended")
    /\ UNCHANGED <<hour, store, verified, operation, lostAnswers, visit, claim, gate>>

\* Idempotent, and refused for a key that was revoked.
EnableKey(r) ==
    /\ renewal[r].step = "enabling"
    /\ apiKeys' = IF apiKeys[renewal[r].key] = "inactive" THEN [apiKeys EXCEPT ![renewal[r].key] = "active"] ELSE apiKeys
    /\ Proceeds(r, "ended")
    /\ UNCHANGED <<hour, store, verified, operation, lostAnswers, visit, claim, gate>>

Bootstrap(r) ==
    \/ OpenBootstrap(r) \/ CreateAccount(r) \/ ViewOperation(r) \/ CheckAccount(r)
    \/ IssueKey(r) \/ Amend(r) \/ RetireReplaced(r) \/ RetireOwn(r) \/ PollWinner(r)
    \/ AmendUnanswered(r) \/ AskRecord(r) \/ EnableKey(r)
    \/ renewal[r].step = "checking" /\ LooksUp(r)

-----------------------------------------------------------------------------
(* approveClaim *)

\* Fault: a claim does not wait for a verified address.
AnyoneMayClaim == TRUE

\* claimRefusal, where addresses are verified.
MayClaim == verified

\* The gates on the person and on the account, of a claim a run of the CLI opened
\* with its key.
ApproveClaim ==
    /\ claim.step = "none" /\ MayClaim /\ ~Denied(account, "read")
    /\ \E k \in Renewals : apiKeys[k] = "active" /\ claim' = [step |-> "approving", by |-> k]
    /\ lifecycle' = IF Cached THEN lifecycle ELSE Filled(account)
    /\ UNCHANGED <<hour, store, verified, identity, renewal, visit, lookup>>

\* claimOrganization: the account is the person's, if it and the key that asked
\* are still good.
ClaimLands ==
    /\ claim.step = "approving"
    /\ IF account.state = "unclaimed" /\ apiKeys[claim.by] = "active"
       THEN /\ claim' = [claim EXCEPT !.step = "retiring"]
            /\ account' = [account EXCEPT !.state = "claimed", !.activated = verified]
       ELSE claim' = [claim EXCEPT !.step = "ended"] /\ UNCHANGED account
    /\ UNCHANGED <<hour, verified, identity, renewal, visit, gate, events, collected>>

\* Bootstrap authority ends with the claim.
RetireBootstrap ==
    /\ claim.step = "retiring"
    /\ claim' = [claim EXCEPT !.step = "forgetting"]
    /\ operation' = IF operation.state = "completed"
                    THEN [operation EXCEPT !.state = "retired", !.sealedUntil = 0] ELSE operation
    /\ UNCHANGED <<hour, store, verified, apiKeys, lostAnswers, renewal, visit, gate>>

\* invalidateAccountLifecycle
ForgetRow ==
    /\ claim.step = "forgetting"
    /\ claim' = [claim EXCEPT !.step = "ended"]
    /\ lifecycle' = NotCached
    /\ UNCHANGED <<hour, store, verified, identity, renewal, visit, lookup>>

Verify ==
    /\ ~verified /\ verified' = TRUE
    /\ account' = IF account.state = "claimed" THEN [account EXCEPT !.activated = TRUE] ELSE account
    /\ UNCHANGED <<hour, identity, renewal, visit, claim, gate, events, collected>>

-----------------------------------------------------------------------------
(* Its applications' traffic *)

Visiting(q, step) == visit' = [visit EXCEPT ![q].step = step]

VisitArrives(q) ==
    /\ visit[q].step = "new" /\ account.state # "none"
    /\ visit' = [visit EXCEPT ![q] = [step |-> "checking", began |-> hour]]
    /\ UNCHANGED <<hour, store, verified, identity, renewal, claim, gate>>

\* The gate of proxied traffic.
Admit(q) ==
    /\ visit[q].step = "checking"
    /\ \E row \in {lifecycle.row, lookup[q], account} :
          Sees(q, row) /\ Visiting(q, IF Denied(row, "proxy") THEN "ended" ELSE "admitted")
    /\ UNCHANGED <<hour, store, verified, identity, renewal, claim>>

\* Fault: the row of an application that is gone is stored.
NoOwnerGuard == TRUE

\* app_usage_event_owner_guard_before_insert
OwnerExists == account.state # "gone"

\* Its usage event is recorded, if whom it belongs to is still there.
RecordEvent(q) ==
    /\ visit[q].step = "admitted"
    /\ events' = IF OwnerExists THEN events \union {q} ELSE events
    /\ Visiting(q, "ended")
    /\ UNCHANGED <<hour, account, collected, verified, identity, renewal, claim, gate>>

Visit(q) ==
    \/ VisitArrives(q) \/ Admit(q) \/ RecordEvent(q)
    \/ visit[q].step = "checking" /\ LooksUp(q)

-----------------------------------------------------------------------------
(* accountCleanupStatements *)

\* One transaction: everything of the account goes but the record that its token
\* has had one.
Collect ==
    /\ account.state = "unclaimed" /\ hour >= account.since + Recovery
    /\ account' = [account EXCEPT !.state = "gone"] /\ collected' = TRUE
    /\ events' = {}
    /\ apiKeys' = [r \in Renewals |-> IF apiKeys[r] = "none" THEN "none" ELSE "revoked"]
    /\ operation' = [state |-> "expired", key |-> NoKey, sealedUntil |-> 0]
    /\ UNCHANGED <<hour, verified, lostAnswers, renewal, visit, claim, gate>>

\* Time passes, unless a request would take longer than MaxRequest.
HourPasses ==
    /\ hour < LastHour
    /\ \A r \in Renewals : renewal[r].step \in {"new", "ended"} \/ hour - renewal[r].began < MaxRequest
    /\ \A q \in Visits : lookup[q] = NotCreated \/ hour - visit[q].began < MaxRequest
    /\ hour' = hour + 1
    /\ UNCHANGED <<store, verified, identity, renewal, visit, claim, gate>>

AccountsNext ==
    \/ \E r \in Renewals : Bootstrap(r)
    \/ \E q \in Visits : Visit(q)
    \/ ApproveClaim \/ ClaimLands \/ RetireBootstrap \/ ForgetRow \/ Verify \/ Collect \/ HourPasses

AccountsSpec == AccountsInit /\ [][AccountsNext]_accountVars
-----------------------------------------------------------------------------
(* Properties *)

\* Keys that work and that the record does not name, when nothing is under way.
StrayKeys ==
    IF \A r \in Renewals : renewal[r].step \in {"new", "ended"}
    THEN {k \in Renewals : apiKeys[k] = "active" /\ operation.key # k}
    ELSE {}

\* Of renewals that race, and of those that replace a key whose window has passed,
\* only the key the record names is left working: each answer of the identity
\* service that is lost leaves at most one other.
OnlyNamedKeyWorks == Cardinality(StrayKeys) <= lostAnswers

\* What the code says of it ("Whichever key it does not name is retired, whether
\* that is the one this call lost a race with or the one it replaced").
UnnamedKeysRetired == StrayKeys = {}

\* Nothing of an account outlives its collection, whatever was still under way: no
\* key of it works, no event of its last requests is stored, and its token creates
\* no other ("the same token cannot recreate an account the deadline removed").
NothingOutlivesAccount ==
    collected => /\ account.state = "gone" /\ events = {}
                 /\ \A k \in Renewals : apiKeys[k] # "active"

\* No traffic is admitted that the account as it is would refuse, although the row
\* it is judged by is an older one and may have been read across a claim ("can
\* never admit for a moment longer than it should").
NeverAdmittedLate ==
    [][\A q \in Visits :
          visit[q].step = "checking" /\ visit'[q].step = "admitted" => ~Denied(account, "proxy")]_accountVars
=============================================================================
