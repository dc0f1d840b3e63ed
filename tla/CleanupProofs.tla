--------------------------- MODULE CleanupProofs ---------------------------
(***************************************************************************)
(* What the deletion of stored state keeps, for every number of records,     *)
(* applications and pages, every retention, allowance and policy: the window *)
(* an endpoint's counter holds under any delay or failure of its alarm; the  *)
(* days a nightly deletion leaves alone; the shares of a night's allowance,    *)
(* whose invariant is that the run's count is what was issued and a view's     *)
(* count what was issued since its sweep began; and the one file of each       *)
(* stored record, whose invariant is that every write on its way is of the     *)
(* batch that is pending or of one that has left the tables.                   *)
(***************************************************************************)
EXTENDS ConversationRetention, EndpointRateLimiter, ConversationLog, NightlyAllowance,
        FiniteSetTheorems, SequenceTheorems, WellFoundedInduction, TLAPS

(* The window of an endpoint's counter. *)

Counters == [windowStart: Int, windowMs: Nat \ {0}, count: Nat]

\* What was allowed in the window last counted is what is stored, or that window is
\* over.
Counted ==
    /\ instant \in Nat /\ policy \in [limit: Nat \ {0}, windowMs: Nat \ {0}]
    /\ counter \in Counters /\ allowed \in Counters
    /\ counter = allowed \/ (counter = NoCounter /\ ExpiresAt(allowed) <= instant)
-----------------------------------------------------------------------------
\* A window ends after every instant of it.
LEMMA WindowIsOpen ==
    ASSUME NEW n \in Nat, NEW m \in Nat \ {0}
    PROVE  (n \div m) * m \in Nat /\ (n \div m) * m + m > n
OBVIOUS

LEMMA NoCounterShape == NoCounter \in Counters /\ NoCounter.windowStart = -1
BY DEF NoCounter, Counters

LEMMA AllowCounts ==
    ASSUME Counted, Allow
    PROVE  Counted' /\ counter' = allowed' /\ allowed'.count <= policy.limit
<1> DEFINE start == WindowStart
<1>1. start \in Nat /\ start + policy.windowMs > instant
  BY WindowIsOpen DEF Counted, WindowStart
<1> HIDE DEF start
<1>2. /\ counter' = [windowStart |-> start, windowMs |-> policy.windowMs, count |-> CountOf(counter) + 1]
      /\ allowed' = [windowStart |-> start, windowMs |-> policy.windowMs,
                     count |-> IF allowed.windowStart = start /\ allowed.windowMs = policy.windowMs
                               THEN allowed.count + 1 ELSE 1]
      /\ UNCHANGED <<instant, policy>> /\ CountOf(counter) < policy.limit
  BY DEF Allow, Opened, start
<1>3. CountOf(counter) = IF allowed.windowStart = start /\ allowed.windowMs = policy.windowMs
                         THEN allowed.count ELSE 0
  <2>1. CASE counter = allowed
    BY <2>1 DEF CountOf, Current, start
  <2>2. CASE counter = NoCounter /\ ExpiresAt(allowed) <= instant
    <3>1. ~Current(counter)
      BY <1>1, <2>2, NoCounterShape DEF Current, start
    <3>2. ~(allowed.windowStart = start /\ allowed.windowMs = policy.windowMs)
      BY <1>1, <2>2 DEF Counted, Counters, ExpiresAt
    <3> QED BY <3>1, <3>2 DEF CountOf
  <2> QED BY <2>1, <2>2 DEF Counted
<1>4. CountOf(counter) \in Nat
  BY <1>3 DEF Counted, Counters
<1>5. counter' = allowed'
  BY <1>2, <1>3
<1>6. allowed'.count <= policy.limit
  BY <1>2, <1>4, <1>5 DEF Counted
<1>7. counter' \in Counters
  BY <1>1, <1>2, <1>4 DEF Counted, Counters
<1> QED BY <1>2, <1>5, <1>6, <1>7 DEF Counted

LEMMA CountedStep ==
    ASSUME Counted, [EndpointNext]_endpointVars
    PROVE  Counted' /\ (allowed' # allowed => allowed'.count <= policy.limit)
<1>1. CASE UNCHANGED endpointVars
  BY <1>1 DEF endpointVars, Counted, ExpiresAt
<1>2. CASE Allow
  BY <1>2, AllowCounts
<1>3. CASE Deliver \/ AlarmFails
  BY <1>3 DEF Deliver, AlarmFails, Counted, ExpiresAt
<1>4. CASE AlarmRuns
  <2>1. UNCHANGED <<instant, policy, allowed>>
        /\ (counter' = counter \/ (counter' = NoCounter /\ (counter = NoCounter \/ ExpiresAt(counter) <= instant)))
    BY <1>4 DEF AlarmRuns, DeletesOrRearms
  <2>2. counter' \in Counters
    BY <2>1, NoCounterShape DEF Counted
  <2>3. counter = NoCounter /\ counter = allowed => ExpiresAt(allowed) <= instant
    BY DEF NoCounter, ExpiresAt, Counted
  <2>4. counter' = allowed' \/ (counter' = NoCounter /\ ExpiresAt(allowed) <= instant)
    BY <2>1, <2>3 DEF Counted
  <2> QED BY <2>1, <2>2, <2>4 DEF Counted, ExpiresAt
<1>5. CASE Deploy
  BY <1>5, EndpointAssumption DEF Deploy, Counted, ExpiresAt
<1>6. CASE InstantPasses
  <2>1. instant' = instant + 1 /\ UNCHANGED <<policy, counter, allowed>>
    BY <1>6 DEF InstantPasses
  <2>2. ExpiresAt(allowed) \in Int
    BY DEF Counted, Counters, ExpiresAt
  <2> QED BY <2>1, <2>2 DEF Counted, ExpiresAt
<1> QED BY <1>1, <1>2, <1>3, <1>4, <1>5, <1>6 DEF EndpointNext

LEMMA CountedBegins == ASSUME EndpointInit PROVE Counted
BY NoCounterShape, EndpointAssumption DEF EndpointInit, Counted

\* No window of an endpoint is ever overrun, whatever alarm is delivered late or
\* retried and however policies change.
THEOREM WindowsAreHeld == EndpointSpec => WindowHeld
<1>1. Counted /\ [EndpointNext]_endpointVars => Counted'
  BY CountedStep
<1>2. Counted /\ [EndpointNext]_endpointVars => [allowed' # allowed => allowed'.count <= policy.limit]_endpointVars
  BY CountedStep
<1> QED BY CountedBegins, <1>1, <1>2, PTL DEF EndpointSpec, WindowHeld

-----------------------------------------------------------------------------
(* The nightly deletion of conversations. *)

Fields == [phase |-> run.phase, keep |-> run.keep, left |-> run.left,
           todo |-> run.todo, found |-> run.found, finished |-> run.finished]

\* What a run has found to delete is past the retention it read, and what it
\* sweeps belongs to an application it did not find.
DueInv ==
    /\ today \in Nat
    /\ days \in [Apps -> Nat] /\ run.keep \in [Apps -> Nat]
    /\ objects \subseteq [app: Apps, day: Nat]
    /\ \A o \in run.found : /\ o \in [app: Apps, day: Nat]
                            /\ ~Kept(o.day, run.keep[o.app])
    /\ run.phase = "sweep" => run.keep[App] = 0
    /\ run = Fields

LEMMA RetentionConstants == Retentions \subseteq Nat /\ 0 \in Nat /\ MaxDay \in Nat
BY RetentionAssumption

LEMMA DueInit == RetentionInit => DueInv
BY RetentionConstants DEF RetentionInit, DueInv, Idle, Fields

LEMMA RetentionRunKeeps == DueInv /\ (Start \/ Work \/ RunFails) => DueInv'
<1> SUFFICES ASSUME DueInv, Start \/ Work \/ RunFails PROVE DueInv'
  OBVIOUS
<1> USE DEF DueInv, Kept, Fields
<1>1. CASE Start
  <2>1. /\ run' = [Idle EXCEPT !.phase = "rows", !.keep = days, !.left = Share - 3]
        /\ UNCHANGED <<today, days, objects>>
    BY <1>1 DEF Start, apps
  <2> QED BY <2>1 DEF Idle
<1>2. CASE ListApps
  BY <1>2 DEF ListApps, apps, Idle
<1>3. CASE NextApp
  BY <1>3 DEF NextApp, apps, Of, App, Idle
<1>4. CASE SweepPage
  BY <1>4 DEF SweepPage, Finished, apps, App, Idle
<1>5. CASE DeleteDay
  BY <1>5 DEF DeleteDay, apps, Idle
<1>6. CASE DaysDone
  BY <1>6 DEF DaysDone, Finished, apps, Idle
<1>7. CASE Ends \/ RunFails
  BY <1>7 DEF Ends, RunFails, apps, Idle
<1> QED BY <1>1, <1>2, <1>3, <1>4, <1>5, <1>6, <1>7 DEF Work

LEMMA MeanwhileKeeps ==
    DueInv /\ ((\E a \in Apps : Create(a) \/ ChangeApp(a) \/ Store(a)) \/ NextDay) => DueInv'
<1> SUFFICES ASSUME DueInv, (\E a \in Apps : Create(a) \/ ChangeApp(a) \/ Store(a)) \/ NextDay
             PROVE  DueInv'
  OBVIOUS
<1> USE DEF DueInv, Kept, Fields
<1>1. ASSUME NEW a \in Apps, Create(a) \/ ChangeApp(a) PROVE DueInv'
  <2>1. PICK n \in Nat : days' = [days EXCEPT ![a] = n]
    BY <1>1, RetentionConstants DEF Create, ChangeApp
  <2>2. UNCHANGED <<today, objects, run>>
    BY <1>1 DEF Create, ChangeApp
  <2> QED BY <2>1, <2>2 DEF App
<1>2. ASSUME NEW a \in Apps, Store(a) PROVE DueInv'
  <2>1. /\ objects' = objects \union {[app |-> a, day |-> today]}
        /\ UNCHANGED <<today, days, run>>
    BY <1>2 DEF Store
  <2> QED BY <2>1 DEF App
<1>3. CASE NextDay
  <2>1. /\ run.phase = "idle" /\ today' = today + 1 /\ UNCHANGED <<days, objects, run>>
    BY <1>3 DEF NextDay, apps
  <2> QED BY <2>1 DEF App
<1> QED BY <1>1, <1>2, <1>3

\* The invariant that KeptDaysStay follows from.
THEOREM WhatIsFoundIsDue == RetentionSpec => []DueInv
<1>1. DueInv /\ [RetentionNext]_retentionVars => DueInv'
  <2>1. ASSUME DueInv, UNCHANGED retentionVars PROVE DueInv'
    BY <2>1 DEF retentionVars, apps, DueInv, Fields, Kept, App
  <2> QED BY <2>1, RetentionRunKeeps, MeanwhileKeeps DEF RetentionNext
<1> QED BY <1>1, DueInit, PTL DEF RetentionSpec

\* No run deletes a day that the application's retention keeps, unless it was
\* raised, or the application created, after the run had read it
\* (runConversationRetention).
THEOREM NoKeptDayIsDeleted == RetentionSpec => KeptDaysStay
<1> DEFINE A == \A o \in objects \ objects' : days[o.app] <= run.keep[o.app] => Expired(o)
<1>1. DueInv /\ [RetentionNext]_retentionVars => [A]_retentionVars
  <2> SUFFICES ASSUME DueInv, RetentionNext, NEW o \in objects \ objects',
                      days[o.app] <= run.keep[o.app]
               PROVE  Expired(o)
    OBVIOUS
  <2>1. o \in [app: Apps, day: Nat] /\ days[o.app] \in Nat /\ today \in Nat
    BY DEF DueInv
  <2>2. CASE SweepPage
    <3>1. o.app = App /\ run.keep[App] = 0
      BY <2>2 DEF SweepPage, Of, DueInv
    <3> QED BY <2>1, <3>1 DEF Expired, Gone
  <2>3. CASE DeleteDay
    <3>1. o \in run.found
      BY <2>3 DEF DeleteDay
    <3>2. ~Kept(o.day, run.keep[o.app]) /\ run.keep[o.app] \in Nat
      BY <2>1, <3>1 DEF DueInv
    <3> QED BY <2>1, <3>2 DEF Kept, Expired
  <2>4. CASE ~SweepPage /\ ~DeleteDay
    BY <2>4 DEF RetentionNext, Work, Start, ListApps, NextApp, DaysDone, Ends, RunFails,
                Create, ChangeApp, Store, NextDay
  <2> QED BY <2>2, <2>3, <2>4
<1> QED BY <1>1, WhatIsFoundIsDue, PTL DEF RetentionSpec, KeptDaysStay

-----------------------------------------------------------------------------
(* The allowance of a night's run. *)

View == [limit: Nat, spent: Nat]

Stages == {"idle", "accounts", "conversations", "spend", "seal", "compact", "fold"}

\* Every allowance, count and stage has the shape the code gives it.
NightTypeOK ==
    /\ deployment \in Deployments
    /\ stage \in Stages /\ begun \in BOOLEAN
    /\ whole \in View /\ share \in View \union {NoShare}
    /\ backlog \in [accounts: Nat, compact: Nat, fold: Nat]
    /\ dueSoFar \in Nat /\ statementsFailed \in Nat
    /\ issued \in Nat /\ foundLeft \in Int

WholeIsIssued ==
    /\ whole.limit = deployment.allowance
    /\ whole.spent = issued
    /\ issued <= deployment.allowance
    /\ foundLeft \in 0..deployment.allowance

ShareIsIssued ==
    share # NoShare =>
        /\ share.spent <= share.limit
        /\ share.spent = foundLeft - NotIssued

ShareIsOffered ==
    /\ stage \in {"accounts", "conversations"} => share # NoShare /\ share.limit = HalfOf(foundLeft)
    /\ stage = "compact" => share # NoShare /\ share.limit = AtLeastZero(foundLeft - FoldReserve)

NightInv == NightTypeOK /\ (stage # "idle" => WholeIsIssued /\ ShareIsIssued /\ ShareIsOffered)

-----------------------------------------------------------------------------
(* What the operators of an allowance return.                                *)

LEMMA Deployed == ASSUME NEW d \in Deployments
                  PROVE  /\ d.allowance \in Nat
                         /\ d.accounts \in BOOLEAN /\ d.conversations \in BOOLEAN
  BY NightAssumption

LEMMA HalfIsLess == ASSUME NEW n \in Nat PROVE HalfOf(n) \in Nat /\ HalfOf(n) <= n
  BY DEF HalfOf

\* A view of what is left is a view of a natural number of statements, unused.
LEMMA OfferedIsView ==
    ASSUME NEW sweep \in Stages, NEW left \in Nat
    PROVE  /\ Offered(sweep, left) \in View \union {NoShare}
           /\ Offered(sweep, left) # NoShare =>
                  Offered(sweep, left).spent = 0 /\ Offered(sweep, left).limit \in Nat
           /\ sweep \in {"accounts", "conversations"} => Offered(sweep, left) = Limited(HalfOf(left))
           /\ sweep = "compact" => Offered(sweep, left) = Limited(left - FoldReserve)
<1> DEFINE known == {"accounts", "conversations", "seal", "compact"}
<1>1. \A n \in Int : Limited(n) \in View /\ Limited(n).spent = 0 /\ Limited(n).limit \in Nat
  BY DEF Limited, AtLeastZero, View
<1>2. HalfOf(left) \in Int /\ SealBudget \in Int /\ left - FoldReserve \in Int
  BY HalfIsLess, NightAssumption
<1>3. CASE sweep \in {"accounts", "conversations"}
  <2>1. Offered(sweep, left) = Limited(HalfOf(left))
    BY <1>3 DEF Offered
  <2> QED BY <1>1, <1>2, <1>3, <2>1
<1>4. CASE sweep = "seal"
  <2>1. Offered(sweep, left) = Limited(SealBudget)
    BY <1>4 DEF Offered
  <2> QED BY <1>1, <1>2, <1>4, <2>1
<1>5. CASE sweep = "compact"
  <2>1. Offered(sweep, left) = Limited(left - FoldReserve)
    BY <1>5 DEF Offered
  <2> QED BY <1>1, <1>2, <1>5, <2>1
<1>6. CASE sweep \notin known
  <2>1. Offered(sweep, left) = NoShare
    BY <1>6 DEF Offered
  <2> QED BY <1>6, <2>1
<1> QED BY <1>3, <1>4, <1>5, <1>6

LEMMA ViewIsNotNone == ASSUME NEW view \in View PROVE view # NoShare
  BY DEF View, NoShare

\* What is left of an allowance and of its view is exactly what they will charge.
LEMMA RemainingFits ==
    ASSUME whole \in View, share \in View \union {NoShare},
           whole.spent <= whole.limit, share # NoShare => share.spent <= share.limit
    PROVE  /\ Remaining \in Nat
           /\ \A n \in Nat : Affords(n) <=> Fits(n)
<1>1. whole # NoShare
  BY ViewIsNotNone
<1>2. CASE share = NoShare
  <2>1. /\ Remaining = whole.limit - whole.spent /\ Remaining \in Nat
    BY <1>2 DEF Remaining, OwnRemaining, AtLeastZero, View
  <2>2. ASSUME NEW n \in Nat PROVE Fits(n) <=> whole.spent + n <= whole.limit
    BY <1>1, <1>2 DEF Fits
  <2> QED BY <2>1, <2>2 DEF Affords, View
<1>3. CASE share # NoShare
  <2>1. share \in View
    BY <1>3
  <2>2. /\ Remaining = Lesser(share.limit - share.spent, whole.limit - whole.spent)
        /\ Remaining \in Nat
    BY <1>3, <2>1 DEF Remaining, OwnRemaining, AtLeastZero, View, Lesser
  <2>3. ASSUME NEW n \in Nat
        PROVE  Fits(n) <=> whole.spent + n <= whole.limit /\ share.spent + n <= share.limit
    BY <1>1, <1>3 DEF Fits
  <2> QED BY <2>1, <2>2, <2>3 DEF Affords, View, Lesser
<1> QED BY <1>2, <1>3

LEMMA Follows == ASSUME NEW sweep \in Stages PROVE Following(sweep) \in Stages
  BY DEF Following, Stages

-----------------------------------------------------------------------------
(* The two ways a step charges.                                              *)

\* The next sweep is offered its view of what is left.
LEMMA EndingKeeps ==
    ASSUME NightInv, stage # "idle", UNCHANGED deployment,
           NEW n \in Nat, whole.spent + n <= whole.limit, IssuesAndEnds(n),
           backlog' \in [accounts: Nat, compact: Nat, fold: Nat],
           dueSoFar' \in Nat, statementsFailed' \in Nat
    PROVE  NightInv'
<1> DEFINE left == whole'.limit - whole'.spent
<1>1. deployment.allowance \in Nat
  BY Deployed DEF NightInv, NightTypeOK
<1>2. /\ whole' \in View /\ whole'.limit = whole.limit /\ whole'.spent = whole.spent + n
  BY DEF NightInv, NightTypeOK, IssuesAndEnds, WholeCharged, Spend, View
<1>3. /\ left \in Nat /\ OwnRemaining(whole') = left
  BY <1>2 DEF OwnRemaining, AtLeastZero, View
<1>4. /\ whole.limit = deployment.allowance /\ whole.spent = issued /\ issued \in Nat
  BY DEF NightInv, NightTypeOK, WholeIsIssued
<1>5. /\ issued' = issued + n /\ foundLeft' = left /\ begun' = FALSE
      /\ stage' = Following(stage)
  BY <1>1, <1>2, <1>4 DEF IssuesAndEnds
<1>6. stage' \in Stages
  BY <1>5, Follows DEF NightInv, NightTypeOK
<1>7. share' = Offered(stage', left)
  BY <1>3 DEF IssuesAndEnds
<1>8. /\ share' \in View \union {NoShare}
      /\ share' # NoShare => share'.spent = 0 /\ share'.limit \in Nat
      /\ stage' \in {"accounts", "conversations"} => share' = Limited(HalfOf(left))
      /\ stage' = "compact" => share' = Limited(left - FoldReserve)
  BY <1>3, <1>6, <1>7, OfferedIsView
<1>9. NightTypeOK'
  <2>1. deployment' \in Deployments
    BY DEF NightInv, NightTypeOK
  <2>2. issued' \in Nat /\ foundLeft' \in Int
    BY <1>3, <1>4, <1>5
  <2>3. begun' \in BOOLEAN
    BY <1>5, Zenon
  <2> QED BY <1>2, <1>6, <1>8, <2>1, <2>2, <2>3 DEF NightTypeOK
<1>10. WholeIsIssued'
  BY <1>1, <1>2, <1>3, <1>4, <1>5 DEF WholeIsIssued, View
<1>11. ShareIsIssued'
  BY <1>1, <1>2, <1>4, <1>5, <1>8 DEF ShareIsIssued, NotIssued
<1>12. ShareIsOffered'
  <2>1. \A k \in Int : Limited(k).limit = AtLeastZero(k) /\ Limited(k) # NoShare
    BY DEF Limited, NoShare, AtLeastZero
  <2>2. HalfOf(left) \in Nat /\ left - FoldReserve \in Int
    BY <1>3, HalfIsLess, NightAssumption
  <2>3. AtLeastZero(HalfOf(left)) = HalfOf(left)
    BY <2>2 DEF AtLeastZero
  <2> QED BY <1>5, <1>8, <2>1, <2>2, <2>3 DEF ShareIsOffered
<1> QED BY <1>9, <1>10, <1>11, <1>12 DEF NightInv

\* A sweep that goes on has charged its view and the run alike.
LEMMA IssuingKeeps ==
    ASSUME NightInv, stage # "idle", UNCHANGED deployment,
           NEW n \in Nat, Fits(n), Issues(n), begun' \in BOOLEAN,
           backlog' \in [accounts: Nat, compact: Nat, fold: Nat],
           UNCHANGED <<dueSoFar, statementsFailed>>
    PROVE  NightInv'
<1>1. deployment.allowance \in Nat
  BY Deployed DEF NightInv, NightTypeOK
<1>2. /\ whole' \in View /\ whole'.limit = whole.limit /\ whole'.spent = whole.spent + n
  BY DEF NightInv, NightTypeOK, Issues, WholeCharged, Spend, View
<1>3. whole # NoShare /\ whole.spent + n <= whole.limit
  BY ViewIsNotNone DEF Fits, NightInv, NightTypeOK
<1>4. share # NoShare => share \in View /\ share.spent + n <= share.limit
  BY DEF Fits, NightInv, NightTypeOK
<1>5. /\ share = NoShare => share' = NoShare
      /\ share # NoShare => /\ share' \in View /\ share' # NoShare
                            /\ share'.limit = share.limit /\ share'.spent = share.spent + n
  <2>1. CASE share = NoShare
    BY <2>1 DEF Issues
  <2>2. CASE share # NoShare
    <3>1. share' \in View /\ share'.limit = share.limit /\ share'.spent = share.spent + n
      BY <1>4, <2>2 DEF Issues, Spend, View
    <3> QED BY <2>2, <3>1, ViewIsNotNone
  <2> QED BY <2>1, <2>2
<1>6. /\ issued' = issued + n /\ stage' = stage /\ foundLeft' = foundLeft
  BY DEF Issues
<1>7. NightTypeOK'
  BY <1>2, <1>5, <1>6 DEF NightInv, NightTypeOK
<1>8. WholeIsIssued'
  BY <1>1, <1>2, <1>3, <1>6 DEF NightInv, NightTypeOK, WholeIsIssued
<1>9. ShareIsIssued'
  <2> SUFFICES ASSUME share' # NoShare
               PROVE  share'.spent <= share'.limit /\ share'.spent = (foundLeft - NotIssued)'
    BY DEF ShareIsIssued
  <2>1. share # NoShare
    BY <1>5
  <2>2. share.spent = foundLeft - NotIssued /\ share \in View
    BY <1>4, <2>1 DEF NightInv, ShareIsIssued
  <2> QED BY <1>1, <1>4, <1>5, <1>6, <2>1, <2>2 DEF NotIssued, NightInv, NightTypeOK
<1>10. ShareIsOffered'
  BY <1>5, <1>6 DEF NightInv, ShareIsOffered
<1> QED BY <1>7, <1>8, <1>9, <1>10 DEF NightInv

-----------------------------------------------------------------------------
(* The invariant *)

LEMMA NightInitHolds == NightInit => NightInv
<1> SUFFICES ASSUME NightInit PROVE NightInv
  OBVIOUS
<1>1. backlog \in [accounts: Nat, compact: Nat, fold: Nat]
  BY DEF NightInit, NoWork
<1>2. whole \in View /\ share = NoShare
  BY DEF NightInit, Closed, View
<1>3. /\ deployment \in Deployments /\ stage = "idle" /\ begun = FALSE
      /\ dueSoFar = 0 /\ statementsFailed = 0 /\ issued = 0 /\ foundLeft = 0
  BY DEF NightInit
<1>4. stage \in Stages
  BY <1>3 DEF Stages
<1>5. NightTypeOK
  <2>1. begun \in BOOLEAN
    BY <1>3, Zenon
  <2>2. dueSoFar \in Nat /\ statementsFailed \in Nat /\ issued \in Nat /\ foundLeft \in Int
    BY <1>3
  <2> QED BY <1>1, <1>2, <1>3, <1>4, <2>1, <2>2 DEF NightTypeOK
<1> QED BY <1>3, <1>5 DEF NightInv

LEMMA BeginKeeps == ASSUME NightInv, NightBegins PROVE NightInv'
<1>1. PICK n \in FixedCosts :
        /\ whole' = Spend(Limited(deployment.allowance), n) /\ issued' = n
        /\ stage' = Following("idle") /\ begun' = FALSE
        /\ share' = Offered(stage', OwnRemaining(whole'))
        /\ foundLeft' = deployment.allowance - n
  BY DEF NightBegins
<1>2. /\ deployment \in Deployments /\ deployment.allowance \in Nat /\ n \in Nat
      /\ n <= deployment.allowance
  BY Deployed, NightAssumption DEF NightInv, NightTypeOK
<1> DEFINE left == deployment.allowance - n
<1>3. /\ whole' \in View /\ whole'.limit = deployment.allowance /\ whole'.spent = n
      /\ OwnRemaining(whole') = left /\ left \in Nat
  BY <1>1, <1>2 DEF Spend, Limited, AtLeastZero, View, OwnRemaining
<1>4. stage' \in Stages
  BY <1>1, Follows DEF Stages
<1>5. /\ share' \in View \union {NoShare}
      /\ share' # NoShare => share'.spent = 0 /\ share'.limit \in Nat
      /\ stage' \in {"accounts", "conversations"} => share' = Limited(HalfOf(left))
      /\ stage' = "compact" => share' = Limited(left - FoldReserve)
  BY <1>1, <1>3, <1>4, OfferedIsView
<1>6. UNCHANGED <<deployment, backlog, dueSoFar, statementsFailed>>
  BY DEF NightBegins
<1>7. NightTypeOK'
  <2>1. deployment' \in Deployments /\ dueSoFar' \in Nat /\ statementsFailed' \in Nat
    BY <1>6 DEF NightInv, NightTypeOK
  <2>2. backlog' \in [accounts: Nat, compact: Nat, fold: Nat]
    BY <1>6 DEF NightInv, NightTypeOK
  <2>3. issued' \in Nat /\ foundLeft' \in Int
    BY <1>1, <1>2
  <2>4. begun' \in BOOLEAN
    BY <1>1, Zenon
  <2> QED BY <1>3, <1>4, <1>5, <2>1, <2>2, <2>3, <2>4 DEF NightTypeOK
<1>8. WholeIsIssued' /\ ShareIsIssued'
  BY <1>1, <1>2, <1>3, <1>5, <1>6 DEF WholeIsIssued, ShareIsIssued, NotIssued
<1>9. ShareIsOffered'
  <2>1. \A k \in Int : Limited(k).limit = AtLeastZero(k) /\ Limited(k) # NoShare
    BY DEF Limited, NoShare, AtLeastZero
  <2>2. HalfOf(left) \in Nat /\ left - FoldReserve \in Int
    BY <1>3, HalfIsLess, NightAssumption
  <2>3. AtLeastZero(HalfOf(left)) = HalfOf(left)
    BY <2>2 DEF AtLeastZero
  <2> QED BY <1>1, <1>5, <2>1, <2>2, <2>3 DEF ShareIsOffered
<1> QED BY <1>7, <1>8, <1>9 DEF NightInv

LEMMA DoneKeeps ==
    ASSUME NEW sweep \in {"accounts", "compact", "fold"}, Done(sweep),
           backlog \in [accounts: Nat, compact: Nat, fold: Nat]
    PROVE  backlog' \in [accounts: Nat, compact: Nat, fold: Nat]
  BY DEF Done, AtLeastZero

\* What a step asked for is charged, in full or in part, whoever is charged.
LEMMA AskedFits ==
    ASSUME NightInv, stage # "idle", NEW n \in Nat, Affords(n)
    PROVE  Fits(n) /\ whole.spent + n <= whole.limit
<1>1. Fits(n)
  BY RemainingFits DEF NightInv, NightTypeOK, WholeIsIssued, ShareIsIssued
<1>2. whole # NoShare
  BY ViewIsNotNone DEF NightInv, NightTypeOK
<1> QED BY <1>1, <1>2 DEF Fits

LEMMA FewerAreAfforded ==
    ASSUME NightInv, stage # "idle", NEW n \in Nat, NEW m \in Nat, m <= n, Affords(n)
    PROVE  Affords(m)
<1>1. Remaining \in Nat
  BY RemainingFits DEF NightInv, NightTypeOK, WholeIsIssued, ShareIsIssued
<1> QED BY <1>1 DEF Affords

LEMMA NightKeeps == ASSUME NightInv, [NightNext]_nightVars PROVE NightInv'
<1> DEFINE Backlogs == [accounts: Nat, compact: Nat, fold: Nat]
<1>0. backlog \in Backlogs /\ dueSoFar \in Nat /\ statementsFailed \in Nat /\ begun \in BOOLEAN
  BY DEF NightInv, NightTypeOK
<1>a. AccountPass \in Nat /\ SealStatements \in Nat /\ ChunkStatements \in Nat \ {0} /\ MonthStatements \in Nat \ {0}
  BY NightAssumption
<1>b. ASSUME NEW n \in Nat, NEW m \in Nat, stage # "idle", Affords(n), m <= n
      PROVE  Fits(m) /\ whole.spent + m <= whole.limit
  BY <1>b, AskedFits, FewerAreAfforded
<1>c. ASSUME stage # "idle" PROVE whole.spent + 0 <= whole.limit
  BY <1>c, Deployed DEF NightInv, NightTypeOK, WholeIsIssued
<1>1. CASE NightBegins
  BY <1>1, BeginKeeps
<1>2. CASE DeletesAccounts
  <2>1. /\ stage # "idle" /\ Affords(AccountPass) /\ backlog' \in Backlogs
        /\ UNCHANGED <<deployment, dueSoFar, statementsFailed>>
    BY <1>0, <1>2, DoneKeeps DEF DeletesAccounts, Asked
  <2>2. Fits(AccountPass) /\ whole.spent + AccountPass <= whole.limit
    BY <1>a, <2>1, AskedFits
  <2>3. CASE Issues(AccountPass) /\ UNCHANGED begun
    BY <1>0, <1>a, <2>1, <2>2, <2>3, IssuingKeeps
  <2>4. CASE IssuesAndEnds(AccountPass)
    BY <1>0, <1>a, <2>1, <2>2, <2>4, EndingKeeps
  <2> QED BY <1>2, <2>3, <2>4 DEF DeletesAccounts
<1>3. CASE DeletesConversations
  <2>1. stage # "idle"
    BY <1>3 DEF DeletesConversations
  <2>2. Remaining \in Nat
    BY <2>1, RemainingFits DEF NightInv, NightTypeOK, WholeIsIssued, ShareIsIssued
  <2>3. PICK n \in 0..Remaining : IssuesAndEnds(n)
    BY <1>3 DEF DeletesConversations
  <2>4. Affords(n)
    BY <2>2, <2>3 DEF Affords
  <2>5. whole.spent + n <= whole.limit
    BY <2>1, <2>2, <2>4, AskedFits
  <2> QED BY <1>0, <1>3, <2>1, <2>2, <2>3, <2>5, EndingKeeps DEF DeletesConversations
<1>4. CASE PrunesSpend
  <2>1. stage # "idle" /\ Affords(1)
    BY <1>4 DEF PrunesSpend, Asked
  <2>2. whole.spent + 1 <= whole.limit
    BY <2>1, AskedFits
  <2> QED BY <1>0, <1>4, <2>1, <2>2, EndingKeeps DEF PrunesSpend
<1>5. CASE SealsDays
  <2>1. stage = "seal" /\ UNCHANGED <<deployment, backlog, dueSoFar, statementsFailed>>
    BY <1>5 DEF SealsDays
  <2>2. CASE ~begun /\ Affords(Asked) /\ Issues(1) /\ begun' = TRUE
    <3>1. Affords(1 + SealStatements)
      BY <2>1, <2>2 DEF Asked
    <3>2. Fits(1)
      BY <1>a, <1>b, <2>1, <3>1
    <3> QED BY <1>0, <2>1, <2>2, <3>2, IssuingKeeps
  <2>3. CASE begun /\ Affords(Asked) /\ Issues(SealStatements) /\ UNCHANGED begun
    <3>1. Affords(SealStatements)
      BY <2>1, <2>3 DEF Asked
    <3>2. Fits(SealStatements)
      BY <1>a, <1>b, <2>1, <3>1
    <3> QED BY <1>0, <1>a, <2>1, <2>3, <3>2, IssuingKeeps
  <2>4. CASE Stops
    BY <1>0, <1>c, <2>1, <2>4, EndingKeeps DEF Stops
  <2> QED BY <1>5, <2>2, <2>3, <2>4 DEF SealsDays
<1>6. CASE CompactsEvents
  <2>1. /\ stage = "compact" /\ Affords(Asked) /\ UNCHANGED <<deployment, dueSoFar, statementsFailed>>
    BY <1>6 DEF CompactsEvents
  <2>2. CASE ~begun /\ Issues(1) /\ begun' = TRUE /\ UNCHANGED backlog
    <3>1. Affords(1)
      BY <2>1, <2>2 DEF Asked
    <3>2. Fits(1)
      BY <1>b, <2>1, <3>1
    <3> QED BY <1>0, <2>1, <2>2, <3>2, IssuingKeeps
  <2>3. CASE Stops /\ UNCHANGED backlog
    BY <1>0, <1>c, <2>1, <2>3, EndingKeeps DEF Stops
  <2>4. CASE begun /\ Done("compact") /\ Issues(ChunkStatements) /\ UNCHANGED begun
    <3>1. Affords(ChunkStatements) /\ backlog' \in Backlogs
      BY <1>0, <2>1, <2>4, DoneKeeps DEF Asked
    <3>2. Fits(ChunkStatements)
      BY <1>a, <1>b, <2>1, <3>1
    <3> QED BY <1>0, <1>a, <2>1, <2>4, <3>1, <3>2, IssuingKeeps
  <2>5. CASE begun /\ Done("compact") /\ IssuesAndEnds(ChunkStatements)
    <3>1. Affords(ChunkStatements) /\ backlog' \in Backlogs
      BY <1>0, <2>1, <2>5, DoneKeeps DEF Asked
    <3>2. whole.spent + ChunkStatements <= whole.limit
      BY <1>a, <1>b, <2>1, <3>1
    <3> QED BY <1>0, <1>a, <2>1, <2>5, <3>1, <3>2, EndingKeeps
  <2> QED BY <1>6, <2>2, <2>3, <2>4, <2>5 DEF CompactsEvents
<1>7. CASE FoldsMonths
  <2>1. /\ stage # "idle" /\ Affords(MonthStatements) /\ UNCHANGED <<deployment, dueSoFar, statementsFailed>>
    BY <1>7 DEF FoldsMonths, Asked
  <2>2. CASE IssuesAndEnds(1) /\ UNCHANGED backlog
    <3>1. whole.spent + 1 <= whole.limit
      BY <1>a, <1>b, <2>1
    <3> QED BY <1>0, <2>1, <2>2, <3>1, EndingKeeps
  <2>3. CASE Done("fold") /\ Issues(MonthStatements) /\ UNCHANGED begun
    <3>1. Fits(MonthStatements) /\ backlog' \in Backlogs
      BY <1>0, <1>a, <1>b, <2>1, <2>3, DoneKeeps
    <3> QED BY <1>0, <1>a, <2>1, <2>3, <3>1, IssuingKeeps
  <2> QED BY <1>7, <2>2, <2>3 DEF FoldsMonths
<1>8. CASE TooLittleLeft
  BY <1>0, <1>8, <1>c, EndingKeeps DEF TooLittleLeft, Stops
<1>9. CASE StatementFails
  <2>1. /\ stage \notin {"idle", "conversations"} /\ Affords(Asked) /\ statementsFailed' \in Nat
        /\ UNCHANGED <<deployment, backlog, dueSoFar>>
    BY <1>0, <1>9 DEF StatementFails
  <2>2. PICK n \in ChargedByFailure : IssuesAndEnds(n)
    BY <1>9 DEF StatementFails
  <2>3. n \in Nat /\ Asked \in Nat /\ n <= Asked
    BY <1>a, <2>1, <2>2 DEF ChargedByFailure, Asked, NightInv, NightTypeOK, Stages
  <2>4. whole.spent + n <= whole.limit
    BY <1>b, <2>1, <2>3
  <2> QED BY <1>0, <2>1, <2>2, <2>3, <2>4, EndingKeeps
<1>10. CASE WorkArrives
  <2>1. PICK sweep \in DOMAIN backlog : backlog' = [backlog EXCEPT ![sweep] = @ + 1]
    BY <1>10 DEF WorkArrives
  <2>2. backlog' \in Backlogs
    BY <1>0, <2>1
  <2> QED BY <1>0, <1>10, <2>2 DEF WorkArrives, budget, NightInv, NightTypeOK
<1>11. CASE UNCHANGED nightVars
  BY <1>11 DEF nightVars, budget, NightInv, NightTypeOK, WholeIsIssued, ShareIsIssued, ShareIsOffered,
               NotIssued
<1> QED
  BY <1>1, <1>2, <1>3, <1>4, <1>5, <1>6, <1>7, <1>8, <1>9, <1>10, <1>11 DEF NightNext, Sweeps

\* Type correctness of a night's allowance and of the views its sweeps have of it.
THEOREM NightTypeCorrect == NightSpec => []NightTypeOK
<1>1. NightInv => NightTypeOK
  BY DEF NightInv
<1> QED BY NightInitHolds, NightKeeps, <1>1, PTL DEF NightSpec

LEMMA InvGivesShares == NightInv => SharesHeld
<1> SUFFICES ASSUME NightInv, stage # "idle"
             PROVE  /\ issued <= deployment.allowance
                    /\ stage \in {"accounts", "conversations"} =>
                           foundLeft - NotIssued <= foundLeft \div 2
                    /\ stage = "compact" => NotIssued >= Lesser(foundLeft, FoldReserve)
                    /\ Fits(Remaining) /\ ~Fits(Remaining + 1)
  BY DEF SharesHeld
<1>1. WholeIsIssued /\ ShareIsIssued /\ ShareIsOffered /\ NightTypeOK /\ deployment.allowance \in Nat
  BY Deployed DEF NightInv, NightTypeOK
<1>2. issued <= deployment.allowance
  BY <1>1 DEF WholeIsIssued
<1>3. stage \in {"accounts", "conversations"} => foundLeft - NotIssued <= foundLeft \div 2
  BY <1>1 DEF ShareIsIssued, ShareIsOffered, HalfOf
<1>4. ASSUME stage = "compact" PROVE NotIssued >= Lesser(foundLeft, FoldReserve)
  <2>1. share # NoShare /\ share.spent <= AtLeastZero(foundLeft - FoldReserve)
        /\ share.spent = foundLeft - NotIssued
    BY <1>1, <1>4 DEF ShareIsIssued, ShareIsOffered
  <2>2. foundLeft \in Nat /\ FoldReserve \in Nat /\ NotIssued \in Int
    BY <1>1, NightAssumption DEF WholeIsIssued, NotIssued, NightTypeOK
  <2> QED BY <2>1, <2>2 DEF AtLeastZero, Lesser
<1>5. Fits(Remaining) /\ ~Fits(Remaining + 1)
  <2>1. Remaining \in Nat /\ \A n \in Nat : Affords(n) <=> Fits(n)
    BY <1>1, RemainingFits DEF NightTypeOK, WholeIsIssued, ShareIsIssued
  <2>2. Affords(Remaining) /\ ~Affords(Remaining + 1)
    BY <2>1 DEF Affords
  <2> QED BY <2>1, <2>2
<1> QED BY <1>2, <1>3, <1>4, <1>5

\* No night issues more than its allowance, no sweep more than its share, and what
\* is left is exactly what will be charged, for every allowance and every cost.
THEOREM SharesAreHeld == NightSpec => []SharesHeld
  BY NightInitHolds, NightKeeps, InvGivesShares, PTL DEF NightSpec

-----------------------------------------------------------------------------
(* The log of one application.                                               *)

Name  == [day: Nat, last: Nat]
Put   == [batch: Name, lines: SUBSET Records]
Phases == {"served", "stored", "failed", "flushing", "returned"}
Born  == [r \in Records |-> capture[r].day]

LogTypeOK ==
    /\ capture \in [Records -> [phase: Phases, day: Nat]]
    /\ arrived \in Seq(Records) /\ pending \subseteq 1..Len(arrived)
    /\ batch \in Name \cup {NoBatch} /\ flush \in Put \cup {NoFlush}
    /\ sent \subseteq Put /\ files \subseteq Put

\* A capture is inserted once, after its media.
CapturesInv ==
    /\ \A i, j \in 1..Len(arrived) : arrived[i] = arrived[j] => i = j
    /\ \A r \in Inserted : capture[r].phase \notin {"served", "stored"}
    /\ \A r \in Records : capture[r].phase = "stored" => r \in media
    /\ Inserted \subseteq media

\* A batch's name, for the lines it stands for.
Names(birthdays, ids, records, row) ==
    /\ row.last \in ids
    /\ \A i \in ids : i <= row.last => row.day <= birthdays[records[i]]

\* The write of a batch: what is pending up to its last id.
PutOf(ids, records, row) ==
    [batch |-> row, lines |-> {records[i] : i \in {j \in ids : j <= row.last}}]

\* A write of a batch that has left the tables.
Past(birthdays, ids, records, put) ==
    /\ \A i \in ids : put.batch.last < i
    /\ put.batch.last <= Len(records)
    /\ \A r \in put.lines : /\ \E i \in 1..Len(records) : i \notin ids /\ r = records[i]
                            /\ put.batch.day <= birthdays[r]

\* Every write that may be or become a file is of the batch that is pending, just
\* as it is, or of one that has left the tables; and no two are of one name or share
\* a line.
Tidy(birthdays, ids, records, row, put, puts) ==
    /\ row # NoBatch => Names(birthdays, ids, records, row)
    /\ put # NoFlush => row # NoBatch /\ put = PutOf(ids, records, row)
    /\ \A p \in puts : \/ row # NoBatch /\ p = PutOf(ids, records, row)
                       \/ Past(birthdays, ids, records, p)
    /\ \A p, q \in puts : p.batch = q.batch \/ p.lines \cap q.lines # {} => p = q

\* What has left the tables is in a file.
FiledInv ==
    \A i \in 1..Len(arrived) : i \notin pending => \E f \in files : arrived[i] \in f.lines

LogInv ==
    /\ LogTypeOK /\ CapturesInv /\ FiledInv
    /\ Tidy(Born, pending, arrived, batch, flush, sent \cup files)
-----------------------------------------------------------------------------
(* The least and the greatest of a set, and what keeps writes tidy.           *)

LEMMA LeastExists ==
    ASSUME NEW S \in SUBSET Nat, S # {}
    PROVE  \E x \in S : \A y \in S : x <= y
<1> DEFINE R == OpToRel(<, Nat)
<1>1. \E x \in S : \A y \in S : ~(<<y, x>> \in R)
  <2>1. IsWellFoundedOn(R, Nat)
    BY NatLessThanWellFounded
  <2> HIDE DEF R
  <2> QED BY <2>1, WFMin
<1>2. \A x, y \in Nat : <<y, x>> \in R \/ x <= y
  BY DEF OpToRel
<1> QED BY <1>1, <1>2

LEMMA MinIsLeast ==
    ASSUME NEW S \in SUBSET Nat, S # {}
    PROVE  Min(S) \in S /\ \A y \in S : Min(S) <= y
  BY LeastExists DEF Min

LEMMA MaxIsGreatest ==
    ASSUME NEW n \in Nat, NEW S \in SUBSET (0..n), S # {}
    PROVE  Max(S) \in S /\ \A y \in S : y <= Max(S)
<1> DEFINE T == {n - x : x \in S}
<1>1. T \in SUBSET Nat /\ T # {}
  <2>1. \A x \in S : x \in Int /\ x <= n
    OBVIOUS
  <2>2. \A x \in S : n - x \in Nat
    BY <2>1
  <2> QED BY <2>2
<1>2. PICK m \in T : \A y \in T : m <= y
  BY <1>1, LeastExists
<1>3. PICK x \in S : m = n - x
  BY <1>2
<1>4. \A y \in S : y <= x
  <2> TAKE y \in S
  <2>1. m <= n - y
    BY <1>2
  <2> QED BY <1>3, <2>1
<1>5. \E g \in S : \A y \in S : g >= y
  <2>1. \A y \in S : x >= y
    BY <1>3, <1>4
  <2> QED BY <1>3, <2>1
<1> QED BY <1>5 DEF Max

LEMMA FewerAreTidy ==
    ASSUME NEW birthdays, NEW ids, NEW records, NEW row, NEW put, NEW puts,
           Tidy(birthdays, ids, records, row, put, puts),
           NEW next, next = put \/ next = NoFlush, NEW fewer \in SUBSET puts
    PROVE  Tidy(birthdays, ids, records, row, next, fewer)
  BY DEF Tidy

\* A record that is added changes nothing of the writes there are.
LEMMA AddedIsTidy ==
    ASSUME NEW birthdays, NEW records \in Seq(Records), NEW ids \in SUBSET (1..Len(records)),
           NEW row \in Name \cup {NoBatch}, NEW put, NEW puts \in SUBSET Put,
           NEW r \in Records, Tidy(birthdays, ids, records, row, put, puts)
    PROVE  Tidy(birthdays, ids \cup {Len(records) + 1}, Append(records, r), row, put, puts)
<1> DEFINE more == Append(records, r)
           grown == ids \cup {Len(records) + 1}
<1>1. /\ Len(records) \in Nat /\ Len(more) = Len(records) + 1
      /\ \A i \in 1..Len(records) : more[i] = records[i]
  BY LenProperties, AppendProperties
<1>2. ASSUME row # NoBatch
      PROVE  Names(birthdays, grown, more, row) /\ PutOf(grown, more, row) = PutOf(ids, records, row)
  <2>1. row.last \in ids /\ row.last <= Len(records) /\ row.last \in Nat
    BY <1>1, <1>2 DEF Tidy, Names, Name
  <2>2. {j \in grown : j <= row.last} = {j \in ids : j <= row.last}
    BY <1>1, <2>1
  <2>3. {more[i] : i \in {j \in ids : j <= row.last}} = {records[i] : i \in {j \in ids : j <= row.last}}
    BY <1>1
  <2>4. Names(birthdays, grown, more, row)
    BY <1>1, <1>2, <2>1, <2>2 DEF Names, Tidy
  <2> QED BY <2>2, <2>3, <2>4 DEF PutOf
<1>3. ASSUME NEW p \in puts, Past(birthdays, ids, records, p) PROVE Past(birthdays, grown, more, p)
  <2>1. p.batch.last \in Nat
    BY DEF Put, Name
  <2>2. \A x \in p.lines : /\ \E i \in 1..Len(more) : i \notin grown /\ x = more[i]
                           /\ p.batch.day <= birthdays[x]
    BY <1>1, <1>3 DEF Past
  <2>3. \A i \in grown : p.batch.last < i
    BY <1>1, <1>3, <2>1 DEF Past
  <2>4. p.batch.last <= Len(more)
    BY <1>1, <1>3, <2>1 DEF Past
  <2> HIDE DEF more, grown
  <2> QED BY <2>2, <2>3, <2>4 DEF Past
<1> QED BY <1>2, <1>3 DEF Tidy

\* The write of the pending batch adds itself.
LEMMA WrittenIsTidy ==
    ASSUME NEW birthdays, NEW records \in Seq(Records), NEW ids \in SUBSET (1..Len(records)),
           NEW row \in Name \cup {NoBatch}, NEW puts \in SUBSET Put,
           Tidy(birthdays, ids, records, row, NoFlush, puts),
           \A i, j \in 1..Len(records) : records[i] = records[j] => i = j,
           NEW name \in Name, Names(birthdays, ids, records, name), row # NoBatch => name = row
    PROVE  LET put == PutOf(ids, records, name)
           IN  put \in Put /\ Tidy(birthdays, ids, records, name, put, puts \cup {put})
<1> DEFINE put == PutOf(ids, records, name)
<1>1. name # NoBatch
  BY DEF Name, NoBatch
<1>2. put \in Put /\ put.batch = name
  <2>1. \A i \in ids : records[i] \in Records
    BY ElementOfSeq
  <2> QED BY <2>1 DEF PutOf, Put
<1>3. \A p \in puts : p = put \/ Past(birthdays, ids, records, p)
  BY <1>1 DEF Tidy
<1>4. ASSUME NEW p \in puts, Past(birthdays, ids, records, p)
      PROVE  p.batch # put.batch /\ p.lines \cap put.lines = {}
  <2>1. p.batch.last < name.last /\ p.batch.last \in Nat /\ name.last \in Nat
    BY <1>4 DEF Past, Names, Put, Name
  <2>2. \A x \in put.lines : \E j \in ids : x = records[j]
    BY DEF PutOf
  <2>3. \A x \in p.lines : \E i \in 1..Len(records) : i \notin ids /\ x = records[i]
    BY <1>4 DEF Past
  <2> QED BY <1>2, <2>1, <2>2, <2>3
<1>5. \A p, q \in puts \cup {put} : p.batch = q.batch \/ p.lines \cap q.lines # {} => p = q
  <2> SUFFICES ASSUME NEW p \in puts \cup {put}, NEW q \in puts \cup {put},
                      p.batch = q.batch \/ p.lines \cap q.lines # {}
               PROVE  p = q
    OBVIOUS
  <2>1. CASE p \in puts /\ q \in puts
    BY <2>1 DEF Tidy
  <2>2. CASE p = put
    BY <1>3, <1>4, <2>2
  <2>3. CASE q = put
    BY <1>3, <1>4, <2>3
  <2> QED BY <2>1, <2>2, <2>3
<1>6. \A p \in puts \cup {put} : p = put \/ Past(birthdays, ids, records, p)
  BY <1>3
<1> HIDE DEF put
<1> QED BY <1>1, <1>2, <1>5, <1>6 DEF Tidy, put

\* The batch that has landed leaves the tables.
LEMMA LandedIsTidy ==
    ASSUME NEW birthdays, NEW records \in Seq(Records), NEW ids \in SUBSET (1..Len(records)),
           NEW row \in Name, NEW puts \in SUBSET Put, NEW put, put # NoFlush,
           Tidy(birthdays, ids, records, row, put, puts)
    PROVE  Tidy(birthdays, {i \in ids : i > row.last}, records, NoBatch, NoFlush, puts)
<1> DEFINE rest == {i \in ids : i > row.last}
<1>1. /\ row.last \in ids /\ row.last \in Nat /\ row.day \in Nat /\ Len(records) \in Nat
      /\ \A i \in ids : i <= row.last => row.day <= birthdays[records[i]]
  BY LenProperties DEF Tidy, Names, Name
<1>2. Past(birthdays, rest, records, PutOf(ids, records, row))
  <2>1. \A x \in PutOf(ids, records, row).lines : \E i \in ids : i <= row.last /\ x = records[i]
    BY DEF PutOf
  <2>2. \A x \in PutOf(ids, records, row).lines :
           /\ \E i \in 1..Len(records) : i \notin rest /\ x = records[i]
           /\ row.day <= birthdays[x]
    BY <1>1, <2>1
  <2>3. PutOf(ids, records, row).batch = row
    BY DEF PutOf
  <2> QED BY <1>1, <2>2, <2>3 DEF Past
<1>3. \A p \in puts : Past(birthdays, ids, records, p) => Past(birthdays, rest, records, p)
  BY DEF Past
<1> QED BY <1>2, <1>3 DEF Tidy

\* A batch is named from a pending id and no later day than its lines'.
LEMMA BatchRowNames ==
    ASSUME capture \in [Records -> [phase: Phases, day: Nat]],
           NEW records \in Seq(Records), NEW ids \in SUBSET (1..Len(records)),
           NEW row \in Name \cup {NoBatch}, row = NoBatch => ids # {},
           row # NoBatch => Names(Born, ids, records, row)
    PROVE  /\ BatchRow(ids, records, row) \in Name
           /\ Names(Born, ids, records, BatchRow(ids, records, row))
           /\ row # NoBatch => BatchRow(ids, records, row) = row
<1>1. CASE row # NoBatch
  BY <1>1 DEF BatchRow
<1>2. CASE row = NoBatch
  <2> DEFINE last == LastOf(ids, records)
             fit == {i \in ids : CharsOf({j \in ids : j <= i}, records) <= MaxBatchChars}
             taken == {i \in ids : i <= last}
             dates == {capture[records[i]].day : i \in taken}
  <2>1. ids # {} /\ ids \in SUBSET Nat /\ Len(records) \in Nat
    BY <1>2, LenProperties
  <2>2. last \in ids
    <3>1. CASE fit = {}
      BY <2>1, <3>1, MinIsLeast DEF LastOf
    <3>2. CASE fit # {}
      <4>1. fit \in SUBSET (0..Len(records)) /\ fit \subseteq ids
        <5>1. fit \subseteq ids
          OBVIOUS
        <5> HIDE DEF fit
        <5> QED BY <2>1, <5>1
      <4>2. Max(fit) \in fit
        BY <2>1, <3>2, <4>1, MaxIsGreatest
      <4>3. last = Max(fit)
        BY <3>2 DEF LastOf
      <4> QED BY <4>1, <4>2, <4>3
    <3> QED BY <3>1, <3>2
  <2> HIDE DEF last
  <2>3. \A i \in ids : records[i] \in Records /\ capture[records[i]].day \in Nat
    <3>1. \A i \in ids : records[i] \in Records
      BY ElementOfSeq
    <3> QED BY <3>1
  <2>4. dates \in SUBSET Nat /\ dates # {}
    BY <2>1, <2>2, <2>3
  <2>5. Min(dates) \in Nat /\ \A day \in dates : Min(dates) <= day
    BY <2>4, MinIsLeast
  <2>6. BatchRow(ids, records, row) = [day |-> Min(dates), last |-> last]
    BY <1>2 DEF BatchRow, EarliestDay, last
  <2>7. \A i \in ids : i <= last => Min(dates) <= Born[records[i]]
    BY <2>3, <2>5 DEF Born
  <2> HIDE DEF dates
  <2>8. [day |-> Min(dates), last |-> last] \in Name
    BY <2>1, <2>2, <2>5 DEF Name
  <2> QED BY <1>2, <2>2, <2>6, <2>7, <2>8 DEF Names
<1> QED BY <1>1, <1>2

LEMMA WritesKeep ==
    ASSUME capture \in [Records -> [phase: Phases, day: Nat]],
           NEW records \in Seq(Records), NEW ids \in SUBSET (1..Len(records)),
           \A i, j \in 1..Len(records) : records[i] = records[j] => i = j,
           NEW row \in Name \cup {NoBatch}, sent \subseteq Put, files \subseteq Put,
           Tidy(Born, ids, records, row, NoFlush, sent \cup files), Writes(ids, records, row)
    PROVE  /\ batch' \in Name \cup {NoBatch} /\ flush' \in Put \cup {NoFlush} /\ sent' \subseteq Put
           /\ Tidy(Born, ids, records, batch', flush', sent' \cup files)
<1>1. CASE ids = {} /\ row = NoBatch
  BY <1>1 DEF Writes
<1>2. CASE ~(ids = {} /\ row = NoBatch)
  <2> DEFINE named == BatchRow(ids, records, row)
             put == PutOf(ids, records, named)
  <2>1. /\ named \in Name /\ Names(Born, ids, records, named)
        /\ row # NoBatch => named = row
    BY <1>2, BatchRowNames DEF Tidy
  <2>2. batch' = named /\ flush' = put /\ sent' = sent \cup {put}
    BY <1>2 DEF Writes, PutOf
  <2> HIDE DEF named
  <2>3. put \in Put /\ Tidy(Born, ids, records, named, put, (sent \cup files) \cup {put})
    BY <2>1, WrittenIsTidy
  <2>4. (sent \cup files) \cup {put} = sent' \cup files
    BY <2>2
  <2> QED BY <2>1, <2>2, <2>3, <2>4
<1> QED BY <1>1, <1>2

LEMMA FlushesKeep ==
    ASSUME capture \in [Records -> [phase: Phases, day: Nat]],
           NEW records \in Seq(Records), NEW ids \in SUBSET (1..Len(records)),
           \A i, j \in 1..Len(records) : records[i] = records[j] => i = j,
           batch \in Name \cup {NoBatch}, flush \in Put \cup {NoFlush},
           sent \subseteq Put, files \subseteq Put,
           Tidy(Born, ids, records, batch, flush, sent \cup files), Flushes(ids, records)
    PROVE  /\ batch' \in Name \cup {NoBatch} /\ flush' \in Put \cup {NoFlush} /\ sent' \subseteq Put
           /\ Tidy(Born, ids, records, batch', flush', sent' \cup files)
<1>1. CASE flush # NoFlush
  BY <1>1 DEF Flushes
<1>2. CASE flush = NoFlush
  BY <1>2, WritesKeep DEF Flushes
<1> QED BY <1>1, <1>2

-----------------------------------------------------------------------------
(* One lemma for each step of the log.                                       *)

LEMMA LogBegins == Init => LogInv
<1> SUFFICES ASSUME Init PROVE LogInv
  OBVIOUS
<1>1. PICK day \in [Records -> Days] : capture = [r \in Records |-> [phase |-> "served", day |-> day[r]]]
  BY DEF Init
<1>2. capture \in [Records -> [phase: Phases, day: Nat]] /\ \A r \in Records : capture[r].phase = "served"
  BY <1>1, LogAssumption DEF Phases
<1>3. arrived = <<>> /\ Len(arrived) = 0 /\ arrived \in Seq(Records) /\ 1..Len(arrived) = {}
  BY DEF Init
<1>4. LogTypeOK
  BY <1>2, <1>3 DEF Init, LogTypeOK
<1>5. CapturesInv /\ FiledInv
  BY <1>2, <1>3 DEF Init, CapturesInv, FiledInv, Inserted
<1>6. Tidy(Born, pending, arrived, batch, flush, sent \cup files)
  BY DEF Tidy, Init
<1> QED BY <1>4, <1>5, <1>6 DEF LogInv

\* A step of the captures: their days stay, and none that was inserted is again.
LEMMA CapturesMove ==
    ASSUME LogInv, UNCHANGED arrived, media \subseteq media',
           capture' \in [Records -> [phase: Phases, day: Nat]],
           \A r \in Records :
              /\ capture'[r].day = capture[r].day
              /\ \/ capture'[r] = capture[r]
                 \/ capture'[r].phase \notin {"served", "stored"}
                 \/ capture[r].phase = "served" /\ r \in media'
    PROVE  Born' = Born /\ CapturesInv'
<1>1. Born' = Born
  BY DEF Born
<1>2. Inserted' = Inserted
  BY DEF Inserted
<1>3. Inserted \subseteq Records
  BY ElementOfSeq DEF LogInv, LogTypeOK, Inserted
<1>4. \A r \in Inserted : capture'[r].phase \notin {"served", "stored"}
  BY <1>3 DEF LogInv, CapturesInv
<1>5. \A r \in Records : capture'[r].phase = "stored" => r \in media'
  BY DEF LogInv, CapturesInv
<1>6. \A i, j \in 1..Len(arrived') : arrived'[i] = arrived'[j] => i = j
  BY DEF LogInv, CapturesInv
<1>7. Inserted' \subseteq media'
  BY <1>2 DEF LogInv, CapturesInv
<1> QED BY <1>1, <1>2, <1>4, <1>5, <1>6, <1>7 DEF CapturesInv

\* Captures that move on from a flush, or are lost.
LEMMA PhaseShape ==
    ASSUME NEW entry \in [phase: Phases, day: Nat], NEW phase \in Phases
    PROVE  /\ [entry EXCEPT !.phase = phase] \in [phase: Phases, day: Nat]
           /\ [entry EXCEPT !.phase = phase].day = entry.day
           /\ [entry EXCEPT !.phase = phase].phase = phase
  OBVIOUS

\* The append's own steps.
LEMMA MediaKeeps ==
    ASSUME LogInv, NEW r \in Records, StoreMedia(r) \/ MediaFails(r) PROVE LogInv'
<1>1. PICK phase \in {"stored", "failed"} :
        /\ capture' = [capture EXCEPT ![r].phase = phase] /\ capture[r].phase = "served"
        /\ media \subseteq media'
        /\ phase = "stored" => r \in media'
        /\ UNCHANGED <<rows, flush, sent, files>>
  BY DEF StoreMedia, MediaFails, rows
<1>2. capture[r] \in [phase: Phases, day: Nat] /\ capture \in [Records -> [phase: Phases, day: Nat]]
  BY DEF LogInv, LogTypeOK
<1>3. /\ capture' \in [Records -> [phase: Phases, day: Nat]]
      /\ \A s \in Records : capture'[s] = IF s = r THEN [capture[r] EXCEPT !.phase = phase] ELSE capture[s]
  BY <1>1, <1>2, PhaseShape DEF Phases
<1>4. \A s \in Records :
        /\ capture'[s].day = capture[s].day
        /\ \/ capture'[s] = capture[s]
           \/ capture'[s].phase \notin {"served", "stored"}
           \/ capture[s].phase = "served" /\ s \in media'
  <2>1. phase \in Phases
    BY DEF Phases
  <2>2. /\ capture'[r].day = capture[r].day /\ capture'[r].phase = phase
    BY <1>2, <1>3, <2>1, PhaseShape
  <2>3. \A s \in Records : s # r => capture'[s] = capture[s]
    BY <1>3
  <2> QED BY <1>1, <2>2, <2>3
<1>5. Born' = Born /\ CapturesInv'
  <2>1. UNCHANGED arrived /\ media \subseteq media'
    BY <1>1 DEF rows
  <2> QED BY <1>3, <1>4, <2>1, CapturesMove
<1>6. LogTypeOK' /\ FiledInv'
  BY <1>1, <1>3 DEF LogInv, LogTypeOK, FiledInv, rows
<1>7. Tidy(Born, pending, arrived, batch, flush, sent \cup files)'
  BY <1>1, <1>5 DEF LogInv, rows
<1> QED BY <1>5, <1>6, <1>7 DEF LogInv

LEMMA InsertKeeps == ASSUME LogInv, NEW r \in Records, Insert(r) PROVE LogInv'
<1> DEFINE id == Len(arrived) + 1
           records == Append(arrived, r)
           ids == pending \cup {id}
<1>1. /\ capture[r].phase = "stored" /\ arrived' = records /\ pending' = ids
      /\ UNCHANGED <<files, media>>
  BY DEF Insert
<1>2. /\ records \in Seq(Records) /\ Len(records) = id /\ id \in Nat /\ Len(arrived) \in Nat
      /\ \A i \in 1..Len(arrived) : records[i] = arrived[i]
      /\ records[id] = r /\ ids \in SUBSET (1..Len(records))
  BY LenProperties, AppendProperties DEF LogInv, LogTypeOK
<1>3. r \notin Inserted /\ r \in media /\ Inserted' = Inserted \cup {r}
  <2>1. \A i \in 1..id : i \in 1..Len(arrived) \/ i = id
    BY <1>2
  <2> QED BY <1>1, <1>2, <2>1 DEF LogInv, CapturesInv, Inserted
<1>4. \A i, j \in 1..Len(records) : records[i] = records[j] => i = j
  <2> SUFFICES ASSUME NEW i \in 1..Len(records), NEW j \in 1..Len(records), records[i] = records[j]
               PROVE  i = j
    OBVIOUS
  <2>1. CASE i \in 1..Len(arrived) /\ j \in 1..Len(arrived)
    BY <1>2, <2>1 DEF LogInv, CapturesInv
  <2>2. CASE i = id
    BY <1>2, <1>3, <2>2 DEF Inserted
  <2>3. CASE j = id
    BY <1>2, <1>3, <2>3 DEF Inserted
  <2> QED BY <1>2, <2>1, <2>2, <2>3
<1>5. PICK phase \in {"flushing", "returned"} :
        /\ capture' = [capture EXCEPT ![r].phase = phase]
        /\ Flushes(ids, records) \/ UNCHANGED <<batch, flush, sent>>
  BY DEF Insert
<1>6. /\ capture' \in [Records -> [phase: Phases, day: Nat]] /\ Born' = Born
      /\ \A s \in Records : capture'[s].phase = IF s = r THEN phase ELSE capture[s].phase
  <2>1. capture[r] \in [phase: Phases, day: Nat] /\ capture \in [Records -> [phase: Phases, day: Nat]]
    BY DEF LogInv, LogTypeOK
  <2>2. /\ capture' \in [Records -> [phase: Phases, day: Nat]]
        /\ \A s \in Records : capture'[s] = IF s = r THEN [capture[r] EXCEPT !.phase = phase] ELSE capture[s]
    BY <1>5, <2>1, PhaseShape DEF Phases
  <2>3. \A s \in Records : /\ capture'[s].day = capture[s].day
                           /\ capture'[s].phase = IF s = r THEN phase ELSE capture[s].phase
    BY <2>1, <2>2, PhaseShape DEF Phases
  <2> QED BY <2>2, <2>3 DEF Born
<1>7. CapturesInv'
  <2>1. \A s \in Inserted' : capture'[s].phase \notin {"served", "stored"}
    <3>1. Inserted' \subseteq Records
      BY <1>1, <1>2, ElementOfSeq DEF Inserted
    <3> QED BY <1>3, <1>6, <3>1 DEF LogInv, CapturesInv
  <2>2. \A s \in Records : capture'[s].phase = "stored" => s \in media
    BY <1>6 DEF LogInv, CapturesInv
  <2> QED BY <1>1, <1>3, <1>4, <2>1, <2>2 DEF LogInv, CapturesInv
<1>8. FiledInv'
  <2>1. \A i \in 1..Len(records) : i \notin ids => i \in 1..Len(arrived) /\ i \notin pending
    BY <1>2
  <2> QED BY <1>1, <1>2, <2>1 DEF LogInv, FiledInv
<1>9. /\ batch' \in Name \cup {NoBatch} /\ flush' \in Put \cup {NoFlush} /\ sent' \subseteq Put
      /\ Tidy(Born, ids, records, batch', flush', sent' \cup files)
  <2>1. Tidy(Born, ids, records, batch, flush, sent \cup files)
    BY AddedIsTidy DEF LogInv, LogTypeOK
  <2> HIDE DEF ids, records
  <2> QED BY <1>2, <1>4, <1>5, <2>1, FlushesKeep DEF LogInv, LogTypeOK
<1> QED BY <1>1, <1>2, <1>6, <1>7, <1>8, <1>9 DEF LogInv, LogTypeOK

\* A flush that begins, as the alarm fires.
LEMMA AlarmKeeps == ASSUME LogInv, AlarmFires PROVE LogInv'
<1>1. Flushes(pending, arrived) /\ UNCHANGED <<capture, arrived, pending, files, media>>
  BY DEF AlarmFires
<1>2. /\ batch' \in Name \cup {NoBatch} /\ flush' \in Put \cup {NoFlush} /\ sent' \subseteq Put
      /\ Tidy(Born, pending, arrived, batch', flush', sent' \cup files)
  BY <1>1, FlushesKeep DEF LogInv, LogTypeOK, CapturesInv
<1>3. CapturesInv' /\ FiledInv' /\ Born' = Born
  BY <1>1 DEF LogInv, CapturesInv, FiledInv, Inserted, Born
<1> QED BY <1>1, <1>2, <1>3 DEF LogInv, LogTypeOK

\* A write that lands replaces the file of its name, which has the same lines.
LEMMA LandsKeeps == ASSUME LogInv, PutLands PROVE LogInv'
<1>1. PICK put \in sent :
        /\ sent' = sent \ {put} /\ files' = {f \in files : f.batch # put.batch} \union {put}
        /\ UNCHANGED <<capture, rows, flush, media>>
  BY DEF PutLands
<1>2. \A f \in files : f \in files'
  <2>1. \A f \in files : f.batch = put.batch => f = put
    BY DEF LogInv, Tidy
  <2> QED BY <1>1, <2>1
<1>3. FiledInv'
  BY <1>1, <1>2 DEF LogInv, FiledInv, rows
<1>4. Tidy(Born, pending, arrived, batch, flush, sent \cup files)'
  <2>1. sent' \cup files' \in SUBSET (sent \cup files)
    BY <1>1
  <2>2. Tidy(Born, pending, arrived, batch, flush, sent' \cup files')
    BY <2>1, FewerAreTidy DEF LogInv
  <2>3. Born' = Born
    BY <1>1 DEF Born
  <2> QED BY <1>1, <2>2, <2>3 DEF rows
<1>5. CapturesInv'
  BY <1>1 DEF LogInv, CapturesInv, Inserted, rows
<1>6. LogTypeOK'
  BY <1>1 DEF LogInv, LogTypeOK, rows
<1> QED BY <1>3, <1>4, <1>5, <1>6 DEF LogInv

\* Those that waited for a flush go on, or all that ran are lost.
LEMMA WaitersMove ==
    ASSUME LogInv, NEW phase \in {"returned", "failed"}, NEW Movers \in SUBSET Records,
           capture' = [r \in Records |-> IF r \in Movers THEN [capture[r] EXCEPT !.phase = phase] ELSE capture[r]],
           UNCHANGED <<arrived, media>>
    PROVE  capture' \in [Records -> [phase: Phases, day: Nat]] /\ Born' = Born /\ CapturesInv'
<1>1. capture \in [Records -> [phase: Phases, day: Nat]] /\ phase \in Phases
  BY DEF LogInv, LogTypeOK, Phases
<1>2. \A r \in Records : /\ capture'[r] \in [phase: Phases, day: Nat] /\ capture'[r].day = capture[r].day
                         /\ capture'[r] = capture[r] \/ capture'[r].phase = phase
  BY <1>1, PhaseShape
<1>3. capture' \in [Records -> [phase: Phases, day: Nat]]
  BY <1>2
<1> QED BY <1>2, <1>3, CapturesMove

\* The landed batch leaves the tables, and the next is begun.
LEMMA AnsweredKeeps == ASSUME LogInv, PutAnswered PROVE LogInv'
<1> DEFINE rest == {i \in pending : i > flush.batch.last}
<1>1. /\ flush # NoFlush /\ flush \in files /\ pending' = rest /\ Writes(rest, arrived, NoBatch)
      /\ UNCHANGED <<arrived, files, media>>
      /\ UNCHANGED capture \/ Waiters("returned")
  BY DEF PutAnswered
<1>2. capture \in [Records -> [phase: Phases, day: Nat]] /\ arrived \in Seq(Records)
      /\ pending \in SUBSET (1..Len(arrived)) /\ rest \in SUBSET (1..Len(arrived))
      /\ sent \subseteq Put /\ files \subseteq Put
  BY DEF LogInv, LogTypeOK
<1>3. batch \in Name /\ flush = PutOf(pending, arrived, batch) /\ flush.batch = batch
  <2>1. batch # NoBatch /\ flush = PutOf(pending, arrived, batch)
    BY <1>1 DEF LogInv, Tidy
  <2> QED BY <2>1 DEF LogInv, LogTypeOK, PutOf
<1>4. Tidy(Born, rest, arrived, NoBatch, NoFlush, sent \cup files)
  BY <1>1, <1>2, <1>3, LandedIsTidy DEF LogInv
<1>5. /\ batch' \in Name \cup {NoBatch} /\ flush' \in Put \cup {NoFlush} /\ sent' \subseteq Put
      /\ Tidy(Born, rest, arrived, batch', flush', sent' \cup files)
  <2> HIDE DEF rest
  <2> QED BY <1>1, <1>2, <1>4, WritesKeep DEF LogInv, CapturesInv
<1>6. capture' \in [Records -> [phase: Phases, day: Nat]] /\ Born' = Born /\ CapturesInv'
  <2>1. CASE UNCHANGED capture
    BY <1>1, <1>2, <2>1 DEF LogInv, CapturesInv, Inserted, Born
  <2>2. CASE Waiters("returned")
    <3> DEFINE Movers == {r \in Records : capture[r].phase = "flushing"}
    <3>1. capture' = [r \in Records |-> IF r \in Movers THEN [capture[r] EXCEPT !.phase = "returned"] ELSE capture[r]]
      BY <2>2 DEF Waiters
    <3> HIDE DEF Movers
    <3>2. Movers \in SUBSET Records
      BY DEF Movers
    <3> QED BY <1>1, <3>1, <3>2, WaitersMove
  <2> QED BY <1>1, <2>1, <2>2
<1>7. FiledInv'
  <2> SUFFICES ASSUME NEW i \in 1..Len(arrived), i \notin rest
               PROVE  \E f \in files : arrived[i] \in f.lines
    BY <1>1 DEF FiledInv
  <2>1. CASE i \notin pending
    BY <2>1 DEF LogInv, FiledInv
  <2>2. CASE i \in pending
    <3>1. i <= batch.last
      <4>1. batch.last \in Nat /\ i \in Nat
        BY <1>3 DEF Name
      <4> QED BY <1>3, <2>2, <4>1
    <3>2. arrived[i] \in flush.lines
      BY <1>3, <2>2, <3>1 DEF PutOf
    <3> QED BY <1>1, <3>2
  <2> QED BY <2>1, <2>2
<1>8. LogTypeOK'
  BY <1>1, <1>2, <1>5, <1>6 DEF LogTypeOK
<1> QED BY <1>1, <1>5, <1>6, <1>7, <1>8 DEF LogInv

\* A write that fails, and a crash, end the flush and leave the rows.
LEMMA FaultKeeps == ASSUME LogInv, PutFails \/ Crash PROVE LogInv'
<1>1. flush' = NoFlush /\ sent' \subseteq sent /\ UNCHANGED <<arrived, pending, batch, files, media>>
  BY DEF PutFails, Crash, Abandoned, rows
<1>2. capture' \in [Records -> [phase: Phases, day: Nat]] /\ Born' = Born /\ CapturesInv'
  <2>1. PICK Movers \in SUBSET Records :
          capture' = [r \in Records |-> IF r \in Movers THEN [capture[r] EXCEPT !.phase = "failed"] ELSE capture[r]]
    <3>1. CASE PutFails
      <4> DEFINE Movers == {r \in Records : capture[r].phase = "flushing"}
      <4>1. capture' = [r \in Records |-> IF r \in Movers THEN [capture[r] EXCEPT !.phase = "failed"] ELSE capture[r]]
        BY <3>1 DEF PutFails, Waiters
      <4> QED BY <4>1
    <3>2. CASE Crash
      <4> DEFINE Movers == {r \in Records : capture[r].phase \in {"stored", "flushing"}}
      <4>1. capture' = [r \in Records |-> IF r \in Movers THEN [capture[r] EXCEPT !.phase = "failed"] ELSE capture[r]]
        BY <3>2 DEF Crash
      <4> QED BY <4>1
    <3> QED BY <3>1, <3>2
  <2> QED BY <1>1, <2>1, WaitersMove
<1>3. FiledInv'
  BY <1>1 DEF LogInv, FiledInv
<1>4. Tidy(Born, pending, arrived, batch, flush', sent' \cup files)
  <2>1. sent' \cup files \in SUBSET (sent \cup files)
    BY <1>1
  <2> QED BY <1>1, <2>1, FewerAreTidy DEF LogInv
<1>5. LogTypeOK'
  BY <1>1, <1>2 DEF LogInv, LogTypeOK
<1> QED BY <1>1, <1>2, <1>3, <1>4, <1>5 DEF LogInv

\* The invariant of the log, from which what is stored follows.
THEOREM LogInvariance == Spec => []LogInv
<1>1. LogInv /\ [Next]_vars => LogInv'
  <2>1. ASSUME LogInv, UNCHANGED vars PROVE LogInv'
    <3>1. CapturesInv' /\ FiledInv' /\ LogTypeOK' /\ Born' = Born
      BY <2>1 DEF LogInv, CapturesInv, FiledInv, LogTypeOK, Inserted, Born, vars, rows, r2
    <3>2. Tidy(Born, pending, arrived, batch, flush, sent \cup files)'
      BY <2>1, <3>1 DEF LogInv, vars, rows, r2
    <3> QED BY <3>1, <3>2 DEF LogInv
  <2> QED BY <2>1, MediaKeeps, InsertKeeps, AlarmKeeps, LandsKeeps, AnsweredKeeps, FaultKeeps DEF Next
<1> QED BY <1>1, LogBegins, PTL DEF Spec

\* A record is in one file at most, and in one once it has left the tables, through
\* crashes, failed writes and writes that land after their flush gave up
\* (ConversationLog.writeBatch: the batch row that names the file is stored first).
THEOREM RecordsAreWrittenOnce == Spec => []WrittenOnce
<1>1. LogInv => WrittenOnce
  <2> SUFFICES ASSUME LogInv, NEW r \in Inserted
               PROVE  Cardinality(FilesOf(r)) <= 1 /\ (r \notin Waiting => FilesOf(r) # {})
    BY DEF WrittenOnce
  <2>1. \A f, g \in FilesOf(r) : f = g
    <3> SUFFICES ASSUME NEW f \in FilesOf(r), NEW g \in FilesOf(r) PROVE f = g
      OBVIOUS
    <3>1. f \in sent \cup files /\ g \in sent \cup files /\ r \in f.lines \cap g.lines
      BY DEF FilesOf
    <3> QED BY <3>1 DEF LogInv, Tidy
  <2>2. CASE FilesOf(r) = {}
    <3>1. Cardinality(FilesOf(r)) = 0
      BY <2>2, FS_EmptySet
    <3>2. r \in Waiting
      BY <2>2 DEF LogInv, FiledInv, Inserted, Waiting, FilesOf
    <3> QED BY <3>1, <3>2
  <2>3. CASE FilesOf(r) # {}
    <3>1. PICK f : FilesOf(r) = {f}
      BY <2>1, <2>3
    <3>2. Cardinality(FilesOf(r)) = 1
      BY <3>1, FS_Singleton
    <3> QED BY <2>3, <3>2
  <2> QED BY <2>2, <2>3
<1> QED BY <1>1, LogInvariance, PTL

\* No record is stored without its media, nor in a file of a later day than its
\* own (ConversationLog.writeBatch: a batch is named from its earliest record).
THEOREM NamedMediaIsKept == Spec => []MediaKeptWithNames
<1>1. LogInv => MediaKeptWithNames
  <2> SUFFICES ASSUME LogInv, NEW f \in files, NEW r \in f.lines PROVE f.batch.day <= capture[r].day
    BY DEF MediaKeptWithNames, LogInv, CapturesInv
  <2>1. r \in Records /\ Born[r] = capture[r].day
    BY DEF LogInv, LogTypeOK, Put, Born
  <2>2. CASE Past(Born, pending, arrived, f)
    BY <2>1, <2>2 DEF Past
  <2>3. CASE batch # NoBatch /\ f = PutOf(pending, arrived, batch)
    <3>1. PICK i \in pending : i <= batch.last /\ r = arrived[i]
      BY <2>3 DEF PutOf
    <3>2. f.batch = batch /\ batch.day <= Born[arrived[i]]
      BY <2>3, <3>1 DEF LogInv, Tidy, Names, PutOf
    <3> QED BY <2>1, <3>1, <3>2
  <2> QED BY <2>2, <2>3 DEF LogInv, Tidy
<1> QED BY <1>1, LogInvariance, PTL
=============================================================================
