-------------------------- MODULE AdmissionProofs --------------------------
(***************************************************************************)
(* What Admission keeps for every set of requests, callers, configurations, *)
(* plans and schedules, and its refinement of AllowanceCharges.             *)
(***************************************************************************)
EXTENDS Admission, FiniteSetTheorems, TLAPS

USE DEF NoLimit

WindowRows == [minuteKey: Int, minute: Nat, dayKey: Int, day: Nat]
OpenStages  == {"idle", "reading", "caller", "app", "quota"}
FinalStages == {"served", "refused", "faulted"}

-----------------------------------------------------------------------------
(* How a request moves *)

\* A request that moves to another stage keeps everything it has learned.
LEMMA Moved ==
    ASSUME NEW r \in Requests, NEW stage \in Stages,
           request \in [Requests -> RequestRecords], Moves(r, stage)
    PROVE  /\ request' \in [Requests -> RequestRecords]
           /\ request'[r] = [request[r] EXCEPT !.stage = stage]
           /\ \A x \in Requests \ {r} : request'[x] = request[x]
<1>1. request[r] \in RequestRecords
  OBVIOUS
<1>2. [request[r] EXCEPT !.stage = stage] \in RequestRecords
  BY <1>1 DEF RequestRecords
<1>3. request' = [request EXCEPT ![r] = [request[r] EXCEPT !.stage = stage]]
  BY DEF Moves
<1> QED BY <1>2, <1>3

\* The stages of a request in progress follow one another.
LEMMA StagesFollow ==
    /\ After("reading") = "caller" /\ After("caller") = "app"
    /\ After("app") = "quota" /\ After("quota") = "served"
BY DEF After

-----------------------------------------------------------------------------
(* Type correctness *)

LEMMA WindowTypes ==
    ASSUME NEW row \in WindowRows, NEW now \in Times
    PROVE  BumpWindows(WindowCounts(row, now)) \in WindowRows
<1>1. MinuteOf(now) \in Int /\ DayOf(now) \in Int
  BY WindowAssumption, AdmissionAssumption DEF MinuteOf, DayOf, Times
<1> QED BY <1>1 DEF WindowRows, BumpWindows, WindowCounts, Later

\* A limiter that counts a request leaves a row behind.
LEMMA CountedTypes ==
    ASSUME TypeOK, NEW r \in Requests, NEW name \in LimiterNames, Counted(r, name)
    PROVE  /\ windows' \in [LimiterNames -> WindowRows]
           /\ tokens' \in [Requests -> SUBSET LimiterNames]
           /\ UNCHANGED <<clock, used, charged>>
<1>1. windows[name] \in WindowRows /\ request[r].now \in Times
  BY DEF TypeOK, WindowRows, RequestRecords
<1>2. BumpWindows(WindowCounts(windows[name], request[r].now)) \in WindowRows
  BY <1>1, WindowTypes
<1>3. windows' \in [LimiterNames -> WindowRows]
  BY <1>2 DEF Counted, TypeOK, WindowRows
<1> QED BY <1>3 DEF Counted, TypeOK

LEMMA UpsertedTypes ==
    ASSUME NEW count \in Nat, NEW limit \in Int
    PROVE  /\ Upserted(count, limit) = IF Admits(count, limit) THEN count + 1 ELSE count
           /\ Upserted(count, limit) \in Nat
           /\ Admits(count, limit) => count < limit
BY DEF Upserted, Admits, AllowanceLimit

\* A request that claims carries a plan's limit and a period of its schedule.
LEMMA ClaimingTypes ==
    ASSUME TypeOK, NEW r \in Requests, Claiming(r)
    PROVE  request[r].quota.limit \in PlanLimits /\ request[r].quota.period \in Periods
<1>1. request[r].quota \in QuotaAnswers(Periods) \union {NoQuota}
  BY DEF TypeOK, RequestRecords
<1> QED BY <1>1 DEF Claiming, QuotaAnswers, NoQuota

LEMMA UpsertTypes ==
    ASSUME TypeOK, NEW r \in Requests, Claiming(r), Upsert(r)
    PROVE  /\ used' \in [Periods -> Nat]
           /\ charged' \in [Requests -> Periods \union {Uncharged}]
           /\ UNCHANGED <<clock, windows, tokens>>
<1> DEFINE p == request[r].quota.period
           l == request[r].quota.limit
<1>1. p \in Periods /\ l \in Int
  BY ClaimingTypes, AdmissionAssumption
<1>2. used[p] \in Nat
  BY <1>1 DEF TypeOK
<1>3. Upserted(used[p], l) \in Nat
  BY <1>1, <1>2, UpsertedTypes
<1>4. used' = [used EXCEPT ![p] = Upserted(used[p], l)]
  BY DEF Upsert
<1>5. used' \in [Periods -> Nat]
  BY <1>3, <1>4 DEF TypeOK
<1>6. charged' \in [Requests -> Periods \union {Uncharged}]
  BY <1>1 DEF Upsert, TypeOK
<1> QED BY <1>5, <1>6 DEF Upsert

\* The limiters a request may be counted by are limiters.
LEMMA CallerLimiterTypes ==
    ASSUME NEW q \in RequestRecords
    PROVE  /\ CallerLimiter(q) \subseteq LimiterNames \ {App}
           /\ AppLimiter(q) \subseteq {App}
           /\ App \in LimiterNames
<1>1. q.identity \in Identities
  BY DEF RequestRecords
<1>2. CASE q.identity.method = "attest"
  <2>1. q.identity.install \in Installs
    BY <1>1, <1>2 DEF Identities
  <2> QED BY <1>2, <2>1 DEF CallerLimiter, AppLimiter, LimiterNames, App
<1>3. CASE q.identity.method # "attest"
  <2>1. q.identity.user \in Users \union {NoUser}
    BY <1>1, <1>3 DEF Identities
  <2> QED BY <1>3, <2>1 DEF CallerLimiter, AppLimiter, LimiterNames, App
<1> QED BY <1>2, <1>3

\* One call of a limiter, whatever it answers: the request goes on only when it
\* was counted, and nothing but the limiter's row and the request changes.
LimiterCall(r, name) ==
    \/ Counted(r, name) /\ (Passes(r) \/ Faulted(r))
    \/ UNCHANGED clock /\ Unspent /\ (Refused(r) \/ Faulted(r))

LEMMA AskCallerCases ==
    ASSUME NEW r \in Requests, AskCaller(r)
    PROVE  /\ request[r].stage = "caller"
           /\ \/ CallerLimiter(request[r]) = {} /\ NotCalled(r)
              \/ \E name \in CallerLimiter(request[r]) : LimiterCall(r, name)
BY DEF AskCaller, LimiterAdmits, LimiterRefuses, LimiterThrows, LimiterCall

LEMMA AskAppCases ==
    ASSUME NEW r \in Requests, AskApp(r)
    PROVE  /\ request[r].stage = "app"
           /\ \/ AppLimiter(request[r]) = {} /\ NotCalled(r)
              \/ \E name \in AppLimiter(request[r]) : LimiterCall(r, name)
BY DEF AskApp, LimiterAdmits, LimiterRefuses, LimiterThrows, LimiterCall

\* One end of a request in its last stage: claimed, or not.
Claimed(r)   == Claiming(r) /\ Upsert(r)
Unclaimed(r) == UNCHANGED clock /\ Unspent

LEMMA LastStageCases ==
    ASSUME TypeOK, NEW r \in Requests,
           \/ Unmetered(r) \/ Claim(r) \/ ClaimUnanswered(r)
           \/ ClaimOverloaded(r) \/ ClaimThrows(r)
    PROVE  /\ request[r].stage = "quota"
           /\ \/ Claimed(r) /\ (Moves(r, "served") \/ Moves(r, "faulted"))
              \/ Unclaimed(r) /\ (\E s \in FinalStages : Moves(r, s))
<1>1. Refused(r) = Moves(r, "refused") /\ Faulted(r) = Moves(r, "faulted")
  BY DEF Refused, Faulted
<1>2. ASSUME request[r].stage = "quota", Passes(r) PROVE Moves(r, "served")
  BY <1>2, StagesFollow DEF Passes
<1>3. CASE Unmetered(r)
  BY <1>1, <1>2, <1>3 DEF Unmetered, Unclaimed, FinalStages
<1>4. CASE Claim(r)
  <2> DEFINE q == request[r].quota
  <2>1. Claiming(r) /\ Upsert(r) /\ request[r].stage = "quota"
    BY <1>4 DEF Claim, Claiming
  <2>2. CASE Admits(used[q.period], q.limit)
    BY <1>1, <1>2, <1>4, <2>1, <2>2 DEF Claim, Claimed
  <2>3. CASE ~Admits(used[q.period], q.limit)
    <3>1. q.period \in Periods
      BY <2>1, ClaimingTypes
    <3>2. used' = used
      BY <2>1, <2>3, <3>1 DEF Upsert, Upserted, TypeOK
    <3>3. charged' = charged
      BY <2>1, <2>3 DEF Upsert, TypeOK
    <3> QED BY <1>1, <1>4, <2>1, <2>3, <3>2, <3>3
           DEF Claim, Upsert, Unclaimed, Unspent, FinalStages
  <2> QED BY <2>2, <2>3
<1>5. CASE ClaimUnanswered(r)
  BY <1>1, <1>2, <1>5 DEF ClaimUnanswered, Claiming, Claimed, Unclaimed, FinalStages
<1>6. CASE ClaimOverloaded(r)
  BY <1>1, <1>6 DEF ClaimOverloaded, Claiming, Unclaimed, FinalStages
<1>7. CASE ClaimThrows(r)
  BY <1>1, <1>7 DEF ClaimThrows, Claiming, Claimed, Unclaimed, FinalStages
<1> QED BY <1>3, <1>4, <1>5, <1>6, <1>7

\* What the reads answered is recorded with the request.
LEMMA Judged ==
    ASSUME TypeOK, NEW r \in Requests, Judge(r)
    PROVE  /\ request' \in [Requests -> RequestRecords]
           /\ \A x \in Requests \ {r} : request'[x] = request[x]
           /\ request[r].stage = "reading"
           /\ request'[r].identity = request[r].identity
           /\ request'[r].config = request[r].config
           /\ request'[r].signed = request[r].signed
           /\ \/ request'[r].stage = "caller" /\ request'[r].block = "active"
              \/ request'[r].stage \in {"refused", "faulted"}
<1>1. PICK block \in BlockAnswers,
           quota \in QuotaAnswers(Schedules \X {MonthOf(request[r].arrivedAt)}) :
         request' = [request EXCEPT
             ![r].block = block, ![r].quota = quota, ![r].now = clock,
             ![r].stage = IF PassesBlock(block) THEN After("reading")
                          ELSE IF block = "failed" THEN "faulted" ELSE "refused"]
  BY Zenon DEF Judge
<1> DEFINE next == IF PassesBlock(block) THEN "caller"
                   ELSE IF block = "failed" THEN "faulted" ELSE "refused"
           q == [request[r] EXCEPT !.block = block, !.quota = quota, !.now = clock,
                                   !.stage = next]
<1>2. request[r] \in RequestRecords
  BY DEF TypeOK
<1>3. quota \in QuotaAnswers(Periods)
  <2>1. MonthOf(request[r].arrivedAt) \in {MonthOf(t) : t \in Times}
    BY <1>2 DEF RequestRecords
  <2> QED BY <2>1 DEF QuotaAnswers, Periods
<1>4. next \in {"caller", "faulted", "refused"} /\ (next = "caller" => block = "active")
  BY DEF PassesBlock
<1>5. q \in RequestRecords
  BY <1>2, <1>3, <1>4 DEF RequestRecords, Stages, TypeOK
<1>6. /\ q.block = block /\ q.stage = next /\ q.identity = request[r].identity
      /\ q.config = request[r].config /\ q.signed = request[r].signed
  BY <1>2 DEF RequestRecords
<1>7. request' = [request EXCEPT ![r] = q]
  BY <1>1, StagesFollow
<1> HIDE DEF q, next
<1>8. request'[r] = q /\ request' \in [Requests -> RequestRecords]
  BY <1>5, <1>7 DEF TypeOK
<1>9. \A x \in Requests \ {r} : request'[x] = request[x]
  BY <1>7 DEF TypeOK
<1> QED BY <1>4, <1>6, <1>8, <1>9 DEF Judge

LEMMA Arrived ==
    ASSUME TypeOK, NEW r \in Requests, Arrive(r)
    PROVE  /\ request' \in [Requests -> RequestRecords]
           /\ request[r].stage = "idle"
           /\ request'[r] = [request[r] EXCEPT !.stage = "reading", !.arrivedAt = clock]
           /\ \A x \in Requests \ {r} : request'[x] = request[x]
<1>1. request[r] \in RequestRecords
  BY DEF TypeOK
<1>2. [request[r] EXCEPT !.stage = "reading", !.arrivedAt = clock] \in RequestRecords
  BY <1>1 DEF RequestRecords, Stages, TypeOK
<1> QED BY <1>2 DEF Arrive, TypeOK

\* Every step keeps the types.
LEMMA TypeStep ==
    ASSUME TypeOK, [Next]_vars
    PROVE  TypeOK'
<1> USE DEF WindowRows
<1>1. CASE UNCHANGED vars
  BY <1>1 DEF TypeOK, vars
<1>2. CASE Tick
  BY <1>2, AdmissionAssumption DEF Tick, TypeOK, Unspent, Times
<1>3. ASSUME NEW r \in Requests, Arrive(r) \/ Judge(r) PROVE TypeOK'
  <2>1. request' \in [Requests -> RequestRecords]
    BY <1>3, Arrived, Judged
  <2>2. UNCHANGED clock /\ Unspent
    BY <1>3 DEF Arrive, Judge
  <2> QED BY <2>1, <2>2 DEF TypeOK, Unspent
<1>4. ASSUME NEW r \in Requests, NEW stage \in Stages, Moves(r, stage),
             UNCHANGED clock /\ Unspent
      PROVE  TypeOK'
  <2>1. request' \in [Requests -> RequestRecords]
    BY <1>4, Moved DEF TypeOK
  <2> QED BY <1>4, <2>1 DEF TypeOK, Unspent
<1>5. ASSUME NEW r \in Requests, NEW stage \in Stages, Moves(r, stage),
             NEW name \in LimiterNames, Counted(r, name)
      PROVE  TypeOK'
  <2>1. request' \in [Requests -> RequestRecords]
    BY <1>5, Moved DEF TypeOK
  <2> QED BY <1>5, <2>1, CountedTypes DEF TypeOK
<1>6. ASSUME NEW r \in Requests, request[r].stage \in {"caller", "app"}
      PROVE  \E stage \in Stages : Passes(r) = Moves(r, stage)
  BY <1>6, StagesFollow DEF Passes, Stages
<1>7. ASSUME NEW r \in Requests, NEW name \in LimiterNames, LimiterCall(r, name),
             request[r].stage \in {"caller", "app"}
      PROVE  TypeOK'
  <2>1. "refused" \in Stages /\ "faulted" \in Stages
    BY DEF Stages
  <2>2. CASE Counted(r, name) /\ Passes(r)
    BY <1>5, <1>6, <1>7, <2>2
  <2>3. CASE Counted(r, name) /\ Faulted(r)
    BY <1>5, <2>1, <2>3 DEF Faulted
  <2>4. CASE UNCHANGED clock /\ Unspent /\ (Refused(r) \/ Faulted(r))
    BY <1>4, <2>1, <2>4 DEF Refused, Faulted
  <2> QED BY <1>7, <2>2, <2>3, <2>4 DEF LimiterCall
<1>8. ASSUME NEW r \in Requests, AskCaller(r) \/ AskApp(r) PROVE TypeOK'
  <2>1. CallerLimiter(request[r]) \subseteq LimiterNames /\ AppLimiter(request[r]) \subseteq LimiterNames
    BY CallerLimiterTypes DEF TypeOK
  <2>2. request[r].stage \in {"caller", "app"}
    BY <1>8, AskCallerCases, AskAppCases
  <2>3. CASE NotCalled(r)
    BY <1>4, <1>6, <2>2, <2>3 DEF NotCalled
  <2>4. CASE \E name \in LimiterNames : LimiterCall(r, name)
    BY <1>7, <2>2, <2>4
  <2> QED BY <1>8, <2>1, <2>3, <2>4, AskCallerCases, AskAppCases
<1>9. ASSUME NEW r \in Requests,
             \/ Unmetered(r) \/ Claim(r) \/ ClaimUnanswered(r)
             \/ ClaimOverloaded(r) \/ ClaimThrows(r)
      PROVE  TypeOK'
  <2>1. FinalStages \subseteq Stages /\ {"served", "faulted"} \subseteq FinalStages
    BY DEF FinalStages, Stages
  <2>2. PICK stage \in Stages : Moves(r, stage) /\ (Claimed(r) \/ Unclaimed(r))
    BY <1>9, <2>1, LastStageCases
  <2>3. CASE Unclaimed(r)
    BY <1>4, <2>2, <2>3 DEF Unclaimed
  <2>4. CASE Claimed(r)
    <3>1. request' \in [Requests -> RequestRecords]
      BY <2>2, Moved DEF TypeOK
    <3> QED BY <2>4, <3>1, UpsertTypes DEF Claimed, TypeOK
  <2> QED BY <2>2, <2>3, <2>4
<1> QED BY <1>1, <1>2, <1>3, <1>8, <1>9 DEF Next, Step

LEMMA TypeInit == Init => TypeOK
<1> SUFFICES ASSUME Init PROVE TypeOK
  OBVIOUS
<1>1. PICK method \in {"attest", "server"} : request \in [Requests -> Prepared(method)]
  BY DEF Init
<1>2. 0 \in Times
  BY AdmissionAssumption DEF Times
<1>3. Prepared(method) \subseteq RequestRecords
  BY <1>2 DEF Prepared, RequestRecords, Stages
<1>4. request \in [Requests -> RequestRecords]
  BY <1>1, <1>3
<1> QED BY <1>2, <1>4 DEF Init, TypeOK, NoWindows

\* Requests, limiter rows and allowance rows keep their shape, whatever the
\* calendar, the plans and the failures.
THEOREM TypeCorrect == Spec => []TypeOK
BY TypeInit, TypeStep, PTL DEF Spec

-----------------------------------------------------------------------------
(* Spending *)

Untouched(r) == tokens[r] = {} /\ charged[r] = Uncharged

\* What a request has spent by the stage it is in.
Progress(r) ==
    LET q == request[r] IN
    /\ q.stage \in {"idle", "reading"} => Untouched(r)
    /\ q.stage = "caller" => q.block = "active" /\ Untouched(r)
    /\ q.stage = "app" =>
          /\ q.block = "active" /\ charged[r] = Uncharged
          /\ CallerLimiter(q) \subseteq tokens[r]
    /\ q.stage = "quota" =>
          /\ q.block = "active" /\ charged[r] = Uncharged
          /\ CallerLimiter(q) \union AppLimiter(q) \subseteq tokens[r]
    /\ tokens[r] # {} \/ charged[r] # Uncharged => q.block = "active"
    /\ App \in tokens[r] => CallerLimiter(q) \subseteq tokens[r]
    /\ charged[r] # Uncharged =>
          CallerLimiter(q) \union AppLimiter(q) \subseteq tokens[r]

\* A step of one request leaves the others' progress alone.
LEMMA OthersProgress ==
    ASSUME NEW x, Progress(x), request'[x] = request[x],
           tokens'[x] = tokens[x], charged'[x] = charged[x]
    PROVE  Progress(x)'
BY DEF Progress, Untouched, CallerLimiter, AppLimiter, HasLimits

\* A request that only changes stage is counted by the same limiters.
LEMMA SameLimiters ==
    ASSUME NEW r, request'[r].identity = request[r].identity,
           request'[r].config = request[r].config, request'[r].signed = request[r].signed
    PROVE  /\ CallerLimiter(request'[r]) = CallerLimiter(request[r])
           /\ AppLimiter(request'[r]) = AppLimiter(request[r])
BY DEF CallerLimiter, AppLimiter

LEMMA MovedKeeps ==
    ASSUME TypeOK, NEW r \in Requests, NEW stage \in Stages, Moves(r, stage)
    PROVE  /\ request'[r].stage = stage /\ request'[r].block = request[r].block
           /\ CallerLimiter(request'[r]) = CallerLimiter(request[r])
           /\ AppLimiter(request'[r]) = AppLimiter(request[r])
           /\ \A x \in Requests \ {r} : request'[x] = request[x]
<1>1. request[r] \in RequestRecords
  BY DEF TypeOK
<1>2. /\ request'[r] = [request[r] EXCEPT !.stage = stage]
      /\ \A x \in Requests \ {r} : request'[x] = request[x]
  BY Moved DEF TypeOK
<1>3. /\ request'[r].stage = stage /\ request'[r].block = request[r].block
      /\ request'[r].identity = request[r].identity
      /\ request'[r].config = request[r].config /\ request'[r].signed = request[r].signed
  BY <1>1, <1>2 DEF RequestRecords
<1> QED BY <1>2, <1>3, SameLimiters

\* Refused, faulted or served without a count, a request keeps what it spent.
LEMMA FinalProgress ==
    ASSUME TypeOK, NEW r \in Requests, Progress(r),
           NEW stage \in FinalStages, Moves(r, stage), Unspent
    PROVE  Progress(r)'
<1>1. /\ request'[r].stage = stage /\ request'[r].block = request[r].block
      /\ CallerLimiter(request'[r]) = CallerLimiter(request[r])
      /\ AppLimiter(request'[r]) = AppLimiter(request[r])
  BY MovedKeeps DEF FinalStages, Stages
<1> QED BY <1>1 DEF Progress, Unspent, FinalStages

\* The caller's limiter, when there is one, is counted before the application's.
LEMMA CallerProgress ==
    ASSUME TypeOK, NEW r \in Requests, Progress(r), AskCaller(r)
    PROVE  Progress(r)'
<1> DEFINE names == CallerLimiter(request[r])
<1>1. /\ request[r].stage = "caller" /\ request[r].block = "active"
      /\ tokens[r] = {} /\ charged[r] = Uncharged
  BY AskCallerCases DEF Progress, Untouched
<1>2. App \notin names
  BY CallerLimiterTypes DEF TypeOK
<1>3. {"app", "refused", "faulted"} \subseteq Stages
  BY DEF Stages
<1>4. ASSUME NEW stage \in {"app", "faulted"}, Moves(r, stage),
             tokens'[r] = names, charged'[r] = Uncharged
      PROVE  Progress(r)'
  <2>1. /\ request'[r].stage = stage /\ request'[r].block = "active"
        /\ CallerLimiter(request'[r]) = names
    BY <1>1, <1>3, <1>4, MovedKeeps
  <2> QED BY <1>2, <1>4, <2>1 DEF Progress
<1>5. CASE names = {} /\ NotCalled(r)
  BY <1>1, <1>4, <1>5, StagesFollow DEF NotCalled, Passes, Unspent
<1>6. ASSUME NEW name \in names, LimiterCall(r, name) PROVE Progress(r)'
  <2>1. names = {name}
    BY <1>6 DEF CallerLimiter
  <2>2. CASE Counted(r, name) /\ (Passes(r) \/ Faulted(r))
    <3>1. tokens'[r] = names /\ charged'[r] = Uncharged
      BY <1>1, <2>1, <2>2 DEF Counted, TypeOK
    <3> QED BY <1>1, <1>4, <2>2, <3>1, StagesFollow DEF Passes, Faulted
  <2>3. CASE UNCHANGED clock /\ Unspent /\ (Refused(r) \/ Faulted(r))
    BY <2>3, FinalProgress DEF Refused, Faulted, FinalStages
  <2> QED BY <1>6, <2>2, <2>3 DEF LimiterCall
<1> QED BY <1>5, <1>6, AskCallerCases

\* The application's limiter counts only what the caller's has counted.
LEMMA AppProgress ==
    ASSUME TypeOK, NEW r \in Requests, Progress(r), AskApp(r)
    PROVE  Progress(r)'
<1> DEFINE names == AppLimiter(request[r])
           spent == CallerLimiter(request[r])
<1>1. /\ request[r].stage = "app" /\ request[r].block = "active"
      /\ spent \subseteq tokens[r] /\ charged[r] = Uncharged
  BY AskAppCases DEF Progress
<1>2. {"quota", "refused", "faulted"} \subseteq Stages
  BY DEF Stages
<1>3. ASSUME NEW stage \in {"quota", "faulted"}, Moves(r, stage),
             tokens'[r] = tokens[r] \union names, charged'[r] = Uncharged
      PROVE  Progress(r)'
  <2>1. /\ request'[r].stage = stage /\ request'[r].block = "active"
        /\ CallerLimiter(request'[r]) = spent /\ AppLimiter(request'[r]) = names
    BY <1>1, <1>2, <1>3, MovedKeeps
  <2> QED BY <1>1, <1>3, <2>1 DEF Progress
<1>4. CASE names = {} /\ NotCalled(r)
  BY <1>1, <1>3, <1>4, StagesFollow DEF NotCalled, Passes, Unspent
<1>5. ASSUME NEW name \in names, LimiterCall(r, name) PROVE Progress(r)'
  <2>1. names = {name}
    BY <1>5 DEF AppLimiter
  <2>2. CASE Counted(r, name) /\ (Passes(r) \/ Faulted(r))
    <3>1. tokens'[r] = tokens[r] \union names /\ charged'[r] = Uncharged
      BY <1>1, <2>1, <2>2 DEF Counted, TypeOK
    <3> QED BY <1>1, <1>3, <2>2, <3>1, StagesFollow DEF Passes, Faulted
  <2>3. CASE UNCHANGED clock /\ Unspent /\ (Refused(r) \/ Faulted(r))
    BY <2>3, FinalProgress DEF Refused, Faulted, FinalStages
  <2> QED BY <1>5, <2>2, <2>3 DEF LimiterCall
<1> QED BY <1>4, <1>5, AskAppCases

LEMMA LastProgress ==
    ASSUME TypeOK, NEW r \in Requests, Progress(r),
           \/ Unmetered(r) \/ Claim(r) \/ ClaimUnanswered(r)
           \/ ClaimOverloaded(r) \/ ClaimThrows(r)
    PROVE  Progress(r)'
<1>1. /\ request[r].stage = "quota" /\ request[r].block = "active"
      /\ CallerLimiter(request[r]) \union AppLimiter(request[r]) \subseteq tokens[r]
  BY LastStageCases DEF Progress
<1>2. ASSUME NEW stage \in FinalStages, Moves(r, stage), Unspent PROVE Progress(r)'
  BY <1>2, FinalProgress
<1>3. ASSUME NEW stage \in FinalStages, Moves(r, stage), UNCHANGED tokens PROVE Progress(r)'
  <2>1. /\ request'[r].stage = stage /\ request'[r].block = "active"
        /\ CallerLimiter(request'[r]) = CallerLimiter(request[r])
        /\ AppLimiter(request'[r]) = AppLimiter(request[r])
    BY <1>1, <1>3, MovedKeeps DEF FinalStages, Stages
  <2> QED BY <1>1, <1>3, <2>1 DEF Progress, FinalStages
<1>4. CASE Claimed(r) /\ (Moves(r, "served") \/ Moves(r, "faulted"))
  BY <1>3, <1>4 DEF Claimed, Upsert, FinalStages
<1> QED BY <1>2, <1>4, LastStageCases DEF Unclaimed

\* Every step keeps every request's progress.
LEMMA ProgressStep ==
    ASSUME TypeOK, \A r \in Requests : Progress(r), [Next]_vars
    PROVE  \A r \in Requests : Progress(r)'
<1>1. ASSUME UNCHANGED <<request, tokens, charged>> PROVE \A r \in Requests : Progress(r)'
  BY <1>1, OthersProgress
<1>2. CASE UNCHANGED vars
  BY <1>1, <1>2 DEF vars
<1>3. CASE Tick
  BY <1>1, <1>3 DEF Tick, Unspent
<1>4. ASSUME NEW r \in Requests, Step(r) PROVE \A x \in Requests : Progress(x)'
  <2>1. Progress(r)'
    <3>1. CASE Arrive(r)
      <4>1. request[r] \in RequestRecords /\ Untouched(r)
        BY <3>1, Arrived DEF TypeOK, Progress
      <4>2. request'[r].stage = "reading"
        BY <3>1, <4>1, Arrived DEF RequestRecords
      <4>3. tokens'[r] = {} /\ charged'[r] = Uncharged
        BY <3>1, <4>1 DEF Arrive, Unspent, Untouched
      <4> QED BY <4>2, <4>3 DEF Progress, Untouched
    <3>2. CASE Judge(r)
      <4>1. Untouched(r)
        BY <3>2, Judged DEF Progress
      <4>2. tokens'[r] = {} /\ charged'[r] = Uncharged
        BY <3>2, <4>1 DEF Judge, Unspent, Untouched
      <4> QED BY <3>2, <4>2, Judged DEF Progress, Untouched
    <3> QED BY <1>4, <3>1, <3>2, CallerProgress, AppProgress, LastProgress DEF Step
  <2>2. ASSUME NEW x \in Requests \ {r} PROVE request'[x] = request[x]
    <3>1. CASE Arrive(r) \/ Judge(r)
      BY <3>1, Arrived, Judged
    <3>2. ASSUME NEW stage, Moves(r, stage) PROVE request'[x] = request[x]
      BY <3>2 DEF Moves, TypeOK
    <3>3. CASE AskCaller(r) \/ AskApp(r)
      BY <3>2, <3>3, AskCallerCases, AskAppCases
         DEF NotCalled, LimiterCall, Passes, Refused, Faulted
    <3>4. CASE ~(Arrive(r) \/ Judge(r) \/ AskCaller(r) \/ AskApp(r))
      BY <1>4, <3>2, <3>4, LastStageCases DEF Step
    <3> QED BY <3>1, <3>3, <3>4
  <2>3. ASSUME NEW x \in Requests \ {r} PROVE tokens'[x] = tokens[x] /\ charged'[x] = charged[x]
    <3>1. CASE Arrive(r) \/ Judge(r)
      BY <3>1 DEF Arrive, Judge, Unspent
    <3>2. CASE AskCaller(r) \/ AskApp(r)
      BY <3>2, AskCallerCases, AskAppCases DEF NotCalled, LimiterCall, Counted, Unspent, TypeOK
    <3>3. CASE ~(Arrive(r) \/ Judge(r) \/ AskCaller(r) \/ AskApp(r))
      BY <1>4, <3>3, LastStageCases DEF Step, Claimed, Unclaimed, Upsert, Unspent, TypeOK
    <3> QED BY <3>1, <3>2, <3>3
  <2> QED BY <2>1, <2>2, <2>3, OthersProgress
<1> QED BY <1>2, <1>3, <1>4 DEF Next

LEMMA ProgressInit ==
    ASSUME Init
    PROVE  \A r \in Requests : Progress(r)
<1>1. TypeOK
  BY TypeInit
<1>2. ASSUME NEW r \in Requests PROVE request[r].stage = "idle"
  BY DEF Init, Prepared
<1> QED BY <1>2 DEF Init, Progress, Untouched

\* No request spends out of order: nothing while its user is not known to be
\* unblocked, the application's window only after the caller's, the allowance
\* only after both (admitRequest).
THEOREM SpendsInOrder == Spec => []SpendingOrder
<1>1. Init => TypeOK /\ \A r \in Requests : Progress(r)
  BY TypeInit, ProgressInit
<1>2. TypeOK /\ (\A r \in Requests : Progress(r)) /\ [Next]_vars
        => TypeOK' /\ (\A r \in Requests : Progress(r))'
  BY TypeStep, ProgressStep
<1>3. (\A r \in Requests : Progress(r)) => SpendingOrder
  BY DEF Progress, SpendingOrder
<1> QED BY <1>1, <1>2, <1>3, PTL DEF Spec

-----------------------------------------------------------------------------
(* The allowance *)

\* The requests counted toward a period.
Charged(p) == {r \in Requests : charged[r] = p}

LEMMA UnchargedIsNoPeriod == Uncharged \notin Periods
<1>1. ASSUME NEW t \in Times PROVE MonthOf(t) # -1
  BY WindowAssumption, AdmissionAssumption DEF MonthOf, Times
<1> QED BY <1>1 DEF Uncharged, Periods

LEMMA LargestLimitBounds ==
    /\ LargestLimit \in Int /\ 0 <= LargestLimit
    /\ \A l \in PlanLimits : l <= LargestLimit
<1>1. \E top \in PlanLimits \union {0} : 0 <= top /\ \A l \in PlanLimits : l <= top
  BY AdmissionAssumption
<1>2. /\ LargestLimit \in PlanLimits \union {0}
      /\ 0 <= LargestLimit /\ \A l \in PlanLimits : l <= LargestLimit
  BY <1>1, Zenon DEF LargestLimit
<1> QED BY <1>2, AdmissionAssumption

\* A claim counts the request once, in a period with room below its plan's
\* limit, or changes nothing.
LEMMA ClaimCounts ==
    ASSUME TypeOK, NEW r \in Requests, Claimed(r)
    PROVE  \/ UNCHANGED <<used, charged>>
           \/ \E p \in Periods :
                 /\ used[p] < LargestLimit
                 /\ used' = [used EXCEPT ![p] = used[p] + 1]
                 /\ charged' = [charged EXCEPT ![r] = p]
<1> DEFINE p == request[r].quota.period
           l == request[r].quota.limit
<1>1. p \in Periods /\ l \in Int /\ l <= LargestLimit
  BY ClaimingTypes, AdmissionAssumption, LargestLimitBounds DEF Claimed
<1>2. used[p] \in Nat
  BY <1>1 DEF TypeOK
<1>3. /\ used' = [used EXCEPT ![p] = Upserted(used[p], l)]
      /\ charged' = [charged EXCEPT ![r] = IF Admits(used[p], l) THEN p ELSE charged[r]]
  BY DEF Claimed, Upsert
<1> HIDE DEF p, l
<1>4. CASE Admits(used[p], l)
  <2>1. used[p] < LargestLimit
    BY <1>1, <1>2, <1>4, UpsertedTypes, LargestLimitBounds
  <2>2. Upserted(used[p], l) = used[p] + 1
    BY <1>1, <1>2, <1>4, UpsertedTypes
  <2> QED BY <1>1, <1>3, <1>4, <2>1, <2>2
<1>5. CASE ~Admits(used[p], l)
  <2>1. Upserted(used[p], l) = used[p]
    BY <1>1, <1>2, <1>5, UpsertedTypes
  <2> QED BY <1>1, <1>3, <1>5, <2>1 DEF TypeOK
<1> QED BY <1>4, <1>5

\* The counter and the requests it counted change together.
LEMMA ExactStep ==
    ASSUME TypeOK, \A r \in Requests : Progress(r), AllowanceExact, [Next]_vars
    PROVE  AllowanceExact'
<1>1. ASSUME UNCHANGED <<used, charged>> PROVE AllowanceExact'
  BY <1>1 DEF AllowanceExact
<1>2. ASSUME NEW r \in Requests, Step(r), Claimed(r) PROVE AllowanceExact'
  <2>1. charged[r] = Uncharged
    BY <1>2 DEF Claimed, Claiming, Progress
  <2>2. ASSUME NEW p \in Periods,
               used' = [used EXCEPT ![p] = used[p] + 1],
               charged' = [charged EXCEPT ![r] = p]
        PROVE  AllowanceExact'
    <3>1. p # Uncharged
      BY UnchargedIsNoPeriod
    <3>2. ASSUME NEW x \in Periods, x # p PROVE Charged(x)' = Charged(x) /\ used'[x] = used[x]
      <4>1. ASSUME NEW y \in Requests PROVE charged'[y] = x <=> charged[y] = x
        BY <2>1, <2>2, <3>2, UnchargedIsNoPeriod DEF TypeOK
      <4> QED BY <2>2, <3>2, <4>1 DEF Charged, TypeOK
    <3>3. Charged(p)' = Charged(p) \union {r}
      <4>1. ASSUME NEW y \in Requests PROVE charged'[y] = p <=> charged[y] = p \/ y = r
        BY <2>2 DEF TypeOK
      <4> QED BY <4>1 DEF Charged
    <3>4. r \notin Charged(p) /\ IsFiniteSet(Charged(p))
      <4>1. Charged(p) \subseteq Requests
        BY DEF Charged
      <4> QED BY <2>1, <3>1, <4>1, AdmissionAssumption, FS_Subset DEF Charged
    <3>5. Cardinality(Charged(p)') = Cardinality(Charged(p)) + 1
      BY <3>3, <3>4, FS_AddElement
    <3>6. \A x \in Periods : used[x] = Cardinality(Charged(x))
      BY DEF AllowanceExact, Charged
    <3>7. used'[p] = used[p] + 1
      BY <2>2 DEF TypeOK
    <3>8. \A x \in Periods : used'[x] = Cardinality(Charged(x)')
      BY <3>2, <3>5, <3>6, <3>7
    <3> QED BY <3>8 DEF AllowanceExact, Charged
  <2> QED BY <1>1, <1>2, <2>2, ClaimCounts
<1>3. ASSUME NEW r \in Requests, Step(r), ~Claimed(r) PROVE UNCHANGED <<used, charged>>
  <2>1. CASE Arrive(r) \/ Judge(r)
    BY <2>1 DEF Arrive, Judge, Unspent
  <2>2. CASE AskCaller(r) \/ AskApp(r)
    BY <2>2, AskCallerCases, AskAppCases DEF NotCalled, LimiterCall, Counted, Unspent
  <2>3. CASE ~(Arrive(r) \/ Judge(r) \/ AskCaller(r) \/ AskApp(r))
    BY <1>3, <2>3, LastStageCases DEF Step, Unclaimed, Unspent
  <2> QED BY <2>1, <2>2, <2>3
<1>4. CASE UNCHANGED vars \/ Tick
  BY <1>1, <1>4 DEF vars, Tick, Unspent
<1> QED BY <1>1, <1>2, <1>3, <1>4 DEF Next

LEMMA ExactInit ==
    ASSUME Init
    PROVE  AllowanceExact
<1> SUFFICES ASSUME NEW p \in Periods PROVE used[p] = Cardinality(Charged(p))
  BY DEF AllowanceExact, Charged
<1>1. Charged(p) = {}
  BY UnchargedIsNoPeriod DEF Init, Charged
<1> QED BY <1>1, FS_EmptySet DEF Init

Inv == TypeOK /\ (\A r \in Requests : Progress(r)) /\ AllowanceExact

LEMMA InvInductive == Spec => []Inv
<1>1. Init => Inv
  BY TypeInit, ProgressInit, ExactInit DEF Inv
<1>2. Inv /\ [Next]_vars => Inv'
  BY TypeStep, ProgressStep, ExactStep DEF Inv
<1> QED BY <1>1, <1>2, PTL DEF Spec

\* A period's count is exactly the requests counted toward it, through lost
\* replies, refusals and periods that end meanwhile (OrgQuota.admit).
THEOREM CountsAreCharges == Spec => []AllowanceExact
BY InvInductive, PTL DEF Inv

-----------------------------------------------------------------------------
(* Admission implements AllowanceCharges *)

LEMMA RefinementInit == Init => Promise!Init
<1> SUFFICES ASSUME Init PROVE Promise!Init
  OBVIOUS
<1>1. \A r \in Requests : request[r].stage = "idle"
  BY DEF Init, Prepared
<1> QED BY <1>1 DEF Init, Promise!Init, Answered

\* A step that answers nobody and charges nobody is a stutter.
LEMMA Stutters ==
    ASSUME \A r \in Requests : Answered(r)' = Answered(r), UNCHANGED charged
    PROVE  UNCHANGED <<[r \in Requests |-> Answered(r)], charged>>
OBVIOUS

\* A request answered by this step was open, and nobody else was answered.
LEMMA Answers ==
    ASSUME TypeOK, NEW r \in Requests, request[r].stage \in OpenStages,
           NEW stage \in FinalStages, Moves(r, stage)
    PROVE  Promise!Answer(r, stage)
<1>1. /\ request'[r].stage = stage
      /\ \A x \in Requests \ {r} : request'[x] = request[x]
  BY MovedKeeps DEF FinalStages, Stages
<1>2. Answered(r) = "open" /\ Answered(r)' = stage
  BY <1>1 DEF Answered, OpenStages, FinalStages
<1>3. \A x \in Requests \ {r} : Answered(x)' = Answered(x)
  BY <1>1 DEF Answered
<1>4. [x \in Requests |-> Answered(x)]' = [[x \in Requests |-> Answered(x)] EXCEPT ![r] = stage]
  BY <1>2, <1>3
<1> QED BY <1>2, <1>4 DEF Promise!Answer

\* A final answer that charges nothing, whatever it is.
LEMMA AnswersUncharged ==
    ASSUME TypeOK, NEW r \in Requests, request[r].stage \in OpenStages,
           NEW stage \in FinalStages, Moves(r, stage), UNCHANGED charged
    PROVE  Promise!Next
<1>1. Promise!Answer(r, stage)
  BY Answers
<1> QED BY <1>1 DEF FinalStages, Promise!Next, Promise!Serve, Promise!Fault, Promise!Refuse

\* An answer of the last stage that did charge the request.
LEMMA AnswersCharged ==
    ASSUME Inv, NEW r \in Requests, request[r].stage = "quota", Claimed(r),
           NEW stage \in {"served", "faulted"}, Moves(r, stage)
    PROVE  Promise!Next
<1>1. TypeOK
  BY DEF Inv
<1>2. CASE UNCHANGED <<used, charged>>
  BY <1>1, <1>2, AnswersUncharged DEF OpenStages, FinalStages
<1>3. ASSUME NEW p \in Periods, used[p] < LargestLimit,
             charged' = [charged EXCEPT ![r] = p]
      PROVE  Promise!Next
  <2>1. Promise!Answer(r, stage)
    BY <1>1, Answers DEF OpenStages, FinalStages
  <2>2. used[p] = Cardinality(Promise!Charges(p))
    BY DEF Inv, AllowanceExact, Promise!Charges
  <2>3. Promise!Charge(r)
    <3>1. Cardinality(Promise!Charges(p)) < LargestLimit
      BY <1>3, <2>2
    <3>2. Promise!Cardinality(Promise!Charges(p)) = Cardinality(Promise!Charges(p))
      BY Zenon DEF Cardinality, Promise!Cardinality
    <3> QED BY <1>3, <3>1, <3>2 DEF Promise!Charge
  <2> QED BY <2>1, <2>3 DEF Promise!Next, Promise!Serve, Promise!Fault
<1> QED BY <1>1, <1>2, <1>3, ClaimCounts

LEMMA RefinementStep ==
    ASSUME Inv, Inv', [Next]_vars
    PROVE  Promise!Next \/ UNCHANGED <<[r \in Requests |-> Answered(r)], charged>>
<1>1. TypeOK
  BY DEF Inv
<1>2. CASE UNCHANGED vars \/ Tick
  BY <1>2 DEF vars, Tick, Unspent, Answered
<1>3. ASSUME NEW r \in Requests, Arrive(r)
      PROVE  UNCHANGED <<[x \in Requests |-> Answered(x)], charged>>
  <2>1. request[r] \in RequestRecords
    BY <1>1 DEF TypeOK
  <2>2. request[r].stage = "idle" /\ request'[r].stage = "reading"
    BY <1>1, <1>3, <2>1, Arrived DEF RequestRecords
  <2>3. \A x \in Requests : Answered(x)' = Answered(x)
    BY <1>1, <1>3, <2>2, Arrived DEF Answered
  <2> QED BY <1>3, <2>3, Stutters DEF Arrive, Unspent
<1>4. ASSUME NEW r \in Requests, Judge(r)
      PROVE  Promise!Next \/ UNCHANGED <<[x \in Requests |-> Answered(x)], charged>>
  <2>1. /\ request[r].stage = "reading"
        /\ \A x \in Requests \ {r} : request'[x] = request[x]
        /\ request'[r].stage \in {"caller", "refused", "faulted"}
        /\ UNCHANGED charged
    BY <1>1, <1>4, Judged DEF Judge, Unspent
  <2>2. CASE request'[r].stage = "caller"
    <3>1. \A x \in Requests : Answered(x)' = Answered(x)
      BY <2>1, <2>2 DEF Answered
    <3> QED BY <2>1, <3>1, Stutters
  <2>3. ASSUME NEW stage \in {"refused", "faulted"}, request'[r].stage = stage
        PROVE  Promise!Next
    <3>1. \A x \in Requests \ {r} : Answered(x)' = Answered(x)
      BY <2>1 DEF Answered
    <3>2. Answered(r) = "open" /\ Answered(r)' = stage
      BY <2>1, <2>3 DEF Answered
    <3>3. [x \in Requests |-> Answered(x)]' = [[x \in Requests |-> Answered(x)] EXCEPT ![r] = stage]
      BY <3>1, <3>2
    <3>4. Promise!Answer(r, stage)
      BY <3>2, <3>3 DEF Promise!Answer
    <3> QED BY <2>1, <3>4 DEF Promise!Next, Promise!Fault, Promise!Refuse
  <2> QED BY <2>1, <2>2, <2>3
<1>5. ASSUME NEW r \in Requests, request[r].stage \in OpenStages,
             NEW stage \in OpenStages, Moves(r, stage), UNCHANGED charged
      PROVE  UNCHANGED <<[x \in Requests |-> Answered(x)], charged>>
  <2>1. /\ request'[r].stage = stage
        /\ \A x \in Requests \ {r} : request'[x] = request[x]
    BY <1>1, <1>5, MovedKeeps DEF OpenStages, Stages
  <2>2. \A x \in Requests : Answered(x)' = Answered(x)
    BY <1>5, <2>1 DEF Answered, OpenStages
  <2> QED BY <1>5, <2>2, Stutters
<1>6. ASSUME NEW r \in Requests, AskCaller(r) \/ AskApp(r)
      PROVE  Promise!Next \/ UNCHANGED <<[x \in Requests |-> Answered(x)], charged>>
  <2>1. request[r].stage \in {"caller", "app"} /\ request[r].stage \in OpenStages
    BY <1>6, AskCallerCases, AskAppCases DEF OpenStages
  <2>2. UNCHANGED charged
    BY <1>6, AskCallerCases, AskAppCases DEF NotCalled, LimiterCall, Counted, Unspent
  <2>3. Passes(r) \/ Refused(r) \/ Faulted(r)
    BY <1>6, AskCallerCases, AskAppCases DEF NotCalled, LimiterCall
  <2>4. CASE Passes(r)
    BY <1>5, <2>1, <2>2, <2>4, StagesFollow DEF Passes, OpenStages
  <2>5. CASE Refused(r) \/ Faulted(r)
    BY <1>1, <2>1, <2>2, <2>5, AnswersUncharged DEF Refused, Faulted, FinalStages
  <2> QED BY <2>3, <2>4, <2>5
<1>7. ASSUME NEW r \in Requests,
             \/ Unmetered(r) \/ Claim(r) \/ ClaimUnanswered(r)
             \/ ClaimOverloaded(r) \/ ClaimThrows(r)
      PROVE  Promise!Next
  <2>1. request[r].stage = "quota" /\ request[r].stage \in OpenStages
    BY <1>1, <1>7, LastStageCases DEF OpenStages
  <2>2. CASE Claimed(r) /\ (Moves(r, "served") \/ Moves(r, "faulted"))
    BY <2>1, <2>2, AnswersCharged
  <2>3. CASE Unclaimed(r) /\ \E s \in FinalStages : Moves(r, s)
    BY <1>1, <2>1, <2>3, AnswersUncharged DEF Unclaimed, Unspent
  <2> QED BY <1>1, <1>7, <2>2, <2>3, LastStageCases
<1> QED BY <1>2, <1>3, <1>4, <1>6, <1>7 DEF Next, Step

\* Admission implements AllowanceCharges: no request is charged twice or for a
\* refusal, and no period beyond the most its plans ever allowed.
THEOREM AdmissionKeepsPromise == Spec => ChargesOnlyServed
<1>1. Init => Promise!Init
  BY RefinementInit
<1>2. Inv /\ Inv' /\ [Next]_vars
        => [Promise!Next]_<<[r \in Requests |-> Answered(r)], charged>>
  BY RefinementStep
<1> QED BY <1>1, <1>2, InvInductive, PTL DEF Spec, Promise!Spec, ChargesOnlyServed
=============================================================================
