------------------------ MODULE BillingAccessProofs ------------------------
(***************************************************************************)
(* What BillingAccess keeps for every set of requests and every window:     *)
(* how old a plan a request may be judged by, and how often a failing       *)
(* service is asked.                                                        *)
(***************************************************************************)
EXTENDS BillingAccess, SequenceTheorems, TLAPS

Plans == [endsAt: Moments \union {Never}, replacedAt: Moments \union {Never}]
Reads == [phase: {"none", "asked", "read", "settled"}, startedAt: Moments,
          settledAt: Moments, plan: 0..Current, result: Results]
Calls == [on: Askers \union {Nobody}, askedAt: Moments, floor: 0..Current]

-----------------------------------------------------------------------------
(* The inductive invariant *)

\* What holds of the plan that read q took or was given.
GoodRead(q) ==
    /\ read[q].phase # "none" => call[q].on = q
    /\ read[q].startedAt <= now
    /\ Pending(q) => now <= read[q].startedAt + MaxCall
    /\ read[q].phase = "read" =>
          /\ read[q].plan \in 1..Current
          /\ read[q].plan >= call[q].floor
          /\ history[read[q].plan].replacedAt >= read[q].startedAt
    /\ read[q].phase = "settled" =>
          /\ read[q].startedAt <= read[q].settledAt
          /\ read[q].settledAt <= now
          /\ read[q].result \in {"fresh", "stale", "unavailable"}
    /\ read[q].phase = "settled" /\ read[q].result = "fresh" =>
          /\ read[q].plan \in 1..Current
          /\ read[q].plan >= call[q].floor
          /\ history[read[q].plan].replacedAt >= read[q].startedAt
          /\ EndsAt(read[q].plan) > read[q].settledAt
    /\ read[q].phase = "settled" /\ read[q].result = "stale" =>
          /\ read[q].plan \in 1..Current
          /\ history[read[q].plan].replacedAt > read[q].settledAt - StaleMax - MaxCall
          /\ EndsAt(read[q].plan) > read[q].settledAt

\* A request that joined read q joined it while its entry was fresh, and nothing
\* was invalidated between the two.
Joined(r, q) ==
    /\ q \in Askers
    /\ read[q].phase # "none"
    /\ call[q].floor = call[r].floor
    /\ call[r].askedAt <= now
    /\ call[r].askedAt < read[q].startedAt + AccessTtl
    /\ read[q].phase = "settled" /\ read[q].result = "fresh" =>
          call[r].askedAt <= read[q].settledAt \/ call[r].askedAt < EndsAt(read[q].plan)
    /\ read[q].phase = "settled" /\ read[q].result = "stale" =>
          call[r].askedAt < read[q].settledAt + Retry

\* The entry of read q outlives neither its window nor its plan.
Holds(q) ==
    /\ read[q].phase # "none"
    /\ call[q].floor = floor
    /\ entry.expiresAt <= read[q].startedAt + AccessTtl
    /\ Failed(q) => entry.expiresAt <= read[q].startedAt + Retry
    /\ read[q].phase = "settled" /\ read[q].result = "fresh" =>
          entry.expiresAt <= EndsAt(read[q].plan)

\* The remembered plan was current when the call that stored it was made.
GoodKnown ==
    /\ lastKnown.plan \in 1..Current
    /\ lastKnown.storedAt <= now
    /\ history[lastKnown.plan].replacedAt >= lastKnown.storedAt - MaxCall

\* A read that may still fail, or has, keeps others from being begun.
Held(q) ==
    \/ now >= read[q].startedAt + Retry
    \/ entry.read = q /\ entry.expiresAt >= read[q].startedAt + Retry

IInv ==
    /\ BillingTypeOK
    /\ history[Current].replacedAt = Never
    /\ \A q \in Askers : GoodRead(q)
    /\ \A r \in Askers : call[r] # NotAsked => Joined(r, call[r].on)
    /\ \A r \in Askers : call[r].floor <= floor
    /\ entry.read # Nobody => Holds(entry.read)
    /\ lastKnown # NotKnown => GoodKnown
    /\ \A q \in lately : Pending(q) \/ Failed(q) => Held(q)

-----------------------------------------------------------------------------
(* Facts of the types *)

LEMMA Numbers ==
    /\ AccessTtl \in Nat \ {0} /\ Retry \in Nat \ {0} /\ StaleMax \in Nat \ {0} /\ Retry <= AccessTtl
    /\ MaxCall \in Nat /\ MaxPlanChanges \in Nat /\ LastMoment \in Nat
    /\ Never \in Nat /\ \A t \in Moments : t \in Nat /\ t < Never
BY BillingAssumption DEF Never, Moments

\* What TypeOK says of a plan, a read, a request and the caches.
LEMMA Shapes ==
    ASSUME BillingTypeOK
    PROVE  /\ now \in Nat /\ Current \in Nat \ {0}
           /\ \A p \in 1..Current : history[p] \in Plans
           /\ \A p \in 1..Current : EndsAt(p) \in Nat /\ history[p].replacedAt \in Nat
           /\ \A q \in Askers : /\ read[q] \in Reads /\ call[q] \in Calls
                                  /\ read[q].startedAt \in Nat /\ read[q].settledAt \in Nat
                                  /\ call[q].askedAt \in Nat /\ call[q].floor \in Nat
           /\ entry.expiresAt \in Nat /\ lastKnown.storedAt \in Nat /\ floor \in Nat
<1>1. now \in Nat
  BY Numbers DEF BillingTypeOK
<1>2. Current \in Nat \ {0}
  BY Numbers DEF BillingTypeOK, Versions
<1>3. \A p \in 1..Current : history[p] \in Plans
  BY ElementOfSeq DEF BillingTypeOK, Plans, Current
<1>4. \A p \in 1..Current : EndsAt(p) \in Nat /\ history[p].replacedAt \in Nat
  BY <1>3, Numbers DEF Plans, EndsAt
<1>5. \A q \in Askers : read[q] \in Reads /\ call[q] \in Calls
  BY DEF BillingTypeOK, Reads, Calls
<1>6. \A q \in Askers : /\ read[q].startedAt \in Nat /\ read[q].settledAt \in Nat
                          /\ call[q].askedAt \in Nat /\ call[q].floor \in Nat
  <2>1. \A q \in Askers : /\ read[q].startedAt \in Moments /\ read[q].settledAt \in Moments
                            /\ call[q].askedAt \in Moments /\ call[q].floor \in 0..Current
    BY <1>5 DEF Reads, Calls
  <2>2. \A n \in 0..Current : n \in Nat
    BY <1>2
  <2> QED BY <2>1, <2>2, Numbers, Zenon
<1>7. entry.expiresAt \in Nat /\ lastKnown.storedAt \in Nat /\ floor \in Nat
  <2>1. entry.expiresAt \in Nat /\ lastKnown.storedAt \in Moments /\ floor \in 1..Current
    BY DEF BillingTypeOK
  <2> QED BY <1>2, <2>1, Numbers
<1> QED BY <1>1, <1>2, <1>3, <1>4, <1>5, <1>6, <1>7

\* A change keeps every plan there has been, and replaces only the current one.
LEMMA Changed ==
    ASSUME BillingTypeOK, PlanChanges
    PROVE  /\ history' \in Seq(Plans) /\ Current' = Current + 1 /\ Current' \in Versions
           /\ \A p \in 1..Current : EndsAt(p)' = EndsAt(p)
           /\ \A p \in 1..Current :
                 history'[p].replacedAt = history[p].replacedAt \/ history'[p].replacedAt = now
<1>1. history \in Seq(Plans) /\ Current \in 1..Len(history) /\ now \in Moments
  BY Shapes DEF BillingTypeOK, Plans, Current, PlanChanges
<1>2. PICK endsAt \in {t \in Moments : t > now} \union {Never} :
        history' = Append([history EXCEPT ![Current].replacedAt = now],
                        [endsAt |-> endsAt, replacedAt |-> Never])
  BY DEF PlanChanges
<1> DEFINE old == [history[Current] EXCEPT !.replacedAt = now]
           new == [endsAt |-> endsAt, replacedAt |-> Never]
<1>3. history[Current] \in Plans
  BY <1>1, ElementOfSeq
<1>4. old \in Plans /\ new \in Plans
  BY <1>1, <1>3 DEF Plans
<1>5. /\ [history EXCEPT ![Current] = old] \in Seq(Plans)
      /\ Len([history EXCEPT ![Current] = old]) = Current
      /\ \A j \in 1..Current :
            [history EXCEPT ![Current] = old][j] = IF j = Current THEN old ELSE history[j]
  BY <1>1, <1>4, ExceptSeq DEF Current
<1>6. history' = Append([history EXCEPT ![Current] = old], new)
  BY <1>2
<1> HIDE DEF old, new
<1>7. /\ history' \in Seq(Plans) /\ Len(history') = Current + 1
      /\ \A j \in 1..Current : history'[j] = IF j = Current THEN old ELSE history[j]
  BY <1>4, <1>5, <1>6, AppendProperties, Shapes
<1>8. old.endsAt = history[Current].endsAt /\ old.replacedAt = now
  BY <1>3 DEF old, Plans
<1>9. Current' = Current + 1 /\ Current' \in Versions
  BY <1>7, Numbers, Shapes DEF Current, Versions, PlanChanges
<1> QED BY <1>7, <1>8, <1>9 DEF EndsAt

-----------------------------------------------------------------------------
(* The steps of getBillingAccess *)

LEMMA InitKeeps == BillingInit => IInv
<1> SUFFICES ASSUME BillingInit PROVE IInv
  OBVIOUS
<1>1. history = <<[endsAt |-> Never, replacedAt |-> Never]>> /\ Current = 1
  BY DEF BillingInit, Current
<1>2. history \in Seq(Plans)
  BY <1>1 DEF Plans
<1>3. BillingTypeOK
  BY <1>1, <1>2, Numbers, BillingAssumption
  DEF BillingInit, BillingTypeOK, Plans, Moments, Versions, Results, NotRead, NotAsked, EmptyEntry, NotKnown
<1>4. \A q \in Askers : GoodRead(q)
  BY Numbers DEF BillingInit, GoodRead, NotRead, Pending
<1> QED BY <1>1, <1>3, <1>4 DEF BillingInit, IInv, NotAsked, NotKnown, EmptyEntry

\* A request that joins the read of a fresh entry.
LEMMA JoinKeeps ==
    ASSUME IInv, NEW r \in Askers, Ask(r), Unexpired(entry)
    PROVE  IInv'
<1> DEFINE q == entry.read
           asked == [on |-> q, askedAt |-> now, floor |-> floor]
<1>1. /\ call' = [call EXCEPT ![r] = asked] /\ call[r] = NotAsked
      /\ UNCHANGED <<now, history, read, entry, lastKnown, floor, lately>>
  BY DEF Ask, caches
<1>2. BillingTypeOK /\ q \in Askers /\ Holds(q) /\ now < entry.expiresAt
  BY DEF IInv, Unexpired, BillingTypeOK
<1>3. asked \in Calls
  BY <1>2 DEF BillingTypeOK, Calls
<1>4. call' \in [Askers -> Calls] /\ Current' = Current
  BY <1>1, <1>2, <1>3 DEF BillingTypeOK, Calls, Current
<1>5. BillingTypeOK'
  BY <1>1, <1>2, <1>4 DEF BillingTypeOK, Calls, Current
<1>6. read[r].phase = "none"
  BY <1>1, BillingAssumption DEF IInv, GoodRead, NotAsked
<1>7. \A x \in Askers \ {r} : call'[x] = call[x]
  BY <1>1, <1>2 DEF BillingTypeOK
<1>8. call'[r] = asked
  BY <1>1, <1>2 DEF BillingTypeOK
<1>9. r # q
  BY <1>2, <1>6 DEF Holds
<1>10. \A x \in Askers : GoodRead(x)'
  BY <1>1, <1>4, <1>6, <1>7 DEF IInv, GoodRead, Pending, EndsAt
<1>11. Joined(r, q)'
  <2>1. GoodRead(q) /\ read[q] \in Reads
    BY <1>2, Shapes DEF IInv
  <2>2. now < read[q].startedAt + AccessTtl
    BY <1>2, Shapes, Numbers DEF Holds
  <2>3. read[q].phase = "settled" /\ read[q].result = "fresh" => now < EndsAt(read[q].plan)
    BY <1>2, <2>1, Shapes DEF Holds, GoodRead
  <2>4. read[q].phase = "settled" /\ read[q].result = "stale" => now < read[q].settledAt + Retry
    BY <1>2, <2>1, Shapes, Numbers DEF Holds, GoodRead, Failed
  <2>5. call'[q].floor = call'[r].floor
    BY <1>2, <1>7, <1>8, <1>9 DEF Holds
  <2> QED BY <1>1, <1>2, <1>8, <2>2, <2>3, <2>4, <2>5, Shapes DEF Joined, Holds, EndsAt
<1>12. \A x \in Askers : call'[x] # NotAsked => Joined(x, call[x].on)'
  <2> SUFFICES ASSUME NEW x \in Askers, call'[x] # NotAsked PROVE Joined(x, call[x].on)'
    OBVIOUS
  <2>1. CASE x = r
    BY <1>1, <1>8, <1>11, <2>1
  <2>2. CASE x # r
    <3>1. Joined(x, call[x].on) /\ call'[x] = call[x]
      BY <1>7, <2>2 DEF IInv
    <3>2. call[x].on # r
      BY <1>6, <3>1 DEF Joined
    <3> QED BY <1>1, <1>7, <3>1, <3>2 DEF Joined, EndsAt
  <2> QED BY <2>1, <2>2
<1>13. \A x \in Askers : call'[x].floor <= floor'
  BY <1>1, <1>2, <1>7, <1>8, Shapes DEF IInv
<1>14. Holds(q)'
  BY <1>1, <1>2, <1>7, <1>9 DEF Holds, Failed, EndsAt
<1> QED BY <1>1, <1>4, <1>5, <1>10, <1>12, <1>13, <1>14 DEF IInv, GoodKnown, Held, Pending, Failed

\* A request that begins a read, where the cache has no fresh entry.
LEMMA BeginKeeps ==
    ASSUME IInv, NEW r \in Askers, Ask(r), ~Unexpired(entry)
    PROVE  IInv'
<1> DEFINE asked == [on |-> r, askedAt |-> now, floor |-> floor]
           begun == [NotRead EXCEPT !.phase = "asked", !.startedAt = now]
<1>1. /\ call' = [call EXCEPT ![r] = asked] /\ call[r] = NotAsked
      /\ read' = [read EXCEPT ![r] = begun]
      /\ entry' = [read |-> r, expiresAt |-> now + AccessTtl] /\ lately' = lately \union {r}
      /\ UNCHANGED <<now, history, lastKnown, floor>>
  BY DEF Ask, caches
<1>2. BillingTypeOK /\ r # Nobody
  BY BillingAssumption DEF IInv
<1>3. asked \in Calls /\ begun \in Reads
  <2>1. now \in Moments /\ floor \in 0..Current /\ 0 \in Moments /\ 0 \in 0..Current
    BY <1>2, Numbers, Shapes DEF BillingTypeOK, Moments
  <2> QED BY <2>1 DEF Calls, Reads, NotRead, Results
<1>4. call' \in [Askers -> Calls] /\ read' \in [Askers -> Reads] /\ Current' = Current
  BY <1>1, <1>2, <1>3 DEF BillingTypeOK, Calls, Reads, Current
<1>5. BillingTypeOK'
  <2>1. entry' \in [read: Askers \union {Nobody}, expiresAt: Nat]
    BY <1>1, <1>2, Numbers, Shapes
  <2>2. lately' \subseteq Askers
    BY <1>1, <1>2 DEF BillingTypeOK
  <2> QED BY <1>1, <1>2, <1>4, <2>1, <2>2 DEF BillingTypeOK, Calls, Reads, Current
<1>6. read[r].phase = "none"
  BY <1>1, BillingAssumption DEF IInv, GoodRead, NotAsked
<1>7. \A x \in Askers \ {r} : call'[x] = call[x] /\ read'[x] = read[x]
  BY <1>1, <1>2 DEF BillingTypeOK
<1>8. call'[r] = asked /\ read'[r] = begun
  BY <1>1, <1>2 DEF BillingTypeOK
<1>9. /\ begun.phase = "asked" /\ begun.startedAt = now
      /\ asked.on = r /\ asked.askedAt = now /\ asked.floor = floor
      /\ entry'.read = r /\ entry'.expiresAt = now + AccessTtl
      /\ now' = now /\ now \in Nat /\ floor' = floor
  BY <1>1, <1>2, Shapes DEF NotRead
<1> HIDE DEF asked, begun
<1>10. \A x \in Askers : GoodRead(x)'
  <2> SUFFICES ASSUME NEW x \in Askers PROVE GoodRead(x)'
    OBVIOUS
  <2>1. CASE x = r
    BY <1>8, <1>9, <2>1, Numbers DEF GoodRead, Pending
  <2>2. CASE x # r
    BY <1>1, <1>4, <1>7, <2>2 DEF IInv, GoodRead, Pending, EndsAt
  <2> QED BY <2>1, <2>2
<1>11. \A x \in Askers : call'[x] # NotAsked => Joined(x, call[x].on)'
  <2> SUFFICES ASSUME NEW x \in Askers, call'[x] # NotAsked PROVE Joined(x, call[x].on)'
    OBVIOUS
  <2>1. CASE x = r
    BY <1>8, <1>9, <2>1, Numbers DEF Joined
  <2>2. CASE x # r
    <3>1. Joined(x, call[x].on) /\ call'[x] = call[x]
      BY <1>7, <2>2 DEF IInv
    <3>2. call[x].on # r
      BY <1>6, <3>1 DEF Joined
    <3> QED BY <1>1, <1>7, <3>1, <3>2 DEF Joined, EndsAt
  <2> QED BY <2>1, <2>2
<1>12. \A x \in Askers : call'[x].floor <= floor'
  BY <1>2, <1>7, <1>8, <1>9, Shapes DEF IInv
<1>13. Holds(r)'
  BY <1>8, <1>9, Numbers DEF Holds, Failed
<1>14. \A q \in lately' : (Pending(q) \/ Failed(q))' => Held(q)'
  <2> SUFFICES ASSUME NEW q \in lately', Pending(q)' \/ Failed(q)' PROVE Held(q)'
    OBVIOUS
  <2>1. CASE q = r
    BY <1>8, <1>9, <2>1, Numbers DEF Held
  <2>2. CASE q # r
    <3>1. q \in lately /\ q \in Askers /\ read'[q] = read[q]
      BY <1>1, <1>2, <1>7, <2>2 DEF BillingTypeOK
    <3>2. Held(q)
      BY <3>1 DEF IInv, Pending, Failed
    <3>3. now >= entry.expiresAt \/ entry.read = Nobody
      BY <1>2, Shapes DEF Unexpired
    <3>4. now >= read[q].startedAt + Retry
      BY <1>2, <3>1, <3>2, <3>3, Numbers, Shapes, BillingAssumption DEF Held
    <3> QED BY <1>1, <3>1, <3>4 DEF Held
  <2> QED BY <2>1, <2>2
<1>15. lastKnown' # NotKnown => GoodKnown'
  BY <1>1, <1>4 DEF IInv, GoodKnown
<1> QED BY <1>1, <1>4, <1>5, <1>10, <1>11, <1>12, <1>13, <1>14, <1>15 DEF IInv

-----------------------------------------------------------------------------
(* The steps of a read *)

\* A step of one read that leaves its beginning alone keeps what is known of the
\* others, and of the requests that joined them.
LEMMA OthersKeep ==
    ASSUME IInv, NEW r \in Askers, NEW row \in Reads,
           read' = [read EXCEPT ![r] = row], UNCHANGED <<now, history, call>>
    PROVE  /\ read' \in [Askers -> Reads] /\ read'[r] = row
           /\ \A x \in Askers \ {r} : read'[x] = read[x] /\ GoodRead(x)'
           /\ \A x \in Askers :
                 call[x] # NotAsked /\ call[x].on # r => Joined(x, call[x].on)'
<1>1. BillingTypeOK /\ Current' = Current
  BY DEF IInv, Current
<1>2. read' \in [Askers -> Reads] /\ read'[r] = row
  BY <1>1 DEF BillingTypeOK, Reads
<1>3. \A x \in Askers \ {r} : read'[x] = read[x]
  BY <1>1 DEF BillingTypeOK
<1>4. \A x \in Askers \ {r} : GoodRead(x)'
  BY <1>1, <1>3 DEF IInv, GoodRead, Pending, EndsAt
<1>5. \A x \in Askers :
         call[x] # NotAsked /\ call[x].on # r => Joined(x, call[x].on)'
  BY <1>3 DEF IInv, Joined, EndsAt
<1> QED BY <1>2, <1>3, <1>4, <1>5

LEMMA EvaluatedKeeps ==
    ASSUME IInv, NEW r \in Askers, Evaluated(r)
    PROVE  IInv'
<1> DEFINE row == [read[r] EXCEPT !.phase = "read", !.plan = Current]
<1>1. /\ read' = [read EXCEPT ![r] = row] /\ read[r].phase = "asked"
      /\ UNCHANGED <<now, history, call, entry, lastKnown, floor, lately>>
  BY DEF Evaluated, caches, IInv, BillingTypeOK
<1>2. BillingTypeOK /\ Current' = Current
  BY <1>1 DEF IInv, Current
<1>3. /\ row \in Reads /\ row.phase = "read" /\ row.plan = Current
      /\ row.startedAt = read[r].startedAt
  <2>1. read[r] \in Reads /\ Current \in 0..Current
    BY <1>2, Shapes
  <2> QED BY <2>1 DEF Reads
<1> HIDE DEF row
<1>4. /\ read' \in [Askers -> Reads] /\ read'[r] = row
      /\ \A x \in Askers \ {r} : read'[x] = read[x] /\ GoodRead(x)'
      /\ \A x \in Askers : call[x] # NotAsked /\ call[x].on # r => Joined(x, call[x].on)'
  BY <1>1, <1>3, OthersKeep
<1>5. BillingTypeOK'
  BY <1>1, <1>2, <1>4 DEF BillingTypeOK, Reads, Calls, Current
<1>6. history[Current].replacedAt >= now
  BY <1>2, Numbers DEF IInv, BillingTypeOK
<1>7. call[r].floor <= Current
  BY <1>2, Shapes DEF IInv, BillingTypeOK
<1>8. GoodRead(r)'
  BY <1>1, <1>2, <1>3, <1>4, <1>6, <1>7, Shapes DEF IInv, GoodRead, Pending
<1>9. \A x \in Askers : call[x] # NotAsked => Joined(x, call[x].on)'
  BY <1>1, <1>3, <1>4 DEF IInv, Joined
<1>10. entry.read # Nobody => Holds(entry.read)'
  BY <1>1, <1>3, <1>4 DEF IInv, BillingTypeOK, Holds, Failed, EndsAt
<1>11. \A q \in lately : Pending(q)' \/ Failed(q)' => Held(q)'
  BY <1>1, <1>2, <1>3, <1>4 DEF IInv, BillingTypeOK, Pending, Failed, Held
<1> QED BY <1>1, <1>2, <1>4, <1>5, <1>8, <1>9, <1>10, <1>11 DEF IInv, GoodKnown

\* What an answer must be worth for a read to settle with it.
Worth(r, plan, result, until) ==
    /\ plan \in 0..Current /\ result \in {"fresh", "stale", "unavailable"}
    /\ until \in Nat /\ until <= read[r].startedAt + AccessTtl
    /\ result # "fresh" => until = read[r].startedAt + Retry
    /\ result # "unavailable" => plan \in 1..Current /\ EndsAt(plan) > now
    /\ result = "fresh" => /\ plan >= call[r].floor /\ until <= EndsAt(plan)
                           /\ history[plan].replacedAt >= read[r].startedAt
    /\ result = "stale" => history[plan].replacedAt > now - StaleMax - MaxCall

LEMMA SettledKeeps ==
    ASSUME IInv, NEW r \in Askers, Pending(r), NEW plan, NEW result, NEW until,
           Worth(r, plan, result, until), Settles(r, plan, result),
           entry' = Shortened(r, until), UNCHANGED <<now, history, call, floor, lately>>,
           lastKnown' \in [plan: 0..Current, storedAt: Moments],
           lastKnown' # NotKnown => GoodKnown'
    PROVE  IInv'
<1> DEFINE row == [read[r] EXCEPT !.phase = "settled", !.settledAt = now,
                                  !.plan = plan, !.result = result]
<1>1. read' = [read EXCEPT ![r] = row]
  BY DEF Settles
<1>2. BillingTypeOK /\ Current' = Current
  BY DEF IInv, Current
<1>3. /\ row \in Reads /\ row.phase = "settled" /\ row.settledAt = now /\ row.plan = plan
      /\ row.result = result /\ row.startedAt = read[r].startedAt
  <2>1. read[r] \in Reads /\ now \in Moments /\ plan \in 0..Current /\ result \in Results
    BY <1>2, Shapes DEF BillingTypeOK, Worth, Results
  <2> QED BY <2>1 DEF Reads
<1> HIDE DEF row
<1>4. /\ read' \in [Askers -> Reads] /\ read'[r] = row
      /\ \A x \in Askers \ {r} : read'[x] = read[x] /\ GoodRead(x)'
      /\ \A x \in Askers : call[x] # NotAsked /\ call[x].on # r => Joined(x, call[x].on)'
  BY <1>1, <1>3, OthersKeep
<1>5. /\ entry'.read = entry.read /\ entry' \in [read: Askers \union {Nobody}, expiresAt: Nat]
      /\ entry'.expiresAt = IF entry.read = r THEN until ELSE entry.expiresAt
  BY <1>2 DEF Shortened, BillingTypeOK, Worth
<1>6. BillingTypeOK'
  BY <1>2, <1>4, <1>5 DEF BillingTypeOK, Reads, Calls, Current
<1>7. GoodRead(r)'
  <2>1. GoodRead(r) /\ read[r].phase # "none" /\ read[r].startedAt \in Nat /\ now \in Nat
    BY <1>2, Shapes DEF IInv, Pending
  <2> QED BY <1>2, <1>3, <1>4, <2>1 DEF GoodRead, Pending, Worth, EndsAt
<1>8. \A x \in Askers : call[x] # NotAsked => Joined(x, call[x].on)'
  <2> SUFFICES ASSUME NEW x \in Askers, call[x] # NotAsked, call[x].on = r
               PROVE  Joined(x, r)'
    BY <1>4
  <2>1. Joined(x, r) /\ now \in Nat /\ call[x].askedAt \in Nat
    BY <1>2, Shapes DEF IInv
  <2> QED BY <1>3, <1>4, <2>1, Numbers DEF Joined
<1>9. entry'.read # Nobody => Holds(entry.read)'
  <2> SUFFICES ASSUME entry.read # Nobody PROVE Holds(entry.read)'
    BY <1>5
  <2>1. Holds(entry.read) /\ entry.read \in Askers
    BY <1>2 DEF IInv, BillingTypeOK
  <2>2. CASE entry.read = r
    BY <1>3, <1>4, <1>5, <2>1, <2>2, Shapes, <1>2, Numbers DEF Holds, Failed, Worth, EndsAt
  <2>3. CASE entry.read # r
    BY <1>4, <1>5, <2>1, <2>3 DEF Holds, Failed, EndsAt
  <2> QED BY <2>2, <2>3
<1>10. \A q \in lately : Pending(q)' \/ Failed(q)' => Held(q)'
  <2> SUFFICES ASSUME NEW q \in lately, Pending(q)' \/ Failed(q)' PROVE Held(q)'
    OBVIOUS
  <2>1. q \in Askers
    BY <1>2 DEF BillingTypeOK
  <2>2. CASE q = r
    <3>1. Held(r) /\ result # "fresh"
      BY <1>3, <1>4, <2>2 DEF IInv, Pending, Failed
    <3>2. until = read[r].startedAt + Retry /\ until \in Nat
      BY <3>1 DEF Worth
    <3> QED BY <1>3, <1>4, <1>5, <2>2, <3>1, <3>2 DEF Held
  <2>3. CASE q # r
    BY <1>4, <1>5, <2>1, <2>3 DEF IInv, Pending, Failed, Held
  <2> QED BY <2>2, <2>3
<1> QED BY <1>2, <1>4, <1>5, <1>6, <1>7, <1>8, <1>9, <1>10 DEF IInv

LEMMA ReturnsKeeps ==
    ASSUME IInv, NEW r \in Askers, Returns(r)
    PROVE  IInv'
<1> DEFINE plan == read[r].plan
           start == read[r].startedAt
<1>1. /\ Pending(r) /\ BillingTypeOK /\ GoodRead(r) /\ UNCHANGED <<now, history, call, floor, lately>>
      /\ read[r].phase = "read"
  BY DEF Returns, IInv, Pending
<1>2. /\ plan \in 1..Current /\ plan >= call[r].floor /\ history[plan].replacedAt >= start
      /\ now <= start + MaxCall /\ start <= now /\ start \in Nat /\ now \in Nat
      /\ EndsAt(plan) \in Nat /\ history[plan].replacedAt \in Nat
  BY <1>1, Shapes DEF GoodRead
<1> HIDE DEF plan, start
<1>3. CASE Ended(plan)
  <2>1. /\ Settles(r, 0, "unavailable") /\ entry' = Shortened(r, start + Retry) /\ lastKnown' = lastKnown
    BY <1>3 DEF Returns, HeldUntil, plan, start
  <2>2. Worth(r, 0, "unavailable", start + Retry)
    BY <1>1, <1>2, Numbers, Shapes DEF Worth, start
  <2>3. lastKnown' \in [plan: 0..Current, storedAt: Moments] /\ (lastKnown' # NotKnown => GoodKnown')
    BY <1>1, <2>1 DEF IInv, BillingTypeOK, GoodKnown, Current
  <2> QED BY <1>1, <2>1, <2>2, <2>3, SettledKeeps
<1>4. CASE ~Ended(plan)
  <2>1. /\ Settles(r, plan, "fresh") /\ entry' = Shortened(r, FreshUntil(plan, start))
        /\ lastKnown' = [plan |-> plan, storedAt |-> now]
    BY <1>4 DEF Returns, plan, start
  <2>2. Worth(r, plan, "fresh", FreshUntil(plan, start))
    BY <1>1, <1>2, <1>4, Numbers, Shapes DEF Worth, FreshUntil, Ended, start
  <2>3. lastKnown' \in [plan: 0..Current, storedAt: Moments]
    BY <1>1, <1>2, <2>1, Shapes DEF BillingTypeOK
  <2>4. GoodKnown'
    BY <1>1, <1>2, <2>1, Numbers DEF GoodKnown, Current
  <2> QED BY <1>1, <2>1, <2>2, <2>3, <2>4, SettledKeeps
<1> QED BY <1>3, <1>4

LEMMA FailsKeeps ==
    ASSUME IInv, NEW r \in Askers, Fails(r)
    PROVE  IInv'
<1> DEFINE until == HeldUntil(read[r].startedAt)
<1>1. /\ Pending(r) /\ BillingTypeOK /\ entry' = Shortened(r, until)
      /\ UNCHANGED <<now, history, call, lastKnown, floor, lately>>
  BY DEF Fails, IInv, Pending
<1>2. /\ until = read[r].startedAt + Retry /\ until \in Nat
      /\ until <= read[r].startedAt + AccessTtl
  BY <1>1, Numbers, Shapes DEF HeldUntil
<1>3. lastKnown' \in [plan: 0..Current, storedAt: Moments] /\ (lastKnown' # NotKnown => GoodKnown')
  BY <1>1 DEF IInv, BillingTypeOK, GoodKnown, Current
<1> HIDE DEF until
<1>4. CASE Usable
  <2>1. Settles(r, lastKnown.plan, "stale")
    BY <1>4 DEF Fails
  <2>2. /\ lastKnown.plan \in 1..Current /\ history[lastKnown.plan].replacedAt >= lastKnown.storedAt - MaxCall
        /\ now < lastKnown.storedAt + StaleMax /\ ~(EndsAt(lastKnown.plan) <= now)
    BY <1>4 DEF Usable, IInv, GoodKnown, Ended
  <2>3. Worth(r, lastKnown.plan, "stale", until)
    BY <1>1, <1>2, <2>2, Numbers, Shapes DEF Worth
  <2> QED BY <1>1, <1>3, <2>1, <2>3, SettledKeeps
<1>5. CASE ~Usable
  <2>1. Settles(r, 0, "unavailable")
    BY <1>5 DEF Fails
  <2>2. Worth(r, 0, "unavailable", until)
    BY <1>1, <1>2, Shapes DEF Worth
  <2> QED BY <1>1, <1>3, <2>1, <2>2, SettledKeeps
<1> QED BY <1>4, <1>5

-----------------------------------------------------------------------------
(* What happens meanwhile *)

LEMMA InvalidateKeeps == IInv /\ InvalidateAccess => IInv'
<1> SUFFICES ASSUME IInv, InvalidateAccess PROVE IInv'
  OBVIOUS
<1>1. /\ entry' = EmptyEntry /\ lastKnown' = NotKnown /\ floor' = Current /\ lately' = {}
      /\ UNCHANGED <<now, history, read, call>> /\ Current' = Current
  BY DEF InvalidateAccess, Current
<1>2. BillingTypeOK /\ Current \in Nat \ {0} /\ 0 \in Moments
  BY Shapes, Numbers DEF IInv, Moments
<1>3. BillingTypeOK'
  BY <1>1, <1>2 DEF BillingTypeOK, EmptyEntry, NotKnown
<1>4. \A r \in Askers : call[r].floor <= Current
  <2> SUFFICES ASSUME NEW r \in Askers PROVE call[r].floor <= Current
    OBVIOUS
  <2>1. call[r] \in Calls
    BY <1>2, Shapes
  <2> QED BY <1>2, <2>1 DEF Calls
<1> QED BY <1>1, <1>3, <1>4
        DEF IInv, GoodRead, Joined, Pending, Failed, EndsAt, EmptyEntry, NotKnown

LEMMA EvictKeeps == IInv /\ CrowdOut => IInv'
<1> SUFFICES ASSUME IInv, CrowdOut PROVE IInv'
  OBVIOUS
<1>1. /\ UNCHANGED <<now, history, read, call, floor>> /\ Current' = Current
      /\ \/ entry' = EmptyEntry /\ lastKnown' = lastKnown /\ lately' = {}
         \/ lastKnown' = NotKnown /\ entry' = entry /\ lately' = lately
  BY DEF CrowdOut, Current
<1>2. BillingTypeOK /\ 0 \in Moments /\ Current \in Nat \ {0}
  BY Shapes, Numbers DEF IInv, Moments
<1>3. BillingTypeOK'
  BY <1>1, <1>2 DEF BillingTypeOK, EmptyEntry, NotKnown
<1>4. (\A q \in Askers : GoodRead(q))' /\ (\A r \in Askers : call[r] # NotAsked => Joined(r, call[r].on))'
  BY <1>1 DEF IInv, GoodRead, Joined, Pending, EndsAt
<1>5. (entry.read # Nobody => Holds(entry.read))' /\ (lastKnown # NotKnown => GoodKnown)'
  BY <1>1 DEF IInv, Holds, GoodKnown, Failed, EndsAt, EmptyEntry
<1>6. (\A q \in lately : Pending(q) \/ Failed(q) => Held(q))'
  BY <1>1 DEF IInv, Pending, Failed, Held
<1> QED BY <1>1, <1>3, <1>4, <1>5, <1>6 DEF IInv

LEMMA ChangeKeeps == IInv /\ PlanChanges => IInv'
<1> SUFFICES ASSUME IInv, PlanChanges PROVE IInv'
  OBVIOUS
<1>1. UNCHANGED <<now, read, call, entry, lastKnown, floor, lately>> /\ BillingTypeOK
  BY DEF PlanChanges, caches, IInv
<1>2. /\ history' \in Seq(Plans) /\ Current' = Current + 1 /\ Current' \in Versions
      /\ \A p \in 1..Current : EndsAt(p)' = EndsAt(p)
      /\ \A p \in 1..Current :
            history'[p].replacedAt = history[p].replacedAt \/ history'[p].replacedAt = now
  BY <1>1, Changed
<1>3. /\ now \in Nat /\ Current \in Nat \ {0}
      /\ 1..Current \subseteq 1..Current' /\ 0..Current \subseteq 0..Current'
  BY <1>1, <1>2, Shapes
<1>4. BillingTypeOK'
  <2>1. read' \in [Askers -> Reads'] /\ call' \in [Askers -> Calls']
    BY <1>1, <1>3 DEF BillingTypeOK, Reads, Calls
  <2>2. lastKnown' \in [plan: 0..Current', storedAt: Moments] /\ floor' \in 1..Current'
    BY <1>1, <1>3 DEF BillingTypeOK
  <2> QED BY <1>1, <1>2, <2>1, <2>2 DEF BillingTypeOK, Plans, Reads, Calls
<1>5. history'[Current'].replacedAt = Never
  <2>1. PICK endsAt : history' = Append([history EXCEPT ![Current].replacedAt = now],
                                      [endsAt |-> endsAt, replacedAt |-> Never])
    BY DEF PlanChanges
  <2>2. Len([history EXCEPT ![Current].replacedAt = now]) = Current
    BY <1>1 DEF BillingTypeOK, Current
  <2> QED BY <1>2, <2>1, <2>2
<1>6. ASSUME NEW q \in Askers PROVE GoodRead(q)'
  <2>1. GoodRead(q) /\ read[q].startedAt \in Nat /\ read[q].settledAt \in Nat
    BY <1>1, Shapes DEF IInv
  <2>2. ASSUME NEW p \in 1..Current, NEW t \in Int, t <= now, history[p].replacedAt >= t
        PROVE  history'[p].replacedAt >= t
    BY <1>2, <1>3, <2>2
  <2>3. ASSUME NEW p \in 1..Current, NEW t \in Int, t < now, history[p].replacedAt > t
        PROVE  history'[p].replacedAt > t
    BY <1>2, <1>3, <2>3
  <2>4. read[q].phase = "settled" => /\ read[q].settledAt - StaleMax - MaxCall \in Int
                                    /\ read[q].settledAt - StaleMax - MaxCall < now
    BY <1>3, <2>1, Numbers DEF GoodRead
  <2>5. read[q].startedAt \in Int /\ read[q].startedAt <= now
    BY <2>1 DEF GoodRead
  <2> QED BY <1>1, <1>2, <1>3, <2>1, <2>2, <2>3, <2>4, <2>5 DEF GoodRead, Pending
<1>7. ASSUME NEW r \in Askers, call[r] # NotAsked PROVE Joined(r, call[r].on)'
  <2>1. Joined(r, call[r].on) /\ GoodRead(call[r].on)
    BY <1>7 DEF IInv, Joined
  <2> QED BY <1>1, <1>2, <2>1 DEF Joined, GoodRead
<1>8. (entry.read # Nobody => Holds(entry.read))'
  <2> SUFFICES ASSUME entry.read # Nobody PROVE Holds(entry.read)'
    BY <1>1
  <2>1. Holds(entry.read) /\ GoodRead(entry.read)
    BY <1>1 DEF IInv, BillingTypeOK
  <2> QED BY <1>1, <1>2, <2>1 DEF Holds, Failed, GoodRead
<1>9. (lastKnown # NotKnown => GoodKnown)'
  <2> SUFFICES ASSUME lastKnown # NotKnown PROVE GoodKnown'
    BY <1>1
  <2>1. GoodKnown /\ lastKnown.storedAt \in Nat
    BY <1>1, Shapes DEF IInv
  <2>2. lastKnown.storedAt - MaxCall \in Int /\ lastKnown.storedAt - MaxCall <= now
    BY <1>3, <2>1, Numbers DEF GoodKnown
  <2>3. history'[lastKnown.plan].replacedAt >= lastKnown.storedAt - MaxCall
    BY <1>2, <1>3, <2>1, <2>2 DEF GoodKnown
  <2> QED BY <1>1, <1>3, <2>1, <2>3 DEF GoodKnown
<1> QED BY <1>1, <1>4, <1>5, <1>6, <1>7, <1>8, <1>9 DEF IInv, Pending, Failed, Held

LEMMA TickKeeps == IInv /\ TimePasses => IInv'
<1> SUFFICES ASSUME IInv, TimePasses PROVE IInv'
  OBVIOUS
<1>1. /\ now' = now + 1 /\ now < LastMoment /\ BillingTypeOK /\ Current' = Current
      /\ \A q \in Askers : Pending(q) => now - read[q].startedAt < MaxCall
      /\ UNCHANGED <<history, read, call, entry, lastKnown, floor, lately>>
  BY DEF TimePasses, caches, IInv, Current
<1>2. now' \in Moments /\ now \in Nat
  BY <1>1, Numbers, Shapes DEF Moments
<1>3. BillingTypeOK'
  BY <1>1, <1>2 DEF BillingTypeOK
<1>4. ASSUME NEW q \in Askers PROVE GoodRead(q)'
  <2>1. GoodRead(q) /\ read[q].startedAt \in Nat /\ read[q].settledAt \in Nat
    BY <1>1, Shapes DEF IInv
  <2> QED BY <1>1, <1>2, <2>1, Numbers DEF GoodRead, Pending, EndsAt
<1>5. ASSUME NEW r \in Askers, call[r] # NotAsked PROVE Joined(r, call[r].on)'
  <2>1. Joined(r, call[r].on) /\ call[r].askedAt \in Nat
    BY <1>1, <1>5, Shapes DEF IInv
  <2> QED BY <1>1, <1>2, <2>1 DEF Joined, EndsAt
<1>6. (lastKnown # NotKnown => GoodKnown)'
  BY <1>1, <1>2, Shapes DEF IInv, GoodKnown
<1>7. ASSUME NEW q \in lately, Pending(q) \/ Failed(q) PROVE Held(q)'
  <2>1. Held(q) /\ read[q].startedAt \in Nat
    BY <1>1, <1>7, Shapes DEF IInv, BillingTypeOK
  <2> QED BY <1>1, <1>2, <2>1, Numbers DEF Held
<1> QED BY <1>1, <1>3, <1>4, <1>5, <1>6, <1>7 DEF IInv, Holds, Pending, Failed, EndsAt

LEMMA NextKeeps == IInv /\ [BillingNext]_billingVars => IInv'
<1>1. ASSUME IInv, UNCHANGED billingVars PROVE IInv'
  <2>1. UNCHANGED <<now, history, read, call, entry, lastKnown, floor, lately>>
    BY <1>1 DEF billingVars, caches
  <2> QED BY <1>1, <2>1 DEF IInv, BillingTypeOK, Current, GoodRead, Joined, Holds, GoodKnown,
                             Held, Pending, Failed, EndsAt
<1> QED BY <1>1, JoinKeeps, BeginKeeps, EvaluatedKeeps, ReturnsKeeps, FailsKeeps,
           InvalidateKeeps, EvictKeeps, ChangeKeeps, TickKeeps DEF BillingNext

\* The invariant that the properties below follow from.
THEOREM Inductive == BillingSpec => []IInv
BY InitKeeps, NextKeeps, PTL DEF BillingSpec

-----------------------------------------------------------------------------
(* The properties *)

\* Every plan, read, request and cached entry keeps the shape the code gives it
\* (billing/gateway.ts).
THEOREM TypeCorrect == BillingSpec => []BillingTypeOK
<1>1. IInv => BillingTypeOK
  BY DEF IInv
<1> QED BY <1>1, Inductive, PTL

LEMMA AnswersAreGood ==
    ASSUME IInv, NEW result, NEW r \in AnsweredWith(result)
    PROVE  LET q == call[r].on
           IN  /\ q \in Askers /\ Joined(r, q) /\ GoodRead(q) /\ BillingTypeOK
               /\ read[q].phase = "settled" /\ read[q].result = result
               /\ read[q].startedAt \in Nat /\ read[q].settledAt \in Nat
               /\ call[r].askedAt \in Nat /\ now \in Nat
<1>1. r \in Askers /\ call[r] # NotAsked /\ BillingTypeOK
  BY DEF AnsweredWith, IInv
<1>2. Joined(r, call[r].on) /\ call[r].on \in Askers
  BY <1>1 DEF IInv, Joined
<1> QED BY <1>1, <1>2, Shapes DEF AnsweredWith, Answer, IInv

\* However reads are shared, overtaken, evicted and invalidated, a plan answers
\* at most one cache window after it was replaced, and in an outage at most the
\* stale window, one retry interval and one call (getBillingAccess,
\* loadBillingAccess).
THEOREM PlansAreRecent == BillingSpec => []PlanIsRecent
<1>1. IInv => PlanIsRecent
  <2> SUFFICES ASSUME IInv PROVE PlanIsRecent
    OBVIOUS
  <2>1. ASSUME NEW r \in AnsweredWith("fresh") PROVE Replaced(r) > call[r].askedAt - AccessTtl
    <3> DEFINE q == call[r].on
    <3>1. /\ Joined(r, q) /\ GoodRead(q) /\ BillingTypeOK /\ read[q].phase = "settled"
          /\ read[q].result = "fresh" /\ read[q].startedAt \in Nat /\ call[r].askedAt \in Nat
      BY AnswersAreGood
    <3>2. history[read[q].plan].replacedAt \in Nat
      BY <3>1, Shapes DEF GoodRead
    <3> QED BY <3>1, <3>2, Numbers DEF Replaced, Answer, Joined, GoodRead
  <2>2. ASSUME NEW r \in AnsweredWith("stale")
        PROVE  Replaced(r) > call[r].askedAt - (StaleMax + Retry + MaxCall)
    <3> DEFINE q == call[r].on
    <3>1. /\ Joined(r, q) /\ GoodRead(q) /\ BillingTypeOK /\ read[q].phase = "settled"
          /\ read[q].result = "stale" /\ read[q].settledAt \in Nat /\ call[r].askedAt \in Nat
      BY AnswersAreGood
    <3>2. history[read[q].plan].replacedAt \in Nat
      BY <3>1, Shapes DEF GoodRead
    <3> QED BY <3>1, <3>2, Numbers DEF Replaced, Answer, Joined, GoodRead
  <2> QED BY <2>1, <2>2 DEF PlanIsRecent
<1> QED BY <1>1, Inductive, PTL

\* No request is answered with a plan that had ended, but for one retry interval
\* of an outage (entitlementEndsAt, getBillingAccess).
THEOREM EndedPlansAreOver == BillingSpec => []EndedPlanIsOver
<1>1. IInv => EndedPlanIsOver
  <2> SUFFICES ASSUME IInv PROVE EndedPlanIsOver
    OBVIOUS
  <2>1. ASSUME NEW r \in AnsweredWith("fresh") PROVE EndsAt(Answer(r).plan) > AnsweredAt(r)
    <3> DEFINE q == call[r].on
    <3>1. /\ Joined(r, q) /\ GoodRead(q) /\ BillingTypeOK /\ read[q].phase = "settled"
          /\ read[q].result = "fresh" /\ read[q].settledAt \in Nat /\ call[r].askedAt \in Nat
      BY AnswersAreGood
    <3>2. EndsAt(read[q].plan) \in Nat
      BY <3>1, Shapes DEF GoodRead
    <3> QED BY <3>1, <3>2, Numbers DEF AnsweredAt, Answer, Joined, GoodRead
  <2>2. ASSUME NEW r \in AnsweredWith("stale") PROVE EndsAt(Answer(r).plan) + Retry > AnsweredAt(r)
    <3> DEFINE q == call[r].on
    <3>1. /\ Joined(r, q) /\ GoodRead(q) /\ BillingTypeOK /\ read[q].phase = "settled"
          /\ read[q].result = "stale" /\ read[q].settledAt \in Nat /\ call[r].askedAt \in Nat
      BY AnswersAreGood
    <3>2. EndsAt(read[q].plan) \in Nat
      BY <3>1, Shapes DEF GoodRead
    <3> QED BY <3>1, <3>2, Numbers DEF AnsweredAt, Answer, Joined, GoodRead
  <2> QED BY <2>1, <2>2 DEF EndedPlanIsOver
<1> QED BY <1>1, Inductive, PTL

\* An answer of the service to a request made after an invalidation is never
\* older than it (invalidateBillingAccess against a read in flight).
THEOREM FreshAnswersFollowInvalidations == BillingSpec => []FreshAfterInvalidation
<1>1. IInv => FreshAfterInvalidation
  <2> SUFFICES ASSUME IInv, NEW r \in AnsweredWith("fresh") PROVE Answer(r).plan >= call[r].floor
    BY DEF FreshAfterInvalidation
  <2> QED BY AnswersAreGood DEF Answer, Joined, GoodRead
<1> QED BY <1>1, Inductive, PTL

\* A failing service is asked at most once per retry interval (HeldUntil's entry,
\* getBillingAccess).
THEOREM FailingServiceIsSpared == BillingSpec => AskedOncePerRetry
<1> DEFINE A == \A r \in Askers, q \in lately :
                   Begins(r) /\ Failed(q) => now >= read[q].startedAt + Retry
<1>1. IInv /\ [BillingNext]_billingVars => [A]_billingVars
  <2> SUFFICES ASSUME IInv, BillingNext, NEW r \in Askers, NEW q \in lately, Begins(r), Failed(q)
               PROVE  now >= read[q].startedAt + Retry
    OBVIOUS
  <2>1. BillingTypeOK /\ q \in Askers /\ Held(q)
    BY DEF IInv, BillingTypeOK
  <2>2. ~Unexpired(entry)
    <3>1. ASSUME NEW x \in Askers, Evaluated(x) \/ Returns(x) \/ Fails(x) PROVE FALSE
      BY <2>1, <3>1 DEF Evaluated, Returns, Fails, Settles, Begins, BillingTypeOK
    <3>2. ASSUME InvalidateAccess \/ CrowdOut \/ PlanChanges \/ TimePasses PROVE FALSE
      BY <3>2 DEF InvalidateAccess, CrowdOut, PlanChanges, TimePasses, Begins
    <3>3. PICK x \in Askers : Ask(x)
      BY <3>1, <3>2 DEF BillingNext
    <3> QED BY <3>3 DEF Ask, Begins
  <2> QED BY <2>1, <2>2, Numbers, Shapes, BillingAssumption DEF Held, Unexpired
<1> QED BY <1>1, Inductive, PTL DEF BillingSpec, AskedOncePerRetry
=============================================================================
