-------------------------- MODULE UserLimiterProofs --------------------------
(***************************************************************************)
(* What UserLimiter keeps for every number of calls, every counter window,  *)
(* every calendar and every setting of the limits.                          *)
(***************************************************************************)
EXTENDS UserLimiter, TLAPS

USE DEF NoLimit, NoAssertion, Unanswered

-----------------------------------------------------------------------------
(* The assertion counter *)

\* The row of the counter stays one the code can read back.
LEMMA CounterRecordedType ==
    ASSUME NEW row \in CounterRows, NEW n, CounterUnused(row, n)
    PROVE  CounterRecorded(row, n) \in CounterRows \ {NoCounter}
<1>1. n \in 0..MaxSafeInteger
  BY DEF CounterUnused, SafeCounter
<1>2. CASE row = NoCounter
  BY <1>1, <1>2, CounterAssumption DEF CounterRecorded, CounterRows, NoCounter
<1>3. CASE row # NoCounter
  <2>1. row \in [high: 0..MaxSafeInteger, seen: SUBSET (0..(CounterWindow - 1))]
    BY <1>3 DEF CounterRows
  <2>2. CASE n > row.high
    BY <1>1, <1>3, <2>1, <2>2, CounterAssumption
       DEF CounterRecorded, CounterRows, NoCounter, Shifted
  <2>3. CASE ~(n > row.high)
    <3>1. row.high - n \in 0..(CounterWindow - 1)
      BY <1>1, <1>3, <2>1, <2>3, CounterAssumption DEF CounterUnused
    <3>2. CounterRecorded(row, n) = [high |-> row.high, seen |-> row.seen \union {row.high - n}]
      BY <1>3, <2>1, <2>3 DEF CounterRecorded
    <3> QED BY <2>1, <3>1, <3>2 DEF CounterRows, NoCounter
  <2> QED BY <2>2, <2>3
<1> QED BY <1>2, <1>3

\* A counter the row has used is never taken for an unused one.
LEMMA UsedIsNotUnused ==
    ASSUME NEW row \in CounterRows, NEW n, CounterUsed(row, n)
    PROVE  ~CounterUnused(row, n)
BY CounterAssumption DEF CounterUsed, CounterUnused, CounterRows, NoCounter, SafeCounter

\* Recording a counter uses it up, and leaves every used one used: the shift
\* of the mask loses only counters that fall out of reach.
LEMMA RecordedUses ==
    ASSUME NEW row \in CounterRows, NEW n, CounterUnused(row, n),
           NEW m, m = n \/ CounterUsed(row, m)
    PROVE  CounterUsed(CounterRecorded(row, n), m)
<1>1. n \in 0..MaxSafeInteger /\ m \in 0..MaxSafeInteger
  BY DEF CounterUnused, CounterUsed, SafeCounter
<1>2. CounterRecorded(row, n) # NoCounter
  BY CounterRecordedType
<1>3. CASE row = NoCounter
  BY <1>1, <1>2, <1>3, CounterAssumption DEF CounterUsed, CounterRecorded, SafeCounter
<1>4. CASE row # NoCounter /\ n > row.high
  <2>1. /\ row.high \in 0..MaxSafeInteger
        /\ row.seen \subseteq 0..(CounterWindow - 1)
    BY <1>4 DEF CounterRows
  <2>2. CounterRecorded(row, n) = [high |-> n, seen |-> {0} \union Shifted(row.seen, n - row.high)]
    BY <1>4 DEF CounterRecorded
  <2>3. CASE m = n
    BY <1>1, <1>2, <2>2, <2>3 DEF CounterUsed, SafeCounter
  <2>4. CASE CounterUsed(row, m)
    <3>1. m <= row.high /\ (row.high - m < CounterWindow => (row.high - m) \in row.seen)
      BY <2>4 DEF CounterUsed
    <3>2. ASSUME n - m < CounterWindow
          PROVE  (n - m) \in Shifted(row.seen, n - row.high)
      <4>1. (n - m) - (n - row.high) = row.high - m /\ row.high - m < CounterWindow
        BY <1>1, <1>4, <2>1, <3>1, <3>2, CounterAssumption
      <4>2. n - m \in 0..(CounterWindow - 1)
        BY <1>1, <1>4, <2>1, <3>1, <3>2, CounterAssumption
      <4> QED BY <3>1, <4>1, <4>2 DEF Shifted
    <3> QED BY <1>1, <1>2, <1>4, <2>1, <2>2, <3>1, <3>2 DEF CounterUsed, SafeCounter
  <2> QED BY <2>3, <2>4
<1>5. CASE row # NoCounter /\ ~(n > row.high)
  <2>1. CounterRecorded(row, n) = [row EXCEPT !.seen = @ \union {row.high - n}]
    BY <1>5 DEF CounterRecorded
  <2>2. row = [high |-> row.high, seen |-> row.seen] /\ row.high \in 0..MaxSafeInteger
    BY <1>5 DEF CounterRows
  <2>3. CounterRecorded(row, n) = [high |-> row.high, seen |-> row.seen \union {row.high - n}]
    BY <2>1, <2>2
  <2> QED BY <1>1, <1>2, <1>5, <2>2, <2>3 DEF CounterUsed, SafeCounter
<1> QED BY <1>3, <1>4, <1>5
-----------------------------------------------------------------------------
(* Types *)

\* An instant's window keys are keys of the windows the model counts.
LEMMA WindowKeys ==
    ASSUME NEW now \in Times
    PROVE  /\ MinuteOf(now) \in Minutes /\ MinuteOf(now) \in Nat
           /\ DayOf(now) \in Days /\ DayOf(now) \in Nat
BY WindowAssumption, LimiterAssumption DEF MinuteOf, DayOf, Minutes, Days, Times

\* The keys a request is counted under and the counts standing there.
LEMMA WindowCountsType ==
    ASSUME TypeOK, NEW now \in Times
    PROVE  WindowCounts(windows, now) \in
               [minuteKey: Minutes, minute: Nat, dayKey: Days, day: Nat]
<1>1. /\ Later(windows.minuteKey, MinuteOf(now)) \in Minutes
      /\ Later(windows.dayKey, DayOf(now)) \in Days
  BY WindowKeys DEF TypeOK, Later
<1> QED BY <1>1 DEF WindowCounts, TypeOK

LEMMA RequestedType ==
    ASSUME NEW now \in Times, NEW limits \in Limits, NEW key \in Keys,
           NEW n \in Counters \union {NoAssertion}
    PROVE  /\ Requested(now, limits, key, n) \in CallRecords
           /\ LedgerOf(Requested(now, limits, key, n)) = <<key, MonthOf(now)>>
           /\ LedgerOf(Requested(now, limits, key, n)) \in Ledgers
           /\ Requested(now, limits, key, n).key = key
           /\ Requested(now, limits, key, n).now = now
           /\ Requested(now, limits, key, n).limits = limits
           /\ Requested(now, limits, key, n).assertion = n
<1>1. <<key, MonthOf(now)>> \in Ledgers
  BY DEF Ledgers
<1> QED BY <1>1, LimiterAssumption
        DEF Requested, Uncalled, CallRecords, Phases, Answers, LedgerOf

LEMMA UncalledType == Uncalled \in CallRecords
BY LimiterAssumption DEF Uncalled, CallRecords, Phases, Answers, LimitRecords, Times

\* A call's record as it moves on.
LEMMA CallMoves ==
    ASSUME NEW call \in CallRecords, NEW phase \in Phases, NEW spent \in Nat
    PROVE  /\ [call EXCEPT !.phase = phase] \in CallRecords
           /\ [call EXCEPT !.phase = phase, !.spent = spent] \in CallRecords
BY DEF CallRecords

\* The decision of one call keeps the types of everything it writes.
LEMMA DecidedType ==
    ASSUME TypeOK, NEW c \in Calls, NEW call \in CallRecords, Decided(c, call)
    PROVE  /\ windows' \in [minuteKey: Minutes \union {-1}, minute: Nat,
                             dayKey: Days \union {-1}, day: Nat]
           /\ minuteAdmitted' \in [Minutes -> Nat]
           /\ dayAdmitted' \in [Days -> Nat]
           /\ calls' \in [Calls -> CallRecords]
<1> DEFINE counts == WindowCounts(windows, call.now)
<1>0. call.now \in Times
  BY DEF CallRecords
<1>1. counts \in [minuteKey: Minutes, minute: Nat, dayKey: Days, day: Nat]
  BY <1>0, WindowCountsType
<1> HIDE DEF counts
<1>2. CASE Refusal(call) = "none"
  <2>1. /\ windows' = BumpWindows(counts)
        /\ minuteAdmitted' = [minuteAdmitted EXCEPT ![counts.minuteKey] = @ + 1]
        /\ dayAdmitted' = [dayAdmitted EXCEPT ![counts.dayKey] = @ + 1]
        /\ calls' = [calls EXCEPT ![c] = [call EXCEPT !.phase = "allowed"]]
    BY <1>2 DEF Decided, counts
  <2>2. [call EXCEPT !.phase = "allowed"] \in CallRecords
    BY DEF CallRecords, Phases, Answers
  <2>3. BumpWindows(counts) \in [minuteKey: Minutes, minute: Nat, dayKey: Days, day: Nat]
    BY <1>1 DEF BumpWindows
  <2>4. /\ minuteAdmitted' \in [Minutes -> Nat]
        /\ dayAdmitted' \in [Days -> Nat]
    BY <1>1, <2>1 DEF TypeOK
  <2> QED BY <2>1, <2>2, <2>3, <2>4 DEF TypeOK
<1>3. CASE Refusal(call) # "none"
  <2>1. /\ UNCHANGED admissions
        /\ calls' = [calls EXCEPT ![c] = [call EXCEPT !.phase = Refusal(call)]]
    BY <1>3 DEF Decided
  <2>2. [call EXCEPT !.phase = Refusal(call)] \in CallRecords
    BY <1>3 DEF CallRecords, Phases, Answers, Refusal
  <2> QED BY <2>1, <2>2 DEF TypeOK, admissions
<1> QED BY <1>2, <1>3

\* The counter of a call that gets past it stays a row of the counter.
LEMMA UseCounterType ==
    ASSUME TypeOK, NEW n \in Counters \union {NoAssertion}, CounterPasses(n), UseCounter(n)
    PROVE  counter' \in CounterRows
BY CounterRecordedType DEF TypeOK, UseCounter, CounterPasses

LEMMA RememberedType ==
    ASSUME TypeOK, NEW l \in Ledgers, reads[l] # NoRead, reads[l].answer # Unanswered
    PROVE  Remembered(l) \in [Ledgers -> Figures]
<1>1. [microusd |-> reads[l].answer, readAt |-> reads[l].readAt] \in Figures
  BY DEF TypeOK, Reads, Figures
<1>2. [k \in Ledgers |-> NoFigure] \in [Ledgers -> Figures]
  BY DEF Figures
<1> QED BY <1>1, <1>2 DEF Remembered, TypeOK

\* A call that fails, with a read or with the memory, stays a call.
LEMMA FailedType ==
    ASSUME TypeOK
    PROVE  /\ \A c \in Calls : calls[c] \in CallRecords
           /\ \A c \in Calls : [calls[c] EXCEPT !.phase = "failed"] \in CallRecords
<1>1. \A c \in Calls : calls[c] \in CallRecords
  BY DEF TypeOK
<1> QED BY <1>1 DEF CallRecords, Phases, Answers

LEMMA InitType == Init => TypeOK
BY LimiterAssumption, CounterAssumption
   DEF Init, TypeOK, Times, NoWindows, CounterRows, Figures, Reads, Uncalled,
       CallRecords, Phases, Answers, LimitRecords

LEMMA NextType == TypeOK /\ [Next]_vars => TypeOK'
<1> SUFFICES ASSUME TypeOK, [Next]_vars PROVE TypeOK'
  OBVIOUS
<1> USE DEF memory, admissions
<1>1. ASSUME NEW c \in Calls, Check(c) PROVE TypeOK'
  <2> PICK now \in Times, limits \in Limits, key \in Keys,
           n \in Counters \union {NoAssertion} :
        \/ CheckReplayed(c, now, limits, key, n)
        \/ CheckUnbudgeted(c, now, limits, key, n)
        \/ CheckCached(c, now, limits, key, n)
        \/ CheckReading(c, now, limits, key, n)
    BY <1>1 DEF Check
  <2> DEFINE call == Requested(now, limits, key, n)
  <2>0. call \in CallRecords /\ LedgerOf(call) \in Ledgers
    BY RequestedType
  <2> HIDE DEF call
  <2>1. CASE CheckReplayed(c, now, limits, key, n)
    <3>1. [call EXCEPT !.phase = "replay"] \in CallRecords
      BY <2>0 DEF CallRecords, Phases, Answers
    <3> QED BY <2>1, <3>1 DEF CheckReplayed, TypeOK, call
  <2>2. CASE CheckUnbudgeted(c, now, limits, key, n)
    <3>1. counter' \in CounterRows
      BY <2>2, UseCounterType DEF CheckUnbudgeted
    <3>2. Decided(c, call)
      BY <2>2 DEF CheckUnbudgeted, call
    <3> QED BY <2>0, <2>2, <3>1, <3>2, DecidedType DEF CheckUnbudgeted, TypeOK
  <2>3. CASE CheckCached(c, now, limits, key, n)
    <3>1. counter' \in CounterRows
      BY <2>3, UseCounterType DEF CheckCached
    <3>2. [call EXCEPT !.phase = "ready", !.spent = spend[LedgerOf(call)].microusd] \in CallRecords
        <4>1. spend[LedgerOf(call)].microusd \in Nat
      BY <2>0 DEF TypeOK, Figures, NoFigure
      <4> QED BY <2>0, <4>1, CallMoves DEF Phases
    <3> QED BY <2>3, <3>1, <3>2 DEF CheckCached, TypeOK, call
  <2>4. CASE CheckReading(c, now, limits, key, n)
    <3>1. counter' \in CounterRows
      BY <2>4, UseCounterType DEF CheckReading
    <3>2. [call EXCEPT !.phase = "reading"] \in CallRecords
      BY <2>0 DEF CallRecords, Phases
    <3>3. [readAt |-> now, startedAt |-> clock, answer |-> Unanswered] \in Reads
      BY DEF TypeOK, Reads
    <3> QED BY <2>0, <2>4, <3>1, <3>2, <3>3 DEF CheckReading, TypeOK, call
  <2> QED BY <2>1, <2>2, <2>3, <2>4
<1>2. ASSUME NEW c \in Calls, Decide(c) PROVE TypeOK'
  <2>1. calls[c] \in CallRecords
    BY DEF TypeOK
  <2> QED BY <1>2, <2>1, DecidedType DEF Decide, TypeOK
<1>3. ASSUME NEW c \in Calls, AdvanceCounter(c) PROVE TypeOK'
  <2> PICK n \in Counters :
        /\ calls' = [calls EXCEPT ![c] = [Uncalled EXCEPT
             !.phase = IF CounterUnused(counter, n) THEN "accepted" ELSE "replay",
             !.assertion = n]]
        /\ counter' = IF CounterUnused(counter, n) THEN CounterRecorded(counter, n) ELSE counter
        /\ UNCHANGED <<clock, memory, billed, admissions>>
    BY <1>3, Zenon DEF AdvanceCounter
  <2>1. [Uncalled EXCEPT !.phase = IF CounterUnused(counter, n) THEN "accepted" ELSE "replay",
                         !.assertion = n] \in CallRecords
    <3> DEFINE phase == IF CounterUnused(counter, n) THEN "accepted" ELSE "replay"
    <3>1. phase \in Phases
      BY DEF Phases, Answers
    <3> HIDE DEF phase
    <3>2. [Uncalled EXCEPT !.phase = phase, !.assertion = n] \in CallRecords
      BY <3>1, UncalledType DEF CallRecords
    <3> QED BY <3>2 DEF phase
  <2>2. counter' \in CounterRows
    BY CounterRecordedType DEF TypeOK
  <2> QED BY <2>1, <2>2 DEF TypeOK
<1>4. ASSUME NEW l \in Ledgers, ReadAnswered(l) PROVE TypeOK'
  <2>1. billed[l][clock] \in Nat
    BY DEF TypeOK
  <2>2. [reads[l] EXCEPT !.answer = billed[l][clock]] \in Reads
    BY <1>4, <2>1 DEF ReadAnswered, TypeOK, Reads
  <2> QED BY <1>4, <2>2 DEF ReadAnswered, TypeOK
<1>5. ASSUME NEW l \in Ledgers, ReadReturns(l) PROVE TypeOK'
  <2>1. spend' \in [Ledgers -> Figures]
    BY <1>5, RememberedType DEF ReadReturns
  <2>2. reads[l].answer \in Nat
    BY <1>5 DEF ReadReturns, TypeOK, Reads
  <2>3. \A c \in Calls : calls[c] \in CallRecords
    BY DEF TypeOK
  <2>4. \A c \in Calls : [calls[c] EXCEPT !.phase = "ready", !.spent = reads[l].answer] \in CallRecords
    BY <2>2, <2>3 DEF CallRecords, Phases, Answers
  <2>5. calls' = [c \in Calls |-> IF Waiting(c, l)
                     THEN [calls[c] EXCEPT !.phase = "ready", !.spent = reads[l].answer]
                     ELSE calls[c]]
    BY <1>5 DEF ReadReturns
  <2>6. calls' \in [Calls -> CallRecords]
    BY <2>3, <2>4, <2>5
  <2>7. reads' \in [Ledgers -> Reads]
    BY <1>5 DEF ReadReturns, TypeOK, Reads
  <2> QED BY <1>5, <2>1, <2>6, <2>7 DEF ReadReturns, TypeOK
<1>6. ASSUME NEW l \in Ledgers, ReadFails(l) PROVE TypeOK'
  <2>1. /\ \A c \in Calls : calls[c] \in CallRecords
        /\ \A c \in Calls : [calls[c] EXCEPT !.phase = "failed"] \in CallRecords
    BY FailedType
  <2>2. calls' \in [Calls -> CallRecords]
    BY <1>6, <2>1 DEF ReadFails
  <2>3. reads' \in [Ledgers -> Reads]
    BY <1>6 DEF ReadFails, TypeOK, Reads
  <2> QED BY <1>6, <2>2, <2>3 DEF ReadFails, TypeOK
<1>7. CASE Evict
  <2>1. /\ \A c \in Calls : calls[c] \in CallRecords
        /\ \A c \in Calls : [calls[c] EXCEPT !.phase = "failed"] \in CallRecords
    BY FailedType
  <2>2. calls' \in [Calls -> CallRecords]
    BY <1>7, <2>1 DEF Evict
  <2>3. reads' \in [Ledgers -> Reads] /\ spend' \in [Ledgers -> Figures]
    BY <1>7 DEF Evict, Reads, Figures
  <2> QED BY <1>7, <2>2, <2>3 DEF Evict, TypeOK
<1>8. ASSUME NEW k \in Keys, Settle(k) PROVE TypeOK'
  <2> DEFINE l == <<k, MonthOf(clock)>>
  <2>1. l \in Ledgers
    BY DEF TypeOK, Ledgers
  <2> HIDE DEF l
  <2>2. billed' = [billed EXCEPT ![l] =
                     [t \in Times |-> IF t >= clock THEN @[t] + 1 ELSE @[t]]]
    BY <1>8 DEF Settle, l
  <2>3. billed' \in [Ledgers -> [Times -> Nat]]
    BY <2>1, <2>2 DEF TypeOK
  <2> QED BY <1>8, <2>3 DEF Settle, TypeOK
<1>9. CASE Tick
  BY <1>9, LimiterAssumption DEF Tick, TypeOK, Times
<1>10. CASE UNCHANGED vars
  BY <1>10 DEF vars, TypeOK
<1> QED BY <1>1, <1>2, <1>3, <1>4, <1>5, <1>6, <1>7, <1>8, <1>9, <1>10 DEF Next

\* Type correctness, for every value of the constants.
THEOREM TypeCorrect == Spec => []TypeOK
BY InitType, NextType, PTL DEF Spec
-----------------------------------------------------------------------------
(* Each counter once *)

\* The strengthening: whatever a call got past the counter with, the row
\* still holds as used.
CounterInv ==
    /\ \A c \in Calls : PastCounter(c) => CounterUsed(counter, calls[c].assertion)
    /\ AssertionAcceptedOnce

\* A call that got past the counter with n: the row uses n from then on, and
\* every other call keeps what it had.
LEMMA CounterStep ==
    ASSUME TypeOK, CounterInv, NEW c \in Calls, NEW n \in Counters,
           ~PastCounter(c), CounterUnused(counter, n),
           counter' = CounterRecorded(counter, n),
           \A d \in Calls : d # c =>
               /\ PastCounter(d)' => PastCounter(d)
               /\ calls'[d].assertion = calls[d].assertion,
           calls'[c].assertion = n
    PROVE  CounterInv'
<1>0. counter \in CounterRows
  BY DEF TypeOK
<1>1. ASSUME NEW d \in Calls, PastCounter(d)'
      PROVE  CounterUsed(counter', calls'[d].assertion)
  <2>1. CASE d = c
    BY <1>0, <2>1, RecordedUses
  <2>2. CASE d # c
    BY <1>0, <1>1, <2>2, RecordedUses DEF CounterInv
  <2> QED BY <2>1, <2>2
<1>2. ASSUME NEW d \in Calls, d # c, PastCounter(d)'
      PROVE  calls'[d].assertion # n
  BY <1>0, <1>2, UsedIsNotUnused DEF CounterInv
<1>3. AssertionAcceptedOnce'
  BY <1>2 DEF CounterInv, AssertionAcceptedOnce
<1> QED BY <1>1, <1>3 DEF CounterInv

\* A step in which nobody gets past the counter.
LEMMA CounterIdle ==
    ASSUME CounterInv, counter' = counter,
           \A d \in Calls : PastCounter(d)' =>
               /\ PastCounter(d)
               /\ calls'[d].assertion = calls[d].assertion
    PROVE  CounterInv'
BY DEF CounterInv, AssertionAcceptedOnce

\* What a decision leaves of a call.
LEMMA DecidedCall ==
    ASSUME TypeOK, NEW c \in Calls, NEW call \in CallRecords, Decided(c, call)
    PROVE  /\ calls'[c].assertion = call.assertion
           /\ calls'[c].now = call.now
           /\ calls'[c].limits = call.limits
           /\ calls'[c].key = call.key
           /\ calls'[c].spent = call.spent
           /\ calls'[c].phase \in {"allowed", "rate", "budget"}
           /\ \A d \in Calls : d # c => calls'[d] = calls[d]
<1>1. PICK p \in {"allowed", "rate", "budget"} : calls' = [calls EXCEPT ![c] = [call EXCEPT !.phase = p]]
  BY DEF Decided, Refusal
<1> QED BY <1>1 DEF TypeOK, CallRecords

LEMMA CounterInit == Init => CounterInv
BY DEF Init, Uncalled, CounterInv, AssertionAcceptedOnce, PastCounter

LEMMA CounterNext == TypeOK /\ CounterInv /\ [Next]_vars => CounterInv'
<1> SUFFICES ASSUME TypeOK, CounterInv, [Next]_vars PROVE CounterInv'
  OBVIOUS
<1>1. ASSUME NEW c \in Calls, Check(c) PROVE CounterInv'
  <2> PICK now \in Times, limits \in Limits, key \in Keys,
           n \in Counters \union {NoAssertion} :
        \/ CheckReplayed(c, now, limits, key, n)
        \/ CheckUnbudgeted(c, now, limits, key, n)
        \/ CheckCached(c, now, limits, key, n)
        \/ CheckReading(c, now, limits, key, n)
    BY <1>1 DEF Check
  <2> DEFINE call == Requested(now, limits, key, n)
  <2>0. call \in CallRecords /\ call.assertion = n
    BY RequestedType
  <2> HIDE DEF call
  <2>1. CASE CheckReplayed(c, now, limits, key, n)
    <3>1. calls' = [calls EXCEPT ![c] = [call EXCEPT !.phase = "replay"]]
      BY <2>1 DEF CheckReplayed, call
    <3>2. ~PastCounter(c)' /\ \A d \in Calls : d # c => calls'[d] = calls[d]
      BY <2>0, <3>1 DEF TypeOK, PastCounter, CallRecords
    <3>3. counter' = counter
      BY <2>1 DEF CheckReplayed
    <3> QED BY <3>2, <3>3, CounterIdle DEF PastCounter
  <2>2. ASSUME ~PastCounter(c), CounterPasses(n), UseCounter(n), calls'[c].assertion = n,
               \A d \in Calls : d # c => calls'[d] = calls[d]
        PROVE  CounterInv'
    <3>1. CASE n = NoAssertion
      BY <2>2, <3>1, CounterIdle DEF UseCounter, PastCounter
    <3>2. CASE n # NoAssertion
      <4>1. CounterUnused(counter, n) /\ counter' = CounterRecorded(counter, n)
        BY <2>2, <3>2 DEF UseCounter, CounterPasses
      <4>2. n \in Counters
        BY <3>2
      <4> QED BY <2>2, <4>1, <4>2, CounterStep DEF PastCounter
    <3> QED BY <3>1, <3>2
  <2>3. ASSUME CheckUnbudgeted(c, now, limits, key, n) PROVE CounterInv'
    <3>1. Decided(c, call)
      BY <2>3 DEF CheckUnbudgeted, call
    <3> QED BY <2>0, <2>2, <2>3, <3>1, DecidedCall DEF CheckUnbudgeted, Caller, PastCounter
  <2>4. ASSUME CheckCached(c, now, limits, key, n) PROVE CounterInv'
    <3>1. calls' = [calls EXCEPT ![c] =
             [call EXCEPT !.phase = "ready", !.spent = spend[LedgerOf(call)].microusd]]
      BY <2>4 DEF CheckCached, call
    <3>2. calls'[c].assertion = n /\ \A d \in Calls : d # c => calls'[d] = calls[d]
      BY <2>0, <3>1 DEF TypeOK, CallRecords
    <3> QED BY <2>2, <2>4, <3>2 DEF CheckCached, Caller, PastCounter
  <2>5. ASSUME CheckReading(c, now, limits, key, n) PROVE CounterInv'
    <3>1. calls' = [calls EXCEPT ![c] = [call EXCEPT !.phase = "reading"]]
      BY <2>5 DEF CheckReading, call
    <3>2. calls'[c].assertion = n /\ \A d \in Calls : d # c => calls'[d] = calls[d]
      BY <2>0, <3>1 DEF TypeOK, CallRecords
    <3> QED BY <2>2, <2>5, <3>2 DEF CheckReading, Caller, PastCounter
  <2> QED BY <2>1, <2>3, <2>4, <2>5
<1>2. ASSUME NEW c \in Calls, Decide(c) PROVE CounterInv'
  <2>1. calls[c] \in CallRecords /\ calls[c].phase = "ready" /\ Decided(c, calls[c])
    BY <1>2 DEF TypeOK, Decide
  <2>2. /\ calls'[c].assertion = calls[c].assertion
        /\ \A d \in Calls : d # c => calls'[d] = calls[d]
    BY <2>1, DecidedCall
  <2> QED BY <1>2, <2>1, <2>2, CounterIdle DEF Decide, PastCounter
<1>3. ASSUME NEW c \in Calls, AdvanceCounter(c) PROVE CounterInv'
  <2> PICK n \in Counters :
        /\ calls[c].phase = "uncalled"
        /\ calls' = [calls EXCEPT ![c] = [Uncalled EXCEPT
             !.phase = IF CounterUnused(counter, n) THEN "accepted" ELSE "replay",
             !.assertion = n]]
        /\ counter' = IF CounterUnused(counter, n) THEN CounterRecorded(counter, n) ELSE counter
    BY <1>3, Zenon DEF AdvanceCounter
  <2>1. /\ calls'[c].assertion = n
        /\ calls'[c].phase = IF CounterUnused(counter, n) THEN "accepted" ELSE "replay"
        /\ \A d \in Calls : d # c => calls'[d] = calls[d]
    BY UncalledType DEF TypeOK, CallRecords
  <2>2. CASE CounterUnused(counter, n)
    BY <2>1, <2>2, CounterStep DEF PastCounter
  <2>3. CASE ~CounterUnused(counter, n)
    BY <2>1, <2>3, CounterIdle DEF PastCounter
  <2> QED BY <2>2, <2>3
<1>4. ASSUME NEW l \in Ledgers, ReadAnswered(l) PROVE CounterInv'
  BY <1>4, CounterIdle DEF ReadAnswered, PastCounter
<1>5. ASSUME NEW l \in Ledgers, ReadReturns(l) PROVE CounterInv'
  <2>1. \A d \in Calls : PastCounter(d)' =>
           PastCounter(d) /\ calls'[d].assertion = calls[d].assertion
    BY <1>5, ZenonT(30) DEF ReadReturns, Waiting, PastCounter, TypeOK, CallRecords
  <2> QED BY <1>5, <2>1, CounterIdle DEF ReadReturns
<1>6. ASSUME NEW l \in Ledgers, ReadFails(l) PROVE CounterInv'
  <2>1. \A d \in Calls : PastCounter(d)' =>
           PastCounter(d) /\ calls'[d].assertion = calls[d].assertion
    BY <1>6 DEF ReadFails, Waiting, PastCounter, TypeOK, CallRecords
  <2> QED BY <1>6, <2>1, CounterIdle DEF ReadFails
<1>7. CASE Evict
  <2>1. \A d \in Calls : PastCounter(d)' =>
           PastCounter(d) /\ calls'[d].assertion = calls[d].assertion
    BY <1>7 DEF Evict, PastCounter, TypeOK, CallRecords
  <2> QED BY <1>7, <2>1, CounterIdle DEF Evict
<1>8. ASSUME NEW k \in Keys, Settle(k) PROVE CounterInv'
  BY <1>8, CounterIdle DEF Settle, PastCounter
<1>9. CASE Tick
  BY <1>9, CounterIdle DEF Tick, PastCounter
<1>10. CASE UNCHANGED vars
  BY <1>10, CounterIdle DEF vars, PastCounter
<1> QED BY <1>1, <1>2, <1>3, <1>4, <1>5, <1>6, <1>7, <1>8, <1>9, <1>10 DEF Next

\* No counter is accepted twice, for any window and any set of calls.
THEOREM CounterOnce == Spec => []AssertionAcceptedOnce
<1>1. CounterInv => AssertionAcceptedOnce
  BY DEF CounterInv
<1> QED BY <1>1, InitType, NextType, CounterInit, CounterNext, PTL DEF Spec
-----------------------------------------------------------------------------
(* Windows *)

\* The strengthening: no window ahead of the row's has admitted anything.
WindowsInv ==
    /\ WindowsExact
    /\ \A m \in Minutes : m > windows.minuteKey => minuteAdmitted[m] = 0
    /\ \A d \in Days : d > windows.dayKey => dayAdmitted[d] = 0

\* The counts a call is judged by are all that its windows ever admitted.
LEMMA CountsExact ==
    ASSUME TypeOK, WindowsInv, NEW now \in Times
    PROVE  LET counts == WindowCounts(windows, now) IN
           /\ counts.minute = minuteAdmitted[counts.minuteKey]
           /\ counts.day = dayAdmitted[counts.dayKey]
           /\ counts.minuteKey >= windows.minuteKey
           /\ counts.dayKey >= windows.dayKey
<1>1. /\ MinuteOf(now) \in Minutes /\ MinuteOf(now) \in Nat
      /\ DayOf(now) \in Days /\ DayOf(now) \in Nat
      /\ Minutes \subseteq Nat /\ Days \subseteq Nat
  BY WindowKeys DEF Minutes, Days
<1> DEFINE minuteKey == Later(windows.minuteKey, MinuteOf(now))
           dayKey == Later(windows.dayKey, DayOf(now))
<1>2. /\ windows.minuteKey \in Minutes \union {-1} /\ windows.dayKey \in Days \union {-1}
      /\ minuteAdmitted \in [Minutes -> Nat] /\ dayAdmitted \in [Days -> Nat]
  BY DEF TypeOK
<1>3. windows.minuteKey \in Int /\ windows.dayKey \in Int
  <2>1. \A m \in Minutes : m \in Int
    BY <1>1
  <2>2. \A d \in Days : d \in Int
    BY <1>1
  <2> QED BY <1>2, <2>1, <2>2
<1>4. /\ minuteKey \in Minutes /\ minuteKey \in Nat /\ minuteKey >= windows.minuteKey
      /\ dayKey \in Days /\ dayKey \in Nat /\ dayKey >= windows.dayKey
  BY <1>1, <1>2, <1>3 DEF Later
<1> HIDE DEF minuteKey, dayKey
<1>5. /\ windows.minuteKey # -1 => windows.minute = minuteAdmitted[windows.minuteKey]
      /\ minuteKey > windows.minuteKey => minuteAdmitted[minuteKey] = 0
      /\ windows.dayKey # -1 => windows.day = dayAdmitted[windows.dayKey]
      /\ dayKey > windows.dayKey => dayAdmitted[dayKey] = 0
  BY <1>4 DEF WindowsInv, WindowsExact
<1>6. (IF windows.minuteKey = minuteKey THEN windows.minute ELSE 0) = minuteAdmitted[minuteKey]
  BY <1>3, <1>4, <1>5
<1>7. (IF windows.dayKey = dayKey THEN windows.day ELSE 0) = dayAdmitted[dayKey]
  BY <1>3, <1>4, <1>5
<1> QED BY <1>4, <1>6, <1>7 DEF WindowCounts, minuteKey, dayKey

\* A decision keeps the counts exact, and admits only below the limits.
LEMMA DecidedWindows ==
    ASSUME TypeOK, WindowsInv, NEW c \in Calls, NEW call \in CallRecords, Decided(c, call)
    PROVE  /\ WindowsInv'
           /\ calls'[c].phase = "allowed" =>
                /\ ~Exceeded(minuteAdmitted[windows'.minuteKey], call.limits.rpm)
                /\ ~Exceeded(dayAdmitted[windows'.dayKey], call.limits.rpd)
                /\ ~Exceeded(call.spent, call.limits.budget)
           /\ calls'[c].phase = "budget" => Exceeded(call.spent, call.limits.budget)
<1> DEFINE counts == WindowCounts(windows, call.now)
<1>1. call.now \in Times
  BY DEF CallRecords
<1>2. /\ counts \in [minuteKey: Minutes, minute: Nat, dayKey: Days, day: Nat]
      /\ counts.minute = minuteAdmitted[counts.minuteKey]
      /\ counts.day = dayAdmitted[counts.dayKey]
      /\ counts.minuteKey >= windows.minuteKey
      /\ counts.dayKey >= windows.dayKey
  BY <1>1, WindowCountsType, CountsExact
<1>3. /\ Minutes \subseteq Nat /\ Days \subseteq Nat
  BY WindowKeys DEF Minutes, Days
<1>4. Refusal(call) = "none" =>
         /\ ~Exceeded(counts.minute, call.limits.rpm)
         /\ ~Exceeded(counts.day, call.limits.rpd)
         /\ ~Exceeded(call.spent, call.limits.budget)
  BY DEF Refusal
<1>5. Refusal(call) = "budget" => Exceeded(call.spent, call.limits.budget)
  BY DEF Refusal
<1>6. Refusal(call) # "allowed"
  BY DEF Refusal
<1>7. \/ /\ Refusal(call) = "none"
         /\ windows' = BumpWindows(counts)
         /\ minuteAdmitted' = [minuteAdmitted EXCEPT ![counts.minuteKey] = @ + 1]
         /\ dayAdmitted' = [dayAdmitted EXCEPT ![counts.dayKey] = @ + 1]
         /\ calls' = [calls EXCEPT ![c] = [call EXCEPT !.phase = "allowed"]]
      \/ /\ Refusal(call) # "none"
         /\ calls' = [calls EXCEPT ![c] = [call EXCEPT !.phase = Refusal(call)]]
         /\ UNCHANGED admissions
  BY DEF Decided
<1> HIDE DEF counts
<1>8. CASE Refusal(call) = "none"
  <2>1. calls'[c].phase = "allowed"
    BY <1>7, <1>8 DEF TypeOK, CallRecords
  <2>2. /\ windows'.minuteKey = counts.minuteKey /\ windows'.minute = counts.minute + 1
        /\ windows'.dayKey = counts.dayKey /\ windows'.day = counts.day + 1
    BY <1>7, <1>8 DEF BumpWindows
  <2>3. /\ windows.minuteKey \in Minutes \union {-1} /\ windows.dayKey \in Days \union {-1}
        /\ minuteAdmitted \in [Minutes -> Nat] /\ dayAdmitted \in [Days -> Nat]
    BY DEF TypeOK
  <2>4. /\ windows'.minute = minuteAdmitted'[windows'.minuteKey]
        /\ \A m \in Minutes : m > windows'.minuteKey => minuteAdmitted'[m] = 0
    BY <1>2, <1>3, <1>7, <1>8, <2>2, <2>3 DEF WindowsInv
  <2>5. /\ windows'.day = dayAdmitted'[windows'.dayKey]
        /\ \A d \in Days : d > windows'.dayKey => dayAdmitted'[d] = 0
    BY <1>2, <1>3, <1>7, <1>8, <2>2, <2>3 DEF WindowsInv
  <2>6. WindowsInv'
    BY <2>4, <2>5 DEF WindowsInv, WindowsExact
  <2> QED BY <1>2, <1>4, <1>8, <2>1, <2>2, <2>6
<1>9. CASE Refusal(call) # "none"
  <2>1. calls'[c].phase = Refusal(call)
    BY <1>7, <1>9 DEF TypeOK, CallRecords
  <2>2. WindowsInv'
    BY <1>7, <1>9 DEF WindowsInv, WindowsExact, admissions
  <2> QED BY <1>5, <1>6, <2>1, <2>2
<1> QED BY <1>8, <1>9

\* Every step either decides one call, on a figure if it has a budget, or
\* admits nobody and leaves the windows alone.
LEMMA AdmissionSteps ==
    ASSUME TypeOK, [Next]_vars
    PROVE  \/ \E c \in Calls, call \in CallRecords :
                /\ Decided(c, call)
                /\ call.limits.budget = NoLimit \/ (call = calls[c] /\ calls[c].phase = "ready")
           \/ /\ UNCHANGED admissions
              /\ \A c \in Calls : ~Admits(c)
<1> USE DEF TypeOK, CallRecords, Admits
<1>1. ASSUME NEW c \in Calls, Check(c)
      PROVE  \/ \E call \in CallRecords : Decided(c, call) /\ call.limits.budget = NoLimit
             \/ UNCHANGED admissions /\ \A d \in Calls : ~Admits(d)
  <2> PICK now \in Times, limits \in Limits, key \in Keys,
           n \in Counters \union {NoAssertion} :
        \/ CheckReplayed(c, now, limits, key, n)
        \/ CheckUnbudgeted(c, now, limits, key, n)
        \/ CheckCached(c, now, limits, key, n)
        \/ CheckReading(c, now, limits, key, n)
    BY <1>1 DEF Check
  <2> DEFINE call == Requested(now, limits, key, n)
  <2>0. call \in CallRecords /\ call.limits = limits
    BY RequestedType
  <2> HIDE DEF call
  <2>1. CASE CheckUnbudgeted(c, now, limits, key, n)
    BY <2>0, <2>1 DEF CheckUnbudgeted, call
  <2>2. CASE CheckReplayed(c, now, limits, key, n)
    <3>1. calls' = [calls EXCEPT ![c] = [call EXCEPT !.phase = "replay"]]
      BY <2>2 DEF CheckReplayed, call
    <3> QED BY <2>0, <2>2, <3>1 DEF CheckReplayed
  <2>3. CASE CheckCached(c, now, limits, key, n)
    <3>1. calls' = [calls EXCEPT ![c] =
             [call EXCEPT !.phase = "ready", !.spent = spend[LedgerOf(call)].microusd]]
      BY <2>3 DEF CheckCached, call
    <3> QED BY <2>0, <2>3, <3>1 DEF CheckCached
  <2>4. CASE CheckReading(c, now, limits, key, n)
    <3>1. calls' = [calls EXCEPT ![c] = [call EXCEPT !.phase = "reading"]]
      BY <2>4 DEF CheckReading, call
    <3> QED BY <2>0, <2>4, <3>1 DEF CheckReading
  <2> QED BY <2>1, <2>2, <2>3, <2>4
<1>2. ASSUME NEW c \in Calls, Decide(c)
      PROVE  Decided(c, calls[c]) /\ calls[c].phase = "ready" /\ calls[c] \in CallRecords
  BY <1>2 DEF Decide
<1>3. ASSUME NEW c \in Calls, AdvanceCounter(c)
      PROVE  UNCHANGED admissions /\ \A d \in Calls : ~Admits(d)
  <2> PICK n \in Counters :
        /\ calls' = [calls EXCEPT ![c] = [Uncalled EXCEPT
             !.phase = IF CounterUnused(counter, n) THEN "accepted" ELSE "replay",
             !.assertion = n]]
        /\ UNCHANGED admissions
    BY <1>3, Zenon DEF AdvanceCounter
  <2> QED BY UncalledType
<1>4. ASSUME NEW l \in Ledgers, ReadAnswered(l) \/ ReadReturns(l) \/ ReadFails(l)
      PROVE  UNCHANGED admissions /\ \A d \in Calls : ~Admits(d)
  <2>1. CASE ReadAnswered(l)
    BY <2>1 DEF ReadAnswered
  <2>2. CASE ReadReturns(l)
    BY <2>2 DEF ReadReturns
  <2>3. CASE ReadFails(l)
    BY <2>3 DEF ReadFails
  <2> QED BY <1>4, <2>1, <2>2, <2>3
<1>5. ASSUME Evict \/ Tick \/ (\E k \in Keys : Settle(k)) \/ UNCHANGED vars
      PROVE  UNCHANGED admissions /\ \A d \in Calls : ~Admits(d)
  <2>1. CASE Evict
    BY <2>1 DEF Evict
  <2>2. CASE Tick \/ (\E k \in Keys : Settle(k)) \/ UNCHANGED vars
    BY <2>2 DEF Tick, Settle, vars, admissions
  <2> QED BY <1>5, <2>1, <2>2
<1> QED BY <1>1, <1>2, <1>3, <1>4, <1>5 DEF Next

LEMMA WindowsInit == Init => WindowsInv
BY DEF Init, NoWindows, WindowsInv, WindowsExact

LEMMA WindowsNext == TypeOK /\ WindowsInv /\ [Next]_vars => WindowsInv'
<1> SUFFICES ASSUME TypeOK, WindowsInv, [Next]_vars PROVE WindowsInv'
  OBVIOUS
<1>1. ASSUME UNCHANGED admissions PROVE WindowsInv'
  BY <1>1 DEF WindowsInv, WindowsExact, admissions
<1> QED BY <1>1, AdmissionSteps, DecidedWindows

LEMMA WithinLimits == TypeOK /\ WindowsInv /\ [Next]_vars => AdmittedWithinLimits
<1> SUFFICES ASSUME TypeOK, WindowsInv, [Next]_vars, NEW d \in Calls, Admits(d)
             PROVE  /\ ~Exceeded(minuteAdmitted[windows'.minuteKey], calls'[d].limits.rpm)
                    /\ ~Exceeded(dayAdmitted[windows'.dayKey], calls'[d].limits.rpd)
  BY DEF AdmittedWithinLimits
<1>1. PICK c \in Calls, call \in CallRecords : Decided(c, call)
  BY AdmissionSteps
<1>2. d = c
  BY <1>1, DecidedCall DEF Admits
<1> QED BY <1>1, <1>2, DecidedWindows, DecidedCall DEF Admits

\* Nothing refused has spent a token of a window, and none was lost.
THEOREM CountsAreAdmissions == Spec => []WindowsExact
<1>1. WindowsInv => WindowsExact
  BY DEF WindowsInv
<1> QED BY <1>1, InitType, NextType, WindowsInit, WindowsNext, PTL DEF Spec

\* No window is overshot, whatever the limits, the lag and the interleaving.
THEOREM LimitsHold == Spec => NeverOvershot
<1>1. TypeOK /\ WindowsInv /\ [Next]_vars => [AdmittedWithinLimits]_vars
  BY WithinLimits
<1> QED BY <1>1, InitType, NextType, WindowsInit, WindowsNext, PTL DEF Spec, NeverOvershot
-----------------------------------------------------------------------------
(* Budgets *)

\* `figure` is no more than the ledger has come to, and no less than it had
\* come to by every instant before `since`.
Between(figure, l, since) ==
    /\ figure <= billed[l][clock]
    /\ \A t \in Times : t < since => billed[l][t] <= figure

\* A ledger only grows.
BilledInv ==
    \A l \in Ledgers : \A s, t \in Times : s <= t => billed[l][s] <= billed[l][t]

\* A remembered figure is as recent as the call that read it.
FiguresInv ==
    \A l \in Ledgers : spend[l] # NoFigure =>
        spend[l].readAt <= clock /\ Between(spend[l].microusd, l, spend[l].readAt)

\* A read is not outstanding for longer than MaxRead, and answers with what the
\* ledger had come to since it was started.
ReadsInv ==
    \A l \in Ledgers : reads[l] # NoRead =>
        /\ reads[l].readAt <= reads[l].startedAt
        /\ reads[l].startedAt <= clock
        /\ clock - reads[l].startedAt <= MaxRead
        /\ reads[l].answer # Unanswered => Between(reads[l].answer, l, reads[l].startedAt)

\* A call that waits has a read to wait for, started recently enough for it; a
\* call that has its figure has one recent enough; a refusal was due.
CallInv(c) ==
    LET call == calls[c]
        l    == LedgerOf(call)
    IN  /\ call.phase \in {"reading", "ready", "budget"} =>
              call.key \in Keys /\ call.now <= clock
        /\ call.phase = "reading" =>
              /\ call.limits.budget # NoLimit
              /\ reads[l] # NoRead
              /\ MaxRead < Refresh => call.now - Refresh < reads[l].startedAt
        /\ call.phase = "ready" =>
              /\ call.limits.budget # NoLimit
              /\ call.spent <= billed[l][clock]
              /\ MaxRead < Refresh => Between(call.spent, l, call.now - Refresh + 1)
        /\ call.phase = "budget" => Exceeded(billed[l][clock], call.limits.budget)

BudgetInv == BilledInv /\ FiguresInv /\ ReadsInv /\ \A c \in Calls : CallInv(c)

LEMMA LedgerOfCall ==
    ASSUME NEW call \in CallRecords, call.key \in Keys
    PROVE  LedgerOf(call) \in Ledgers
BY DEF LedgerOf, Ledgers, CallRecords

\* A step that touches neither the ledgers, nor time, nor the memory keeps all
\* but the calls it moves.
LEMMA MemoryFrame ==
    ASSUME BudgetInv, UNCHANGED <<clock, billed, spend, reads>>,
           \A c \in Calls : calls'[c] # calls[c] => CallInv(c)'
    PROVE  BudgetInv'
<1>1. BilledInv' /\ FiguresInv' /\ ReadsInv'
  BY DEF BudgetInv, BilledInv, FiguresInv, ReadsInv, Between
<1>2. ASSUME NEW c \in Calls, calls'[c] = calls[c] PROVE CallInv(c)'
  BY <1>2 DEF BudgetInv, CallInv, Between, LedgerOf
<1> QED BY <1>1, <1>2 DEF BudgetInv

LEMMA BudgetInit == Init => BudgetInv
<1> SUFFICES ASSUME Init PROVE BudgetInv
  OBVIOUS
<1>1. BilledInv
  BY DEF Init, BilledInv
<1>2. FiguresInv /\ ReadsInv
  BY DEF Init, FiguresInv, ReadsInv
<1>3. \A c \in Calls : CallInv(c)
  BY DEF Init, CallInv, Uncalled
<1> QED BY <1>1, <1>2, <1>3 DEF BudgetInv

LEMMA BudgetCheck ==
    ASSUME TypeOK, WindowsInv, BudgetInv, NEW c \in Calls, Check(c)
    PROVE  BudgetInv'
<1> PICK now \in Times, limits \in Limits, key \in Keys,
         n \in Counters \union {NoAssertion} :
      \/ CheckReplayed(c, now, limits, key, n)
      \/ CheckUnbudgeted(c, now, limits, key, n)
      \/ CheckCached(c, now, limits, key, n)
      \/ CheckReading(c, now, limits, key, n)
  BY DEF Check
<1> DEFINE call == Requested(now, limits, key, n)
           l == <<key, MonthOf(now)>>
<1>0. /\ call \in CallRecords /\ call.limits = limits /\ call.now = now
      /\ call.key = key /\ LedgerOf(call) = l /\ l \in Ledgers
  BY RequestedType
<1> HIDE DEF call, l
<1>1. CASE CheckReplayed(c, now, limits, key, n)
  <2>1. calls' = [calls EXCEPT ![c] = [call EXCEPT !.phase = "replay"]]
    BY <1>1 DEF CheckReplayed, call
  <2>2. calls'[c].phase = "replay" /\ \A d \in Calls : d # c => calls'[d] = calls[d]
    BY <1>0, <2>1 DEF TypeOK, CallRecords
  <2>3. CallInv(c)'
    BY <2>2 DEF CallInv
  <2> QED BY <1>1, <2>2, <2>3, MemoryFrame DEF CheckReplayed, memory
<1>2. CASE CheckUnbudgeted(c, now, limits, key, n)
  <2>1. Decided(c, call) /\ call.limits.budget = NoLimit
    BY <1>0, <1>2 DEF CheckUnbudgeted, call
  <2>2. calls'[c].phase # "budget"
    BY <1>0, <2>1, DecidedWindows DEF Exceeded
  <2>3. CallInv(c)' /\ \A d \in Calls : d # c => calls'[d] = calls[d]
    BY <1>0, <2>1, <2>2, DecidedCall DEF CallInv
  <2> QED BY <1>2, <2>3, MemoryFrame DEF CheckUnbudgeted, memory
<1>3. CASE CheckCached(c, now, limits, key, n)
  <2>1. calls' = [calls EXCEPT ![c] =
             [call EXCEPT !.phase = "ready", !.spent = spend[l].microusd]]
    BY <1>0, <1>3 DEF CheckCached, call
  <2>2. /\ calls'[c].phase = "ready" /\ calls'[c].spent = spend[l].microusd
        /\ calls'[c].limits = limits /\ calls'[c].now = now /\ calls'[c].key = key
        /\ \A d \in Calls : d # c => calls'[d] = calls[d]
    BY <1>0, <2>1 DEF TypeOK, CallRecords
  <2>3. LedgerOf(calls'[c]) = l
    BY <2>2 DEF LedgerOf, l
  <2>4. /\ spend[l] # NoFigure /\ now - spend[l].readAt < Refresh
        /\ limits.budget # NoLimit /\ now <= clock
    BY <1>0, <1>3 DEF CheckCached, Fresh, Caller, call
  <2>5. spend[l].readAt \in Times /\ spend[l].microusd \in Nat
    BY <1>0, <2>4 DEF TypeOK, Figures
  <2>6. Between(spend[l].microusd, l, spend[l].readAt)
    BY <1>0, <2>4 DEF BudgetInv, FiguresInv
  <2>7. Between(spend[l].microusd, l, now - Refresh + 1)
    BY <2>4, <2>5, <2>6, LimiterAssumption DEF Between, Times
  <2>8. UNCHANGED <<clock, billed, spend, reads>>
    BY <1>3 DEF CheckCached, memory
  <2>9. CallInv(c)'
    BY <2>2, <2>3, <2>4, <2>7, <2>8 DEF CallInv, Between
  <2> QED BY <2>2, <2>8, <2>9, MemoryFrame
<1>4. CASE CheckReading(c, now, limits, key, n)
  <2>1. calls' = [calls EXCEPT ![c] = [call EXCEPT !.phase = "reading"]]
    BY <1>4 DEF CheckReading, call
  <2>2. /\ calls'[c].phase = "reading" /\ calls'[c].now = now /\ calls'[c].key = key
        /\ calls'[c].limits = limits
        /\ \A d \in Calls : d # c => calls'[d] = calls[d]
    BY <1>0, <2>1 DEF TypeOK, CallRecords
  <2>3. LedgerOf(calls'[c]) = l
    BY <2>2 DEF LedgerOf, l
  <2>4. /\ reads' = IF reads[l] # NoRead THEN reads
                    ELSE [reads EXCEPT ![l] =
                            [readAt |-> now, startedAt |-> clock, answer |-> Unanswered]]
        /\ now <= clock /\ limits.budget # NoLimit
        /\ UNCHANGED <<clock, billed, spend>>
    BY <1>0, <1>4 DEF CheckReading, Caller, call
  <2>5. /\ clock \in Times /\ reads \in [Ledgers -> Reads]
    BY DEF TypeOK
  <2>6. /\ reads'[l] # NoRead /\ clock - reads'[l].startedAt <= MaxRead
        /\ reads'[l].startedAt \in Times
    <3>1. CASE reads[l] # NoRead
      BY <1>0, <2>4, <2>5, <3>1 DEF BudgetInv, ReadsInv, Reads
    <3>2. CASE reads[l] = NoRead
      BY <1>0, <2>4, <2>5, <3>2, LimiterAssumption DEF NoRead, Times
    <3> QED BY <3>1, <3>2
  <2>7. CallInv(c)'
    BY <2>2, <2>3, <2>4, <2>5, <2>6, LimiterAssumption DEF CallInv, Times
  <2>8. \A k \in Ledgers : reads[k] # NoRead => reads'[k] = reads[k]
    BY <1>0, <2>4, <2>5
  <2>9. ASSUME NEW d \in Calls, d # c PROVE CallInv(d)'
    <3>1. calls[d] \in CallRecords /\ calls'[d] = calls[d] /\ CallInv(d)
      BY <2>2, <2>9 DEF TypeOK, BudgetInv
    <3>2. calls[d].phase = "reading" => reads'[LedgerOf(calls[d])] = reads[LedgerOf(calls[d])]
      BY <2>8, <3>1, LedgerOfCall DEF CallInv
    <3> QED BY <2>4, <3>1, <3>2 DEF CallInv, Between
  <2>10. ReadsInv'
    BY <1>0, <2>4, <2>5, LimiterAssumption DEF BudgetInv, ReadsInv, Between, Times
  <2>11. BilledInv' /\ FiguresInv'
    BY <2>4 DEF BudgetInv, BilledInv, FiguresInv, Between
  <2> QED BY <2>7, <2>9, <2>10, <2>11 DEF BudgetInv
<1> QED BY <1>1, <1>2, <1>3, <1>4
LEMMA BudgetDecide ==
    ASSUME TypeOK, WindowsInv, BudgetInv, NEW c \in Calls, Decide(c)
    PROVE  BudgetInv'
<1>1. calls[c] \in CallRecords /\ Decided(c, calls[c]) /\ CallInv(c) /\ calls[c].phase = "ready"
  BY DEF Decide, TypeOK, BudgetInv
<1>2. /\ UNCHANGED <<clock, billed, spend, reads>>
      /\ \A d \in Calls : d # c => calls'[d] = calls[d]
      /\ calls'[c].phase \in {"allowed", "rate", "budget"}
      /\ calls'[c].now = calls[c].now /\ calls'[c].key = calls[c].key
      /\ calls'[c].limits = calls[c].limits
  BY <1>1, DecidedCall DEF Decide, memory
<1>3. LedgerOf(calls'[c]) = LedgerOf(calls[c]) /\ LedgerOf(calls[c]) \in Ledgers
  BY <1>1, <1>2, LedgerOfCall DEF LedgerOf, CallInv
<1>4. calls'[c].phase = "budget" =>
        Exceeded(billed[LedgerOf(calls[c])][clock], calls[c].limits.budget)
  <2>1. calls'[c].phase = "budget" => Exceeded(calls[c].spent, calls[c].limits.budget)
    BY <1>1, DecidedWindows
  <2>2. /\ calls[c].spent <= billed[LedgerOf(calls[c])][clock]
        /\ calls[c].spent \in Nat /\ calls[c].limits.budget \in Int
        /\ billed[LedgerOf(calls[c])][clock] \in Nat
    BY <1>1, <1>3 DEF CallInv, CallRecords, LimitRecords, TypeOK
  <2> QED BY <2>1, <2>2 DEF Exceeded
<1>5. CallInv(c)'
  BY <1>1, <1>2, <1>3, <1>4 DEF CallInv
<1> QED BY <1>2, <1>5, MemoryFrame

LEMMA BudgetRead ==
    ASSUME TypeOK, BudgetInv, NEW l \in Ledgers,
           ReadAnswered(l) \/ ReadReturns(l) \/ ReadFails(l)
    PROVE  BudgetInv'
<1>0. /\ clock \in Times /\ reads \in [Ledgers -> Reads] /\ spend \in [Ledgers -> Figures]
      /\ calls \in [Calls -> CallRecords] /\ billed \in [Ledgers -> [Times -> Nat]]
  BY DEF TypeOK
<1>1. UNCHANGED <<clock, billed>> /\ reads[l] # NoRead
  BY DEF ReadAnswered, ReadReturns, ReadFails
<1>2. BilledInv'
  BY <1>1 DEF BudgetInv, BilledInv
<1>3. CASE ReadAnswered(l)
  <2>1. /\ reads' = [reads EXCEPT ![l].answer = billed[l][clock]]
        /\ UNCHANGED <<spend, calls>>
    BY <1>3 DEF ReadAnswered
  <2>2. /\ reads'[l].readAt = reads[l].readAt /\ reads'[l].startedAt = reads[l].startedAt
        /\ reads'[l].answer = billed[l][clock] /\ reads'[l] # NoRead
        /\ \A k \in Ledgers : k # l => reads'[k] = reads[k]
    BY <1>0, <1>1, <2>1 DEF Reads, NoRead
  <2>3. reads[l].startedAt \in Times
    BY <1>0, <1>1 DEF Reads
  <2>4. Between(billed[l][clock], l, reads[l].startedAt)
    BY <1>0, <1>1, <2>3, LimiterAssumption DEF Between, BudgetInv, BilledInv, ReadsInv, Times
  <2>5. ReadsInv'
    BY <1>1, <2>2, <2>4 DEF BudgetInv, ReadsInv, Between
  <2>6. ASSUME NEW c \in Calls PROVE CallInv(c)'
    <3>1. CallInv(c) /\ calls[c] \in CallRecords
      BY <1>0 DEF BudgetInv
    <3>2. calls[c].phase = "reading" =>
            /\ reads'[LedgerOf(calls[c])] # NoRead
            /\ reads'[LedgerOf(calls[c])].startedAt = reads[LedgerOf(calls[c])].startedAt
      BY <2>2, <3>1, LedgerOfCall DEF CallInv
    <3> QED BY <1>1, <2>1, <3>1, <3>2 DEF CallInv, Between
  <2>7. FiguresInv'
    BY <1>1, <2>1 DEF BudgetInv, FiguresInv, Between
  <2> QED BY <1>2, <2>5, <2>6, <2>7 DEF BudgetInv
<1>4. ASSUME ReadReturns(l) \/ ReadFails(l) PROVE ReadsInv'
  <2>1. reads' = [reads EXCEPT ![l] = NoRead]
    BY <1>4 DEF ReadReturns, ReadFails
  <2>2. \A k \in Ledgers : reads'[k] # NoRead => reads'[k] = reads[k]
    BY <1>0, <2>1
  <2> QED BY <1>1, <2>2 DEF BudgetInv, ReadsInv, Between
<1>5. CASE ReadReturns(l)
  <2> DEFINE answer == reads[l].answer
             readAt == reads[l].readAt
  <2>1. /\ spend' = Remembered(l) /\ reads' = [reads EXCEPT ![l] = NoRead]
        /\ calls' = [c \in Calls |-> IF Waiting(c, l)
              THEN [calls[c] EXCEPT !.phase = "ready", !.spent = reads[l].answer]
              ELSE calls[c]]
        /\ answer # Unanswered
    BY <1>5 DEF ReadReturns
  <2>2. /\ answer \in Nat /\ readAt \in Times /\ reads[l].startedAt \in Times
        /\ readAt <= reads[l].startedAt /\ reads[l].startedAt <= clock
        /\ Between(answer, l, reads[l].startedAt)
    BY <1>0, <1>1, <2>1 DEF Reads, BudgetInv, ReadsInv
  <2>3. readAt <= clock /\ Between(answer, l, readAt)
    BY <1>0, <2>2, LimiterAssumption DEF Between, Times
  <2>4. FiguresInv'
    <3>1. \A k \in Ledgers : \/ Remembered(l)[k] = NoFigure
                             \/ Remembered(l)[k] = spend[k]
                             \/ k = l /\ Remembered(l)[k] = [microusd |-> answer, readAt |-> readAt]
      BY <1>0 DEF Remembered
    <3>2. \A k \in Ledgers : \A f, since : Between(f, k, since)' <=> Between(f, k, since)
      BY <1>1 DEF Between
    <3>3. ASSUME NEW k \in Ledgers, spend'[k] # NoFigure
          PROVE  spend'[k].readAt <= clock /\ Between(spend'[k].microusd, k, spend'[k].readAt)
      <4>1. CASE Remembered(l)[k] = spend[k]
        BY <2>1, <3>3, <4>1 DEF BudgetInv, FiguresInv
      <4>2. CASE k = l /\ Remembered(l)[k] = [microusd |-> answer, readAt |-> readAt]
        <5> HIDE DEF answer, readAt
        <5>0. spend'[l] = [microusd |-> answer, readAt |-> readAt]
          BY <2>1, <4>2
        <5>1. spend'[l].microusd = answer /\ spend'[l].readAt = readAt
          BY <5>0
        <5> QED BY <2>3, <4>2, <5>1
      <4> QED BY <2>1, <3>1, <3>3, <4>1, <4>2
    <3> QED BY <1>1, <3>2, <3>3 DEF FiguresInv
  <2>5. ASSUME NEW c \in Calls PROVE CallInv(c)'
    <3>1. CallInv(c) /\ calls[c] \in CallRecords
      BY <1>0 DEF BudgetInv
    <3>2. CASE Waiting(c, l)
      <4>1. /\ calls'[c].phase = "ready" /\ calls'[c].spent = answer
            /\ calls'[c].now = calls[c].now /\ calls'[c].key = calls[c].key
            /\ calls'[c].limits = calls[c].limits
        BY <2>1, <3>1, <3>2 DEF CallRecords
      <4>2. LedgerOf(calls'[c]) = l /\ LedgerOf(calls[c]) = l /\ calls[c].phase = "reading"
        BY <3>2, <4>1 DEF Waiting, LedgerOf
      <4>3. MaxRead < Refresh => calls[c].now - Refresh < reads[l].startedAt
        BY <3>1, <4>2 DEF CallInv
      <4>4. calls[c].now \in Times
        BY <3>1 DEF CallRecords
      <4>5. MaxRead < Refresh => Between(answer, l, calls[c].now - Refresh + 1)
        BY <2>2, <4>3, <4>4, LimiterAssumption DEF Between, Times
      <4>6. calls[c].limits.budget # NoLimit
        BY <3>1, <4>2 DEF CallInv
      <4> QED BY <1>1, <2>2, <3>1, <4>1, <4>2, <4>5, <4>6 DEF CallInv, Between
    <3>3. CASE ~Waiting(c, l)
      <4>1. calls'[c] = calls[c]
        BY <2>1, <3>3
      <4>2. calls[c].phase = "reading" => reads'[LedgerOf(calls[c])] = reads[LedgerOf(calls[c])]
        BY <1>0, <2>1, <3>1, <3>3, LedgerOfCall DEF Waiting, CallInv
      <4> QED BY <1>1, <3>1, <4>1, <4>2 DEF CallInv, Between
    <3> QED BY <3>2, <3>3
  <2> QED BY <1>2, <1>4, <1>5, <2>4, <2>5 DEF BudgetInv
<1>6. CASE ReadFails(l)
  <2>1. /\ reads' = [reads EXCEPT ![l] = NoRead] /\ UNCHANGED spend
        /\ calls' = [c \in Calls |->
             IF Waiting(c, l) THEN [calls[c] EXCEPT !.phase = "failed"] ELSE calls[c]]
    BY <1>6 DEF ReadFails
  <2>2. ASSUME NEW c \in Calls PROVE CallInv(c)'
    <3>1. CallInv(c) /\ calls[c] \in CallRecords
      BY <1>0 DEF BudgetInv
    <3>2. CASE Waiting(c, l)
      BY <2>1, <3>1, <3>2 DEF CallRecords, CallInv
    <3>3. CASE ~Waiting(c, l)
      <4>1. calls'[c] = calls[c]
        BY <2>1, <3>3
      <4>2. calls[c].phase = "reading" => reads'[LedgerOf(calls[c])] = reads[LedgerOf(calls[c])]
        BY <1>0, <2>1, <3>1, <3>3, LedgerOfCall DEF Waiting, CallInv
      <4> QED BY <1>1, <3>1, <4>1, <4>2 DEF CallInv, Between
    <3> QED BY <3>2, <3>3
  <2>3. FiguresInv'
    BY <1>1, <2>1 DEF BudgetInv, FiguresInv, Between
  <2> QED BY <1>2, <1>4, <1>6, <2>2, <2>3 DEF BudgetInv
<1> QED BY <1>3, <1>5, <1>6

LEMMA BudgetSurroundings ==
    ASSUME TypeOK, BudgetInv, Evict \/ Tick \/ (\E k \in Keys : Settle(k))
    PROVE  BudgetInv'
<1>0. /\ clock \in Times /\ reads \in [Ledgers -> Reads] /\ spend \in [Ledgers -> Figures]
      /\ calls \in [Calls -> CallRecords] /\ billed \in [Ledgers -> [Times -> Nat]]
  BY DEF TypeOK
<1>1. CASE Evict
  <2>1. BilledInv' /\ FiguresInv' /\ ReadsInv'
    BY <1>1 DEF Evict, BudgetInv, BilledInv, FiguresInv, ReadsInv
  <2>2. ASSUME NEW c \in Calls PROVE CallInv(c)'
    <3>1. CASE calls[c].phase \in {"reading", "ready"}
      BY <1>0, <1>1, <3>1 DEF Evict, CallInv, CallRecords
    <3>2. CASE calls[c].phase \notin {"reading", "ready"}
      BY <1>1, <3>2 DEF Evict, CallInv, BudgetInv, Between
    <3> QED BY <3>1, <3>2
  <2> QED BY <2>1, <2>2 DEF BudgetInv
<1>2. CASE Tick
  <2>1. /\ clock' = clock + 1 /\ clock' \in Times
        /\ \A l \in Ledgers : reads[l] # NoRead => clock - reads[l].startedAt < MaxRead
        /\ UNCHANGED <<spend, reads, calls, billed>>
    BY <1>0, <1>2, LimiterAssumption DEF Tick, memory, Times
  <2>2. \A l \in Ledgers : billed[l][clock] <= billed[l][clock'] /\ billed[l][clock'] \in Nat
                          /\ billed[l][clock] \in Nat
    BY <1>0, <2>1, LimiterAssumption DEF BudgetInv, BilledInv, Times
  <2>3. ASSUME NEW l \in Ledgers, NEW f \in Nat, NEW since, Between(f, l, since)
        PROVE  Between(f, l, since)'
    BY <2>1, <2>2, <2>3 DEF Between
  <2>4. FiguresInv'
    <3>1. \A l \in Ledgers : spend[l] # NoFigure => spend[l].microusd \in Nat /\ spend[l].readAt \in Times
      BY <1>0 DEF Figures
    <3> QED BY <1>0, <2>1, <2>3, <3>1, LimiterAssumption DEF BudgetInv, FiguresInv, Times
  <2>5. ReadsInv'
    <3>1. \A l \in Ledgers : reads[l] # NoRead =>
             /\ reads[l].readAt \in Times /\ reads[l].startedAt \in Times
             /\ reads[l].answer # Unanswered => reads[l].answer \in Nat
      BY <1>0 DEF Reads
    <3> QED BY <1>0, <2>1, <2>3, <3>1, LimiterAssumption, SMTT(30) DEF BudgetInv, ReadsInv, Times
  <2>6. ASSUME NEW c \in Calls PROVE CallInv(c)'
    <3>1. CallInv(c) /\ calls[c] \in CallRecords /\ calls'[c] = calls[c] /\ reads' = reads
      BY <1>0, <2>1 DEF BudgetInv
    <3>2. calls[c].now \in Times /\ calls[c].spent \in Nat /\ calls[c].limits \in LimitRecords
      BY <3>1 DEF CallRecords
    <3>3. calls[c].phase \in {"reading", "ready", "budget"} => LedgerOf(calls[c]) \in Ledgers
      BY <3>1, LedgerOfCall DEF CallInv
    <3>4. CASE calls[c].phase = "ready"
      BY <1>0, <2>1, <2>2, <2>3, <3>1, <3>2, <3>3, <3>4, LimiterAssumption, SMTT(30) DEF CallInv, Times
    <3>5. CASE calls[c].phase = "budget"
      BY <1>0, <2>1, <2>2, <3>1, <3>2, <3>3, <3>5, LimiterAssumption, SMTT(30)
         DEF CallInv, Times, Exceeded, LimitRecords
    <3>6. CASE calls[c].phase \notin {"ready", "budget"}
      BY <1>0, <2>1, <3>1, <3>2, <3>6, LimiterAssumption DEF CallInv, Times
    <3> QED BY <3>4, <3>5, <3>6
  <2>7. BilledInv'
    BY <2>1 DEF BudgetInv, BilledInv
  <2> QED BY <2>4, <2>5, <2>6, <2>7 DEF BudgetInv
<1>3. ASSUME NEW key \in Keys, Settle(key) PROVE BudgetInv'
  <2> DEFINE k == <<key, MonthOf(clock)>>
  <2>1. k \in Ledgers
    BY <1>0 DEF Ledgers
  <2>2. /\ billed' = [billed EXCEPT ![k] = [t \in Times |-> IF t >= clock THEN @[t] + 1 ELSE @[t]]]
        /\ UNCHANGED <<clock, spend, reads, calls>>
    BY <1>3 DEF Settle, memory
  <2> HIDE DEF k
  <2>3. /\ \A l \in Ledgers, t \in Times :
             /\ billed'[l][t] \in Nat /\ billed[l][t] \in Nat
             /\ t < clock => billed'[l][t] = billed[l][t]
             /\ t >= clock /\ l = k => billed'[l][t] = billed[l][t] + 1
             /\ l # k => billed'[l][t] = billed[l][t]
    BY <1>0, <2>1, <2>2, LimiterAssumption DEF Times
  <2>4. ASSUME NEW l \in Ledgers, NEW f \in Nat, NEW since \in Int, since <= clock,
               Between(f, l, since)
        PROVE  Between(f, l, since)'
    BY <1>0, <2>2, <2>3, <2>4, LimiterAssumption DEF Between, Times
  <2>5. BilledInv'
    <3> SUFFICES ASSUME NEW l \in Ledgers, NEW s \in Times, NEW t \in Times, s <= t
                 PROVE  billed'[l][s] <= billed'[l][t]
      BY DEF BilledInv
    <3>1. s \in Int /\ t \in Int /\ clock \in Int /\ billed[l][s] <= billed[l][t]
      BY <1>0 DEF Times, BudgetInv, BilledInv
    <3>2. CASE l # k
      BY <2>3, <3>1, <3>2
    <3>3. CASE l = k /\ t >= clock
      BY <2>3, <3>1, <3>3
    <3>4. CASE l = k /\ t < clock
      BY <2>3, <3>1, <3>4
    <3> QED BY <3>1, <3>2, <3>3, <3>4
  <2>9. \A l \in Ledgers : /\ billed'[l][clock] >= billed[l][clock]
                            /\ billed'[l][clock] \in Nat /\ billed[l][clock] \in Nat
    <3> SUFFICES ASSUME NEW l \in Ledgers
                 PROVE  /\ billed'[l][clock] >= billed[l][clock]
                        /\ billed'[l][clock] \in Nat /\ billed[l][clock] \in Nat
      OBVIOUS
    <3>1. clock \in Int /\ clock \in Times
      BY <1>0 DEF Times
    <3> QED BY <2>3, <3>1
  <2>6. FiguresInv'
    <3>1. \A l \in Ledgers : spend[l] # NoFigure => spend[l].microusd \in Nat /\ spend[l].readAt \in Int
      BY <1>0 DEF Figures, Times
    <3> QED BY <2>2, <2>4, <3>1 DEF BudgetInv, FiguresInv
  <2>7. ReadsInv'
    <3>1. \A l \in Ledgers : reads[l] # NoRead =>
             /\ reads[l].startedAt \in Int
             /\ reads[l].answer # Unanswered => reads[l].answer \in Nat
      BY <1>0 DEF Reads, Times
    <3> QED BY <2>2, <2>4, <3>1 DEF BudgetInv, ReadsInv
  <2>8. ASSUME NEW c \in Calls PROVE CallInv(c)'
    <3>1. CallInv(c) /\ calls[c] \in CallRecords /\ calls'[c] = calls[c]
      BY <1>0, <2>2 DEF BudgetInv
    <3>2. calls[c].now \in Int /\ calls[c].spent \in Nat /\ calls[c].limits \in LimitRecords
      BY <3>1 DEF CallRecords, Times
    <3>3. calls[c].phase \in {"reading", "ready", "budget"} => LedgerOf(calls[c]) \in Ledgers
      BY <3>1, LedgerOfCall DEF CallInv
    <3>4. CASE calls[c].phase = "ready"
      <4>1. calls[c].now - Refresh + 1 \in Int /\ calls[c].now - Refresh + 1 <= clock
        <5>1. calls[c].now <= clock
          BY <3>1, <3>4 DEF CallInv
        <5> QED BY <1>0, <3>2, <5>1, LimiterAssumption DEF Times
      <4>2. calls[c].spent <= billed'[LedgerOf(calls[c])][clock]
        BY <2>9, <3>1, <3>2, <3>3, <3>4 DEF CallInv
      <4> QED BY <2>2, <2>4, <3>1, <3>2, <3>3, <3>4, <4>1, <4>2 DEF CallInv
    <3>5. CASE calls[c].phase = "budget"
      <4>1. /\ billed'[LedgerOf(calls[c])][clock] >= billed[LedgerOf(calls[c])][clock]
            /\ billed'[LedgerOf(calls[c])][clock] \in Nat
            /\ billed[LedgerOf(calls[c])][clock] \in Nat
        BY <2>9, <3>3, <3>5
      <4> QED BY <2>2, <3>1, <3>2, <3>5, <4>1 DEF CallInv, Exceeded, LimitRecords
    <3>6. CASE calls[c].phase \notin {"ready", "budget"}
      BY <2>2, <3>1, <3>6 DEF CallInv
    <3> QED BY <3>4, <3>5, <3>6
  <2> QED BY <2>5, <2>6, <2>7, <2>8 DEF BudgetInv
<1> QED BY <1>1, <1>2, <1>3

LEMMA BudgetNext == TypeOK /\ WindowsInv /\ BudgetInv /\ [Next]_vars => BudgetInv'
<1> SUFFICES ASSUME TypeOK, WindowsInv, BudgetInv, [Next]_vars PROVE BudgetInv'
  OBVIOUS
<1>1. ASSUME NEW c \in Calls, AdvanceCounter(c) PROVE BudgetInv'
  <2> PICK n \in Counters :
        /\ calls' = [calls EXCEPT ![c] = [Uncalled EXCEPT
             !.phase = IF CounterUnused(counter, n) THEN "accepted" ELSE "replay",
             !.assertion = n]]
        /\ UNCHANGED <<clock, memory, billed, admissions>>
    BY <1>1, Zenon DEF AdvanceCounter
  <2>1. calls'[c].phase \in {"accepted", "replay"} /\ \A d \in Calls : d # c => calls'[d] = calls[d]
    BY UncalledType DEF TypeOK, CallRecords
  <2>2. CallInv(c)'
    BY <2>1 DEF CallInv
  <2> QED BY <2>1, <2>2, MemoryFrame DEF memory
<1>2. CASE UNCHANGED vars
  BY <1>2, MemoryFrame DEF vars, memory
<1> QED BY <1>1, <1>2, BudgetCheck, BudgetDecide, BudgetRead, BudgetSurroundings DEF Next

LEMMA WithinBudget ==
    ASSUME MaxRead < Refresh, TypeOK, WindowsInv, BudgetInv, [Next]_vars
    PROVE  AdmittedWithinBudget
<1> SUFFICES ASSUME NEW d \in Calls, Admits(d), calls'[d].now >= Refresh
             PROVE  ~Exceeded(billed[LedgerOf(calls'[d])][calls'[d].now - Refresh],
                              calls'[d].limits.budget)
  BY DEF AdmittedWithinBudget, LedgerOf
<1>1. PICK c \in Calls, call \in CallRecords :
        /\ Decided(c, call)
        /\ call.limits.budget = NoLimit \/ (call = calls[c] /\ calls[c].phase = "ready")
  BY AdmissionSteps
<1>2. d = c
  BY <1>1, DecidedCall DEF Admits
<1>3. /\ calls'[d].now = call.now /\ calls'[d].key = call.key
      /\ calls'[d].limits = call.limits
      /\ LedgerOf(calls'[d]) = LedgerOf(call)
  BY <1>1, <1>2, DecidedCall DEF LedgerOf
<1>4. ~Exceeded(call.spent, call.limits.budget)
  BY <1>1, <1>2, DecidedWindows DEF Admits
<1>5. CASE call.limits.budget = NoLimit
  BY <1>3, <1>5 DEF Exceeded
<1>6. CASE call = calls[c] /\ calls[c].phase = "ready"
  <2>1. CallInv(c) /\ call.now \in Times /\ call.spent \in Nat /\ call.limits.budget \in Int
    BY <1>6 DEF BudgetInv, CallRecords, LimitRecords
  <2>2. call.now - Refresh \in Times
    BY <1>3, <2>1, LimiterAssumption DEF Times
  <2>3. billed[LedgerOf(call)][call.now - Refresh] <= call.spent
    BY <1>6, <2>1, <2>2, LimiterAssumption DEF CallInv, Between, Times
  <2>4. LedgerOf(call) \in Ledgers
    BY <1>6, <2>1, LedgerOfCall DEF CallInv
  <2>5. billed[LedgerOf(call)][call.now - Refresh] \in Nat
    BY <2>2, <2>4 DEF TypeOK
  <2> QED BY <1>3, <1>4, <2>1, <2>3, <2>5 DEF Exceeded
<1> QED BY <1>1, <1>5, <1>6

\* A budget refuses only a request whose own ledger has reached it.
THEOREM BudgetRefusalsAreDue == Spec => []BudgetRefusalIsDue
<1>1. BudgetInv => BudgetRefusalIsDue
  BY DEF BudgetInv, CallInv, BudgetRefusalIsDue, LedgerOf
<1> QED BY <1>1, InitType, NextType, WindowsInit, WindowsNext, BudgetInit, BudgetNext, PTL DEF Spec

\* A budget settles within the refresh window, as long as D1 answers within it.
THEOREM BudgetsSettle ==
    ASSUME MaxRead < Refresh
    PROVE  Spec => BudgetSettles
<1>1. TypeOK /\ WindowsInv /\ BudgetInv /\ [Next]_vars => [AdmittedWithinBudget]_vars
  BY WithinBudget
<1> QED BY <1>1, InitType, NextType, WindowsInit, WindowsNext, BudgetInit, BudgetNext,
           PTL DEF Spec, BudgetSettles
=============================================================================
