---------------------------- MODULE UserLimiter ----------------------------
(***************************************************************************)
(* One UserLimiter Durable Object (do/UserLimiter.ts).  Calls of            *)
(* checkAndIncrement interleave at its one await, the read of the month's   *)
(* spend; calls of advanceCounter share the install's assertion counter.    *)
(* The object may be evicted at any step: its rows survive, its memory and  *)
(* the calls waiting in it do not.                                          *)
(***************************************************************************)
EXTENDS AssertionCounter, RequestWindows, FiniteSets

CONSTANTS Calls,        \* the calls made on the object
          Counters,     \* the assertion counters callers present
          Keys,         \* the ledgers (scope and key) budgets are measured over
          Limits,       \* the limits calls carry
          Refresh,      \* SPEND_REFRESH_MS
          MaxLedgers,   \* MAX_SPEND_LEDGERS
          MaxClock,     \* bound: the clock stops here
          MaxLag,       \* bound: how far a caller's clock may trail
          MaxRead,      \* bound: how long a read of D1 may be outstanding
          MaxSpend      \* bound: what a ledger may come to

LimitRecords == [rpm: Nat \union {NoLimit}, rpd: Nat \union {NoLimit},
                 budget: Nat \union {NoLimit}]

ASSUME LimiterAssumption ==
    /\ Refresh \in Nat \ {0} /\ MaxLedgers \in Nat \ {0}
    /\ MaxClock \in Nat /\ MaxLag \in Nat /\ MaxRead \in Nat /\ MaxSpend \in Nat
    /\ \A l \in Limits : l \in LimitRecords
    /\ Counters \subseteq Int \ {-2}

VARIABLES
    clock,    \* real time
    windows,  \* the request_windows row
    counter,  \* the assertion_counter row
    spend,    \* memory: the last read of each ledger's month
    reads,    \* memory: the reads in flight, by ledger
    calls,    \* what each call is doing
    billed,   \* D1: what each ledger had come to by each instant
    minuteAdmitted, dayAdmitted \* observation: requests each window admitted

memory == <<spend, reads>>
admissions == <<windows, minuteAdmitted, dayAdmitted>>
vars == <<clock, counter, memory, calls, billed, admissions>>

Times   == 0..MaxClock
Minutes == {MinuteOf(t) : t \in Times}
Days    == {DayOf(t) : t \in Times}
Ledgers == Keys \X {MonthOf(t) : t \in Times}

NoFigure == [microusd |-> 0, readAt |-> -1]
Figures  == [microusd: Nat, readAt: Times] \union {NoFigure}

\* A read in flight: the clock of the call that started it, when it started
\* and what D1 answered, once it has.
Unanswered == -1
NoRead == [readAt |-> -1, startedAt |-> -1, answer |-> Unanswered]
Reads  == [readAt: Times, startedAt: Times, answer: Nat \union {Unanswered}]
            \union {NoRead}

NoAssertion == -2  \* not a counter anyone presents
NoKey == <<>>
Answers == {"allowed", "rate", "budget", "replay", "failed", "accepted"}
Phases  == {"uncalled", "reading", "ready"} \union Answers

\* What a call may know of itself: its own clock, the limits it carries, whose
\* ledger its budget is measured over, its assertion and the spend it was told.
CallRecords == [phase: Phases, now: Times, limits: LimitRecords,
                key: Keys \union {NoKey},
                assertion: Counters \union {NoAssertion}, spent: Nat]

Uncalled == [phase |-> "uncalled", now |-> 0, key |-> NoKey,
             limits |-> [rpm |-> NoLimit, rpd |-> NoLimit, budget |-> NoLimit],
             assertion |-> NoAssertion, spent |-> 0]

Init ==
    /\ clock = 0
    /\ windows = NoWindows
    /\ counter = NoCounter
    /\ spend = [l \in Ledgers |-> NoFigure]
    /\ reads = [l \in Ledgers |-> NoRead]
    /\ calls = [c \in Calls |-> Uncalled]
    /\ billed = [l \in Ledgers |-> [t \in Times |-> 0]]
    /\ minuteAdmitted = [m \in Minutes |-> 0]
    /\ dayAdmitted = [d \in Days |-> 0]

-----------------------------------------------------------------------------
(* The decision, with no await between what it reads and what it writes.    *)

\* Why a call that holds the spend figure is refused, in the order the checks run.
Refusal(call) ==
    LET counts == WindowCounts(windows, call.now)
    IN  IF \/ Exceeded(counts.minute, call.limits.rpm)
           \/ Exceeded(counts.day, call.limits.rpd) THEN "rate"
        ELSE IF Exceeded(call.spent, call.limits.budget) THEN "budget"
        ELSE "none"

\* The decision on `call` and its answer: an admission counts in both windows,
\* a refusal in neither.
Decided(c, call) ==
    LET counts == WindowCounts(windows, call.now) IN
    \/ /\ Refusal(call) = "none"
       /\ windows' = BumpWindows(counts)
       /\ minuteAdmitted' = [minuteAdmitted EXCEPT ![counts.minuteKey] = @ + 1]
       /\ dayAdmitted' = [dayAdmitted EXCEPT ![counts.dayKey] = @ + 1]
       /\ calls' = [calls EXCEPT ![c] = [call EXCEPT !.phase = "allowed"]]
    \/ /\ Refusal(call) # "none"
       /\ calls' = [calls EXCEPT ![c] = [call EXCEPT !.phase = Refusal(call)]]
       /\ UNCHANGED admissions

\* useCounter: accepted and recorded in one step.  A call with no assertion passes.
CounterPasses(n) == n = NoAssertion \/ CounterUnused(counter, n)

UseCounter(n) ==
    counter' = IF n # NoAssertion THEN CounterRecorded(counter, n) ELSE counter

-----------------------------------------------------------------------------
(* checkAndIncrement *)

\* Fault: a figure is remembered without its scope and key.
LedgerOfAnyKey(call) == <<CHOOSE k \in Keys : TRUE, MonthOf(call.now)>>

\* The ledger a call's budget is measured over: the identity monthlySpend uses.
LedgerOf(call) == <<call.key, MonthOf(call.now)>>

\* The call a caller makes: its clock, its limits, the ledger and its counter.
Requested(now, limits, key, n) ==
    [Uncalled EXCEPT !.now = now, !.limits = limits,
                     !.key = key, !.assertion = n]

Caller(now, c) == calls[c].phase = "uncalled" /\ now \in Times
                    /\ now <= clock /\ clock - now <= MaxLag

\* A replay is refused before anything is counted or read.
CheckReplayed(c, now, limits, key, n) ==
    /\ Caller(now, c)
    /\ ~CounterPasses(n)
    /\ calls' = [calls EXCEPT
         ![c] = [Requested(now, limits, key, n) EXCEPT !.phase = "replay"]]
    /\ UNCHANGED <<clock, counter, memory, billed, admissions>>

\* Without a budget there is no await: the call is decided where it stands.
CheckUnbudgeted(c, now, limits, key, n) ==
    /\ Caller(now, c)
    /\ CounterPasses(n)
    /\ limits.budget = NoLimit
    /\ UseCounter(n)
    /\ Decided(c, Requested(now, limits, key, n))
    /\ UNCHANGED <<clock, memory, billed>>

\* Fault: a figure answers for one instant more.
FreshTooLong(figure, now) == figure # NoFigure /\ now - figure.readAt <= Refresh

Fresh(figure, now) == figure # NoFigure /\ now - figure.readAt < Refresh

\* monthlySpend answered from memory: the call goes on after one microtask.
CheckCached(c, now, limits, key, n) ==
    LET call == Requested(now, limits, key, n) IN
    /\ Caller(now, c)
    /\ CounterPasses(n)
    /\ limits.budget # NoLimit
    /\ Fresh(spend[LedgerOf(call)], now)
    /\ UseCounter(n)
    /\ calls' = [calls EXCEPT ![c] =
         [call EXCEPT !.phase = "ready", !.spent = spend[LedgerOf(call)].microusd]]
    /\ UNCHANGED <<clock, memory, billed, admissions>>

\* monthlySpend of a stale ledger: the call joins the read in flight or starts one.
CheckReading(c, now, limits, key, n) ==
    LET call == Requested(now, limits, key, n) IN
    /\ Caller(now, c)
    /\ CounterPasses(n)
    /\ limits.budget # NoLimit
    /\ ~Fresh(spend[LedgerOf(call)], now)
    /\ UseCounter(n)
    /\ reads' = IF reads[LedgerOf(call)] # NoRead THEN reads
                ELSE [reads EXCEPT ![LedgerOf(call)] =
                        [readAt |-> now, startedAt |-> clock, answer |-> Unanswered]]
    /\ calls' = [calls EXCEPT ![c] = [call EXCEPT !.phase = "reading"]]
    /\ UNCHANGED <<clock, spend, billed, admissions>>

Check(c) ==
    \E now \in Times, limits \in Limits, key \in Keys, n \in Counters \union {NoAssertion} :
        \/ CheckReplayed(c, now, limits, key, n)
        \/ CheckUnbudgeted(c, now, limits, key, n)
        \/ CheckCached(c, now, limits, key, n)
        \/ CheckReading(c, now, limits, key, n)

\* A call that has its figure is decided.
Decide(c) ==
    /\ calls[c].phase = "ready"
    /\ Decided(c, calls[c])
    /\ UNCHANGED <<clock, counter, memory, billed>>

\* advanceCounter, for the token exchange: the same counter, nothing counted.
AdvanceCounter(c) ==
    \E n \in Counters :
        /\ calls[c].phase = "uncalled"
        /\ calls' = [calls EXCEPT ![c] = [Uncalled EXCEPT
             !.phase = IF CounterUnused(counter, n) THEN "accepted" ELSE "replay",
             !.assertion = n]]
        /\ counter' = IF CounterUnused(counter, n) THEN CounterRecorded(counter, n) ELSE counter
        /\ UNCHANGED <<clock, memory, billed, admissions>>

-----------------------------------------------------------------------------
(* The read of the month's spend *)

Waiting(c, l) == calls[c].phase = "reading" /\ LedgerOf(calls[c]) = l

\* D1 evaluates the query.
ReadAnswered(l) ==
    /\ reads[l] # NoRead /\ reads[l].answer = Unanswered
    /\ reads' = [reads EXCEPT ![l].answer = billed[l][clock]]
    /\ UNCHANGED <<clock, counter, spend, calls, billed, admissions>>

\* The memory once a read has come back: a full map is cleared before a new
\* ledger enters it, and an older read does not replace a newer figure.
Remembered(l) ==
    LET held == {k \in Ledgers : spend[k] # NoFigure}
        kept == IF spend[l] = NoFigure /\ Cardinality(held) >= MaxLedgers
                THEN [k \in Ledgers |-> NoFigure] ELSE spend
    IN IF spend[l] = NoFigure \/ spend[l].readAt <= reads[l].readAt
       THEN [kept EXCEPT ![l] = [microusd |-> reads[l].answer, readAt |-> reads[l].readAt]]
       ELSE spend

\* The answer reaches the object: it is remembered, the read is forgotten and
\* everyone who shared it goes on.
ReadReturns(l) ==
    /\ reads[l] # NoRead /\ reads[l].answer # Unanswered
    /\ spend' = Remembered(l)
    /\ reads' = [reads EXCEPT ![l] = NoRead]
    /\ calls' = [c \in Calls |->
         IF Waiting(c, l)
         THEN [calls[c] EXCEPT !.phase = "ready", !.spent = reads[l].answer]
         ELSE calls[c]]
    /\ UNCHANGED <<clock, counter, billed, admissions>>

\* The read fails: forgotten, and everyone who shared it fails with it.
ReadFails(l) ==
    /\ reads[l] # NoRead
    /\ reads' = [reads EXCEPT ![l] = NoRead]
    /\ calls' = [c \in Calls |->
         IF Waiting(c, l) THEN [calls[c] EXCEPT !.phase = "failed"] ELSE calls[c]]
    /\ UNCHANGED <<clock, counter, spend, billed, admissions>>

-----------------------------------------------------------------------------
(* The surroundings *)

\* The object is evicted: rows stay, memory and the calls in it are lost.
Evict ==
    /\ spend' = [l \in Ledgers |-> NoFigure]
    /\ reads' = [l \in Ledgers |-> NoRead]
    /\ calls' = [c \in Calls |->
         IF calls[c].phase \in {"reading", "ready"}
         THEN [calls[c] EXCEPT !.phase = "failed"] ELSE calls[c]]
    /\ UNCHANGED <<clock, counter, billed, admissions>>

\* A request's cost settles in the ledger of the current month.
Settle(k) ==
    LET l == <<k, MonthOf(clock)>> IN
    /\ billed[l][clock] < MaxSpend
    /\ billed' = [billed EXCEPT ![l] = [t \in Times |-> IF t >= clock THEN @[t] + 1 ELSE @[t]]]
    /\ UNCHANGED <<clock, counter, memory, calls, admissions>>

\* Time passes, unless a read would be outstanding for longer than MaxRead.
Tick ==
    /\ clock < MaxClock
    /\ \A l \in Ledgers : reads[l] # NoRead => clock - reads[l].startedAt < MaxRead
    /\ clock' = clock + 1
    /\ UNCHANGED <<counter, memory, calls, billed, admissions>>

Next ==
    \/ \E c \in Calls : Check(c) \/ Decide(c) \/ AdvanceCounter(c)
    \/ \E l \in Ledgers : ReadAnswered(l) \/ ReadReturns(l) \/ ReadFails(l)
    \/ Evict
    \/ \E k \in Keys : Settle(k)
    \/ Tick

Spec == Init /\ [][Next]_vars

-----------------------------------------------------------------------------
(* Properties *)

\* Every row, every memory and every call has the shape the code gives it.
TypeOK ==
    /\ clock \in Times
    /\ windows \in [minuteKey: Minutes \union {-1}, minute: Nat,
                    dayKey: Days \union {-1}, day: Nat]
    /\ counter \in CounterRows
    /\ spend \in [Ledgers -> Figures]
    /\ reads \in [Ledgers -> Reads]
    /\ calls \in [Calls -> CallRecords]
    /\ billed \in [Ledgers -> [Times -> Nat]]
    /\ minuteAdmitted \in [Minutes -> Nat]
    /\ dayAdmitted \in [Days -> Nat]

\* A call that got past the counter: it was answered on an assertion, or waits.
PastCounter(c) ==
    calls[c].assertion # NoAssertion /\ calls[c].phase \notin {"uncalled", "replay"}

\* No assertion counter is accepted twice, whether by two requests, by two
\* token exchanges or by one of each, however they interleave, whatever order
\* the counters arrive in and however often the object is evicted meanwhile
\* (useCounter: "each assertion's counter is accepted once").
AssertionAcceptedOnce ==
    \A c, d \in Calls :
        PastCounter(c) /\ PastCounter(d) /\ calls[c].assertion = calls[d].assertion
            => c = d

\* The row's counts are the admissions of its windows: nothing refused, by
\* either limit or by the budget, has spent a token of either window, and no
\* admission was lost when a window rolled or a late clock was counted
\* (checkAndIncrement, bumpWindows).
WindowsExact ==
    /\ windows.minuteKey # -1 => windows.minute = minuteAdmitted[windows.minuteKey]
    /\ windows.dayKey # -1 => windows.day = dayAdmitted[windows.dayKey]

Admits(c) == calls[c].phase # "allowed" /\ calls'[c].phase = "allowed"

\* A request is admitted only while the window it is counted in has admitted
\* fewer than the limit it carried, over everything that window ever admitted:
\* neither a late clock nor a figure awaited meanwhile lets a window be
\* overshot (checkAndIncrement: "a window can never be overshot").
AdmittedWithinLimits ==
    \A c \in Calls : Admits(c) =>
        /\ ~Exceeded(minuteAdmitted[windows'.minuteKey], calls'[c].limits.rpm)
        /\ ~Exceeded(dayAdmitted[windows'.dayKey], calls'[c].limits.rpd)
NeverOvershot == [][AdmittedWithinLimits]_vars

\* A request is not admitted on a budget its ledger had already reached a
\* refresh window before it arrived, although figures are cached, shared by
\* requests that arrive during a read and lost by eviction (SPEND_REFRESH_MS:
\* "a budget settles within that window").
AdmittedWithinBudget ==
    \A c \in Calls : LET call == calls'[c] IN
        Admits(c) /\ call.now >= Refresh =>
            ~Exceeded(billed[<<call.key, MonthOf(call.now)>>][call.now - Refresh],
                      call.limits.budget)
BudgetSettles == [][AdmittedWithinBudget]_vars

\* A budget refuses only a request whose own ledger, of its own month, has
\* reached it: a figure read for one scope, key or month never answers for
\* another (the identity monthlySpend caches under).
BudgetRefusalIsDue ==
    \A c \in Calls : calls[c].phase = "budget" =>
        Exceeded(billed[<<calls[c].key, MonthOf(calls[c].now)>>][clock],
                 calls[c].limits.budget)
=============================================================================
