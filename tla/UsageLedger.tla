---------------------------- MODULE UsageLedger ----------------------------
(***************************************************************************)
(* The usage ledger of one application in D1: raw events, the sealed day    *)
(* totals and their window, the rollup's day and month grains, and the      *)
(* monthly spend (usage/usage-record.ts, usage/usage-retention.ts,          *)
(* usage/app-usage-accounting.ts, management/usage-reprice.ts and the       *)
(* triggers of migrations 0000, 0006 and 0010).  Recorders retry, nightly   *)
(* runs overlap and fail between any two of their transactions, and a       *)
(* repricing applies what it read earlier.                                  *)
(*                                                                          *)
(* A row that holds a sum is kept unsummed, as what each event contributes  *)
(* to it: every statement here adds, subtracts or drops whole events, so a  *)
(* sum is right exactly when every contribution is.                         *)
(***************************************************************************)
EXTENDS Integers, FiniteSets

CONSTANTS Events,        \* the usage events that may be recorded
          Callers,       \* the user and the install they may name
          NoName,        \* for the one a caller does not name
          Costs,         \* what one may cost, in microdollars
          Prices,        \* what a repricing may make of it
          Runs,          \* the nightly runs that may overlap
          MonthDays,     \* days in a month
          Retention,     \* USAGE_EVENT_RETENTION_DAYS
          DayRetention,  \* USAGE_ROLLUP_DAY_RETENTION_DAYS
          SealBatch,     \* SEAL_DAYS_PER_BATCH
          ChunkRows,     \* CHUNK_ROWS
          MaxLate,       \* bound: days an event may be recorded late, all retries included
          MaxDay         \* bound: the clock stops here

ASSUME LedgerAssumption ==
    /\ MonthDays \in Nat \ {0} /\ SealBatch \in Nat \ {0} /\ ChunkRows \in Nat \ {0}
    /\ Retention \in Nat /\ DayRetention \in Nat /\ MaxDay \in Nat
    /\ MaxLate \in Nat /\ MaxLate < Retention
    /\ Costs \subseteq Nat /\ Prices \subseteq Nat
    /\ \A c \in Callers : DOMAIN c = {"user", "install"}
    /\ IsFiniteSet(Events)

VARIABLES
    today,
    event,     \* what each event is and whether it is being recorded
    id,        \* app_usage_event: the rowid of each event, 0 for none
    cost,      \* app_usage_event.cost_usd, kept when the row is gone
    window,    \* app_usage_day_window: sealed_from, sealed_until
    dayRows,   \* app_usage_day: the days that have a row
    daySum,    \*   what each event contributes to its day's row
    rollup,    \* app_usage_rollup: what each event contributes, by grain
    spendRows, \* app_usage_spend: the ledger months that have a row
    spendSum,  \*   what each event contributes, by scope
    run,       \* what each nightly run is doing
    reprice,   \* the repricing in progress
    known      \* observation: the events whose insert has landed

dayTotals == <<window, dayRows, daySum>>
spend     == <<spendRows, spendSum>>
facts     == <<today, event, id, cost, known>>
vars      == <<facts, dayTotals, rollup, spend, run, reprice>>

Days   == 0..MaxDay
Grains == {"day", "month"}
NamedScopes == {"user", "install"}
Scopes == {"app"} \union NamedScopes
Ids    == 1..Cardinality(Events)

MonthOf(day) == day \div MonthDays
Months == {MonthOf(d) : d \in Days}
EventMonth(e) == MonthOf(event[e].day)

\* The spend ledgers an event moves: its application's, and those of the user and
\* the install it names.
Ledger(scope, e) ==
    <<scope, IF scope \in NamedScopes THEN event[e].caller[scope] ELSE NoName, EventMonth(e)>>
LedgersOf(e) == {"app"} \union {s \in NamedScopes : event[e].caller[s] # NoName}

Rows == {e \in Events : id[e] # 0}

Anonymous  == [user |-> NoName, install |-> NoName]
NotRunning == [phase |-> "idle", now |-> 0, from |-> 0, until |-> 0, cursor |-> 0, next |-> 0]

Init ==
    /\ today = 0
    /\ event = [e \in Events |-> [phase |-> "none", day |-> 0, caller |-> Anonymous]]
    /\ id = [e \in Events |-> 0]
    /\ cost = [e \in Events |-> 0]
    /\ \E until \in {-Retention, 0} : window = [from |-> -Retention, until |-> until]
    /\ dayRows = {}
    /\ daySum = [e \in Events |-> 0]
    /\ rollup = [g \in Grains |-> [e \in Events |-> 0]]
    /\ spendRows = {}
    /\ spendSum = [s \in Scopes |-> [e \in Events |-> 0]]
    /\ run = [r \in Runs |-> NotRunning]
    /\ reprice = [phase |-> "idle", month |-> 0, ids |-> {}, price |-> 0]
    /\ known = {}

-----------------------------------------------------------------------------
(* Recording an event, and the triggers its row fires *)

\* Fault: the window is read as closed at its end.
SealedThrough(w, day) == w.from <= day /\ day <= w.until

Sealed(w, day) == w.from <= day /\ day < w.until

\* createdAt is fixed before the response is observed.
Begin(e) ==
    /\ event[e].phase = "none"
    /\ \E caller \in Callers :
          event' = [event EXCEPT ![e] = [phase |-> "recording", day |-> today, caller |-> caller]]
    /\ UNCHANGED <<today, id, cost, known, dayTotals, rollup, spend, run, reprice>>

\* A row takes the rowid after the largest there is.
FreshId(n) == /\ \A e \in Rows : id[e] < n
              /\ n = 1 \/ \E e \in Rows : id[e] = n - 1

\* app_usage_event_spend_after_insert: nothing is written for a free event.
SpendAfterInsert(e, c) ==
    IF c = 0 THEN UNCHANGED spend
    ELSE /\ spendRows' = spendRows \union {Ledger(s, e) : s \in LedgersOf(e)}
         /\ spendSum' = [s \in Scopes |-> [spendSum[s] EXCEPT
                ![e] = IF s \in LedgersOf(e) THEN @ + c ELSE @]]

\* app_usage_day_after_insert
DayAfterInsert(e, c) ==
    IF Sealed(window, event[e].day)
    THEN /\ dayRows' = dayRows \union {event[e].day}
         /\ daySum' = [daySum EXCEPT ![e] = @ + c]
         /\ UNCHANGED window
    ELSE UNCHANGED dayTotals

\* An attempt to insert: the unique event id makes a repeated one a no-op.
\* It may land without its answer arriving, and then it is made again.
Attempt(e) ==
    /\ event[e].phase = "recording"
    /\ \/ /\ e \notin Rows
          /\ \E n \in Ids, c \in Costs :
                /\ FreshId(n)
                /\ id' = [id EXCEPT ![e] = n]
                /\ cost' = [cost EXCEPT ![e] = c]
                /\ SpendAfterInsert(e, c) /\ DayAfterInsert(e, c)
          /\ known' = known \union {e}
       \/ e \in Rows /\ UNCHANGED <<id, cost, known, spend, dayTotals>>
    /\ \E answer \in {"recording", "done"} : event' = [event EXCEPT ![e].phase = answer]
    /\ UNCHANGED <<today, rollup, run, reprice>>

\* The retries ran out, whether or not one of them landed.
GiveUp(e) ==
    /\ event[e].phase = "recording"
    /\ event' = [event EXCEPT ![e].phase = "done"]
    /\ UNCHANGED <<today, id, cost, known, dayTotals, rollup, spend, run, reprice>>

-----------------------------------------------------------------------------
(* Repricing a month: read the rows, then write new costs to their ids *)

RepriceRead(month, price) ==
    /\ reprice.phase = "idle"
    /\ reprice' = [phase |-> "read", month |-> month, price |-> price,
                   ids |-> {id[e] : e \in {x \in Rows : EventMonth(x) = month}}]
    /\ UNCHANGED <<facts, dayTotals, rollup, spend, run>>

\* The rows the batch updates: whichever hold the ids now.
Repriced == {e \in Rows : id[e] \in reprice.ids}

\* app_usage_event_spend_after_cost_update: the row moves by the difference;
\* where there is none (free events so far) it is made with the new cost.
SpendMoves(s, e) == e \in Repriced /\ s \in LedgersOf(e) /\ reprice.price # cost[e]
SpendAfterUpdate ==
    /\ spendRows' = spendRows \union
           {Ledger(x[1], x[2]) : x \in {y \in Scopes \X Events :
                                        SpendMoves(y[1], y[2]) /\ reprice.price # 0}}
    /\ spendSum' = [s \in Scopes |-> [e \in Events |->
           IF ~SpendMoves(s, e) THEN spendSum[s][e]
           ELSE IF Ledger(s, e) \in spendRows
           THEN spendSum[s][e] + reprice.price - cost[e] ELSE reprice.price]]

\* app_usage_day_after_update: the old row is taken out, the new one put in.
DayAfterUpdate ==
    /\ dayRows' = dayRows \union
           {event[e].day : e \in {x \in Repriced : Sealed(window, event[x].day)}}
    /\ daySum' = [e \in Events |->
           IF e \in Repriced /\ Sealed(window, event[e].day)
           THEN daySum[e] - cost[e] + reprice.price ELSE daySum[e]]
    /\ UNCHANGED window

RepriceApply ==
    /\ reprice.phase = "read"
    /\ reprice' = [reprice EXCEPT !.phase = "idle", !.ids = {}]
    /\ cost' = [e \in Events |-> IF e \in Repriced THEN reprice.price ELSE cost[e]]
    /\ SpendAfterUpdate /\ DayAfterUpdate
    /\ UNCHANGED <<today, event, id, known, rollup, run>>

\* A dry run, or a batch that failed, writes nothing.
RepriceEnds ==
    /\ reprice.phase = "read"
    /\ reprice' = [reprice EXCEPT !.phase = "idle", !.ids = {}]
    /\ UNCHANGED <<facts, dayTotals, rollup, spend, run>>

-----------------------------------------------------------------------------
(* The nightly run: prune spend, seal days, compact events, fold months *)

Cutoff(r) == run[r].now - Retention
Later(a, b)   == IF a > b THEN a ELSE b
Earlier(a, b) == IF a < b THEN a ELSE b

\* The next pass of the run, which keeps nothing of the last but the night's date.
Turns(r, phase) == run' = [run EXCEPT ![r] = [NotRunning EXCEPT !.phase = phase, !.now = run[r].now]]

\* pruneSettledUsageSpend: whole months past retention, and only where every
\* event that could still be repriced is gone.
Settled(l, month) ==
    /\ l[3] < month
    /\ ~\E e \in Rows, s \in Scopes : s \in LedgersOf(e) /\ Ledger(s, e) = l

\* Fault: the months past retention are dropped whatever events they hold.
PrunedByAge(month) == {l \in spendRows : l[3] < month}

Pruned(month) == {l \in spendRows : Settled(l, month)}

\* A run prunes a batch of them, or nothing when its budget or D1 fails it.
Start(r) ==
    /\ run[r].phase = "idle"
    /\ \E gone \in SUBSET Pruned(MonthOf(today - Retention)) :
          /\ spendRows' = spendRows \ gone
          /\ spendSum' = [s \in Scopes |-> [e \in Events |->
                 IF Ledger(s, e) \in gone THEN 0 ELSE spendSum[s][e]]]
    /\ run' = [run EXCEPT ![r].phase = "window", ![r].now = today]
    /\ UNCHANGED <<facts, dayTotals, rollup, reprice>>

ReadWindow(r) ==
    /\ run[r].phase = "window"
    /\ run' = [run EXCEPT ![r].phase = "seal", ![r].from = window.from, ![r].until = window.until]
    /\ UNCHANGED <<facts, dayTotals, rollup, spend, reprice>>

SealFrom(r)  == Later(run[r].from, Cutoff(r))
SealStart(r) == Later(run[r].until, SealFrom(r))
SealEnd(r)   == IF run[r].now > SealStart(r)
                THEN Earlier(SealStart(r) + SealBatch, run[r].now) ELSE SealStart(r)

CaughtUp(r) == run[r].phase = "seal" /\ SealFrom(r) = run[r].from /\ SealEnd(r) = run[r].until

\* Fault: the window is moved from wherever it stands.
MovesAnyWindow(r) == SealFrom(r) <= SealEnd(r)

\* MOVE_WINDOW fails the batch unless the window is still the one this run read.
MovesWindow(r) == window = [from |-> run[r].from, until |-> run[r].until]

NewlySealed(r) == {e \in Rows : SealStart(r) <= event[e].day /\ event[e].day < SealEnd(r)}

\* One batch: move the window, drop the days below it, sum the days admitted.
\* A day that has a row already fails it.
SealDays(r) ==
    /\ run[r].phase = "seal" /\ ~CaughtUp(r)
    /\ MovesWindow(r)
    /\ \A e \in NewlySealed(r) : event[e].day \notin dayRows
    /\ window' = [from |-> SealFrom(r), until |-> SealEnd(r)]
    /\ dayRows' = {d \in dayRows : d >= SealFrom(r)} \union {event[e].day : e \in NewlySealed(r)}
    /\ daySum' = [e \in Events |-> IF e \in NewlySealed(r) THEN cost[e]
                                   ELSE IF event[e].day < SealFrom(r) THEN 0 ELSE daySum[e]]
    /\ run' = [run EXCEPT ![r].from = SealFrom(r), ![r].until = SealEnd(r)]
    /\ UNCHANGED <<facts, rollup, spend, reprice>>

\* A pass ends: caught up, out of budget, or failed (a stale window, a day that
\* has a row, D1).  The next pass runs all the same, down to the run's end.
PassEnds(r) ==
    /\ \/ run[r].phase \in {"window", "seal"} /\ Turns(r, "cursor")
       \/ run[r].phase \in {"cursor", "chunk"} /\ Turns(r, "fold")
       \/ run[r].phase \in {"fold", "month"} /\ run' = [run EXCEPT ![r] = NotRunning]
    /\ UNCHANGED <<facts, dayTotals, rollup, spend, reprice>>

\* The cursor is the oldest id there is; a row left behind in the range just
\* processed ends the pass.
ReadCursor(r) ==
    /\ run[r].phase = "cursor"
    /\ \E e \in Rows :
          /\ \A x \in Rows : id[e] <= id[x]
          /\ id[e] >= run[r].next
          /\ run' = [run EXCEPT ![r].phase = "chunk", ![r].cursor = id[e]]
    /\ UNCHANGED <<facts, dayTotals, rollup, spend, reprice>>

Expired(r) == {e \in Rows : /\ run[r].cursor <= id[e] /\ id[e] < run[r].cursor + ChunkRows
                            /\ event[e].day < Cutoff(r)}

\* One batch: roll the chunk up and delete it.  The delete trigger takes the
\* events out of any day still sealed.
CompactChunk(r) ==
    /\ run[r].phase = "chunk"
    /\ rollup' = [rollup EXCEPT !["day"] = [e \in Events |->
                     IF e \in Expired(r) THEN @[e] + cost[e] ELSE @[e]]]
    /\ id' = [e \in Events |-> IF e \in Expired(r) THEN 0 ELSE id[e]]
    /\ daySum' = [e \in Events |-> IF e \in Expired(r) /\ Sealed(window, event[e].day)
                                   THEN daySum[e] - cost[e] ELSE daySum[e]]
    /\ run' = [run EXCEPT ![r].phase = "cursor", ![r].next = run[r].cursor + ChunkRows]
    /\ UNCHANGED <<today, event, cost, known, window, dayRows, spend, reprice>>

\* The oldest month that is wholly past the day grain.
ReadMonth(r) ==
    /\ run[r].phase = "fold"
    /\ \E month \in Months :
          /\ month < MonthOf(run[r].now - DayRetention)
          /\ \E e \in Events : EventMonth(e) = month /\ rollup["day"][e] # 0
          /\ \A e \in Events : rollup["day"][e] # 0 => EventMonth(e) >= month
          /\ run' = [run EXCEPT ![r].phase = "month", ![r].cursor = month]
    /\ UNCHANGED <<facts, dayTotals, rollup, spend, reprice>>

\* One batch: fold the month's day buckets, whichever they are by now, into its
\* month bucket and drop them.
FoldMonth(r) ==
    /\ run[r].phase = "month"
    /\ rollup' = [g \in Grains |-> [e \in Events |->
           IF EventMonth(e) # run[r].cursor THEN rollup[g][e]
           ELSE IF g = "day" THEN 0 ELSE rollup["month"][e] + rollup["day"][e]]]
    /\ Turns(r, "fold")
    /\ UNCHANGED <<facts, dayTotals, spend, reprice>>

-----------------------------------------------------------------------------
\* Time passes, unless an event would be recorded later than MaxLate days.  A
\* repricing, one request that never reads the clock, ends the day it began.
NextDay ==
    /\ today < MaxDay
    /\ reprice.phase = "idle"
    /\ \A e \in Events : event[e].phase = "recording" => today - event[e].day < MaxLate
    /\ today' = today + 1
    /\ UNCHANGED <<event, id, cost, known, dayTotals, rollup, spend, run, reprice>>

Next ==
    \/ \E e \in Events : Begin(e) \/ Attempt(e) \/ GiveUp(e)
    \/ \E month \in Months, price \in Prices : RepriceRead(month, price)
    \/ RepriceApply \/ RepriceEnds
    \/ \E r \in Runs : \/ Start(r) \/ ReadWindow(r) \/ SealDays(r) \/ PassEnds(r)
                       \/ ReadCursor(r) \/ CompactChunk(r)
                       \/ ReadMonth(r) \/ FoldMonth(r)
    \/ NextDay

Spec == Init /\ [][Next]_vars

-----------------------------------------------------------------------------
(* Properties *)

\* What a month's total, read in one statement, counts of an event: its row
\* unless its day is sealed, its day's row, and both grains of the rollup
\* (usageMonthTotals, organizationMonthUsage).
Reading(e) ==
    (IF e \in Rows /\ ~Sealed(window, event[e].day) THEN cost[e] ELSE 0)
      + daySum[e] + rollup["day"][e] + rollup["month"][e]

\* Every recorded event is counted in its month's total once, at its cost,
\* wherever the nightly runs have moved it: never twice after overlapping runs
\* or a repeated insert, never lost between two places (sealUsageDays: "a day
\* in exactly one place"; CompactUsageEvents: never "counted but not removed").
CountedOnce == \A e \in Events : Reading(e) = IF e \in known THEN cost[e] ELSE 0

\* A budget is judged by what its ledger's events cost: every event that could
\* still be repriced counts, at its current cost, in the ledgers it belongs to,
\* through retries, repricings and pruning (app_usage_spend and its triggers).
SpendIsCost ==
    \A e \in Rows, s \in Scopes :
        /\ spendSum[s][e] = IF s \in LedgersOf(e) THEN cost[e] ELSE 0
        /\ spendSum[s][e] # 0 => Ledger(s, e) \in spendRows

\* A month's total moves only when an event is recorded or repriced: every step
\* of every nightly run is invisible to readers.
Readers == INSTANCE UsageTotals WITH
    Costs <- Costs \union Prices,
    figure <- [e \in Events |-> Reading(e)]
TotalsOnlyMoveByEvents == Readers!Spec

\* A repricing of a month changes no other month's cost ("Recomputes one
\* model's cost, for one provider and one month of one app").
RepricesItsMonth ==
    [][\A e \in Rows : cost'[e] # cost[e] => EventMonth(e) = reprice.month]_vars
=============================================================================
