------------------------- MODULE UsageLedgerProofs -------------------------
(***************************************************************************)
(* What the ledger's readers and a budget see is right for every number of  *)
(* events, runs, batches and days.  The invariant that carries it says of    *)
(* each event where its cost is: nowhere before it is recorded, in its row    *)
(* and its day's sum while it has a row, in the rollup afterwards; and that    *)
(* an event is out of reach of every run's cutoff while it is being recorded. *)
(***************************************************************************)
EXTENDS UsageLedger, FiniteSetTheorems, TLAPS

EventPhases == {"none", "recording", "done"}
RunPhases == {"idle", "window", "seal", "cursor", "chunk", "fold", "month"}

\* Every row, sum and run has the shape the code gives it.
LedgerTypeOK ==
    /\ today \in Nat
    /\ event \in [Events -> [phase: EventPhases, day: Nat, caller: Callers \union {Anonymous}]]
    /\ id \in [Events -> Int]
    /\ cost \in [Events -> Nat]
    /\ window \in [from: Int, until: Int]
    /\ daySum \in [Events -> Int]
    /\ rollup \in [Grains -> [Events -> Int]]
    /\ spendSum \in [Scopes -> [Events -> Int]]
    /\ run \in [Runs -> [phase: RunPhases, now: Nat, from: Int, until: Int, cursor: Int, next: Int]]
    /\ reprice \in [phase: {"idle", "read"}, month: Int, ids: SUBSET Int, price: Int]
    /\ reprice.phase = "read" => reprice.price \in Prices
    /\ known \subseteq Events

\* An event being recorded is younger than any run's cutoff can be.
RecordingIsRecent ==
    /\ \A e \in Events : event[e].phase = "recording" => today - event[e].day <= MaxLate
    /\ \A r \in Runs : run[r].now <= today

\* Where the cost of an event is.
Unrecorded(e) ==
    /\ id[e] = 0 /\ daySum[e] = 0
    /\ \A g \in Grains : rollup[g][e] = 0
    /\ \A s \in Scopes : spendSum[s][e] = 0

InItsRow(e) ==
    /\ event[e].phase # "none"
    /\ \A g \in Grains : rollup[g][e] = 0
    /\ daySum[e] = IF Sealed(window, event[e].day) THEN cost[e] ELSE 0

RolledUp(e) ==
    /\ event[e].phase = "done"
    /\ daySum[e] = 0
    /\ rollup["day"][e] + rollup["month"][e] = cost[e]

Placed(e) ==
    /\ e \notin known => Unrecorded(e)
    /\ e \in known /\ id[e] # 0 => InItsRow(e)
    /\ e \in known /\ id[e] = 0 => RolledUp(e)

LedgerInv ==
    /\ LedgerTypeOK
    /\ RecordingIsRecent
    /\ \A e \in Events : Placed(e)
    /\ SpendIsCost

-----------------------------------------------------------------------------
(* What the operators return.                                                *)

LEMMA LedgerConstants ==
    /\ MonthDays \in Nat \ {0} /\ SealBatch \in Nat \ {0} /\ ChunkRows \in Nat \ {0}
    /\ Retention \in Nat /\ DayRetention \in Nat /\ MaxDay \in Nat
    /\ MaxLate \in Nat /\ MaxLate < Retention
    /\ Costs \subseteq Nat /\ Prices \subseteq Nat
    /\ Cardinality(Events) \in Nat
  BY LedgerAssumption, FS_CardinalityType

\* A ledger is in the scopes an event moves, or the event names nobody there.
LEMMA ScopesOfEvent ==
    ASSUME NEW e \in Events PROVE LedgersOf(e) \subseteq Scopes /\ "app" \in LedgersOf(e)
  BY DEF LedgersOf, Scopes, NamedScopes

LEMMA RowIsKnown ==
    ASSUME LedgerInv, NEW e \in Rows
    PROVE  /\ e \in Events /\ e \in known /\ InItsRow(e)
  BY DEF LedgerInv, Rows, Placed, Unrecorded

\* What a month's total counts of an event, wherever its cost is.
LEMMA ReadingIsCost ==
    ASSUME LedgerInv, NEW e \in Events
    PROVE  Reading(e) = IF e \in known THEN cost[e] ELSE 0
<1>1. /\ cost[e] \in Nat /\ daySum[e] \in Int
      /\ rollup["day"][e] \in Int /\ rollup["month"][e] \in Int
  BY DEF LedgerInv, LedgerTypeOK, Grains
<1>2. "day" \in Grains /\ "month" \in Grains
  BY DEF Grains
<1>3. CASE e \notin known
  BY <1>1, <1>2, <1>3 DEF LedgerInv, Placed, Unrecorded, Reading, Rows
<1>4. CASE e \in known /\ id[e] # 0
  BY <1>1, <1>2, <1>4 DEF LedgerInv, Placed, InItsRow, Reading, Rows
<1>5. CASE e \in known /\ id[e] = 0
  BY <1>1, <1>2, <1>5 DEF LedgerInv, Placed, RolledUp, Reading, Rows
<1> QED BY <1>3, <1>4, <1>5

-----------------------------------------------------------------------------
(* The steps that leave the tables alone.                                    *)

\* What is where the cost of an event is looked for.
Tables == <<event, id, cost, known, dayTotals, rollup, spend>>

LEMMA TablesKeep ==
    ASSUME LedgerInv, UNCHANGED Tables
    PROVE  /\ \A e \in Events : Placed(e)'
           /\ SpendIsCost'
  BY DEF LedgerInv, Tables, dayTotals, spend, Placed, Unrecorded, InItsRow, RolledUp, Sealed,
         SpendIsCost, Rows, LedgersOf, Ledger, EventMonth

\* A nightly run goes on, or a repricing does, and nothing is written.
LEMMA RunsKeep ==
    ASSUME LedgerInv, UNCHANGED <<Tables, today>>, run' \in [Runs -> [phase: RunPhases, now: Nat,
               from: Int, until: Int, cursor: Int, next: Int]],
           \A r \in Runs : run'[r].now <= today,
           reprice' \in [phase: {"idle", "read"}, month: Int, ids: SUBSET Int, price: Int],
           reprice'.phase = "read" => reprice'.price \in Prices
    PROVE  LedgerInv'
<1>1. LedgerTypeOK'
  BY DEF LedgerInv, LedgerTypeOK, Tables, dayTotals, spend
<1>2. RecordingIsRecent'
  BY DEF LedgerInv, RecordingIsRecent, Tables
<1> QED BY <1>1, <1>2, TablesKeep DEF LedgerInv, Tables

LEMMA InitHolds == Init => LedgerInv
<1> SUFFICES ASSUME Init PROVE LedgerInv
  OBVIOUS
<1>1. LedgerTypeOK
  BY LedgerConstants DEF Init, LedgerTypeOK, EventPhases, RunPhases, NotRunning
<1>2. RecordingIsRecent
  BY LedgerConstants DEF Init, RecordingIsRecent, NotRunning
<1>3. ASSUME NEW e \in Events PROVE Placed(e)
  BY <1>3 DEF Init, Placed, Unrecorded
<1>4. SpendIsCost
  BY DEF Init, SpendIsCost, Rows
<1> QED BY <1>1, <1>2, <1>3, <1>4 DEF LedgerInv

LEMMA BeginKeeps == ASSUME LedgerInv, NEW e \in Events, Begin(e) PROVE LedgerInv'
<1> USE DEF Begin
<1>1. PICK caller \in Callers :
         event' = [event EXCEPT ![e] = [phase |-> "recording", day |-> today, caller |-> caller]]
  OBVIOUS
<1>2. LedgerTypeOK'
  BY <1>1 DEF LedgerInv, LedgerTypeOK, dayTotals, spend, EventPhases
<1>3. RecordingIsRecent'
  BY <1>1, LedgerConstants DEF LedgerInv, RecordingIsRecent, LedgerTypeOK
<1>4. e \notin known /\ id[e] = 0
  BY DEF LedgerInv, Placed, Unrecorded, InItsRow, RolledUp
<1>5. \A x \in Events : x # e => event'[x] = event[x]
  BY <1>1 DEF LedgerInv, LedgerTypeOK
<1>6. ASSUME NEW x \in Events PROVE Placed(x)'
  BY <1>4, <1>5 DEF LedgerInv, Placed, Unrecorded, InItsRow, RolledUp, dayTotals, spend, Sealed
<1>7. SpendIsCost'
  BY <1>4, <1>5 DEF LedgerInv, SpendIsCost, Rows, spend, LedgersOf, Ledger, EventMonth
<1> QED BY <1>2, <1>3, <1>6, <1>7 DEF LedgerInv

\* What a step of its recording changes of an event.
LEMMA EventSteps ==
    ASSUME LedgerTypeOK, NEW e \in Events, NEW phase \in EventPhases,
           event' = [event EXCEPT ![e].phase = phase]
    PROVE  /\ \A x \in Events : /\ event'[x].day = event[x].day /\ event'[x].caller = event[x].caller
                                /\ x # e => event'[x] = event[x]
           /\ event'[e].phase = phase
           /\ event' \in [Events -> [phase: EventPhases, day: Nat, caller: Callers \union {Anonymous}]]
  BY DEF LedgerTypeOK

\* An insert that landed is not made again once its row was rolled up: an event
\* still being recorded is too young for that.
LEMMA AttemptKeeps == ASSUME LedgerInv, NEW e \in Events, Attempt(e) PROVE LedgerInv'
<1> USE DEF Attempt
<1>1. PICK answer \in {"recording", "done"} : event' = [event EXCEPT ![e].phase = answer]
  OBVIOUS
<1>2. /\ \A x \in Events : /\ event'[x].day = event[x].day /\ event'[x].caller = event[x].caller
                           /\ x # e => event'[x] = event[x]
      /\ event'[e].phase = answer
      /\ event' \in [Events -> [phase: EventPhases, day: Nat, caller: Callers \union {Anonymous}]]
  BY <1>1, EventSteps DEF LedgerInv, EventPhases
<1>3. RecordingIsRecent'
  BY <1>2 DEF LedgerInv, RecordingIsRecent, LedgerTypeOK
<1>4. \A x \in Events : LedgersOf(x)' = LedgersOf(x) /\ \A s \in Scopes : Ledger(s, x)' = Ledger(s, x)
  BY <1>2 DEF LedgersOf, Ledger, EventMonth
<1>5. CASE e \in Rows /\ UNCHANGED <<id, cost, known, spend, dayTotals>>
  <2>1. LedgerTypeOK'
    BY <1>2, <1>5 DEF LedgerInv, LedgerTypeOK, spend, dayTotals
  <2>2. ASSUME NEW x \in Events PROVE Placed(x)'
    BY <1>2, <1>5 DEF LedgerInv, Placed, Unrecorded, InItsRow, RolledUp, dayTotals, spend, Sealed, Rows
  <2>3. SpendIsCost'
    BY <1>4, <1>5 DEF LedgerInv, SpendIsCost, Rows, spend
  <2> QED BY <1>3, <2>1, <2>2, <2>3 DEF LedgerInv
<1>6. CASE e \notin Rows
  <2>1. PICK n \in Ids, c \in Costs :
           /\ id' = [id EXCEPT ![e] = n] /\ cost' = [cost EXCEPT ![e] = c]
           /\ SpendAfterInsert(e, c) /\ DayAfterInsert(e, c) /\ known' = known \union {e}
    BY <1>6
  <2>2. e \notin known /\ Unrecorded(e)
    BY <1>6 DEF LedgerInv, Placed, RolledUp, Rows
  <2>3. n \in Int /\ n # 0 /\ c \in Nat
    BY LedgerConstants DEF Ids
  <2>4. /\ cost'[e] = c /\ id'[e] = n
        /\ \A x \in Events : x # e => cost'[x] = cost[x] /\ id'[x] = id[x]
    BY <2>1 DEF LedgerInv, LedgerTypeOK
  <2>5. /\ window' = window
        /\ daySum' = [daySum EXCEPT ![e] = IF Sealed(window, event[e].day) THEN @ + c ELSE @]
    BY <2>1 DEF DayAfterInsert, dayTotals, LedgerInv, LedgerTypeOK
  <2>6. /\ \A s \in Scopes, x \in Events : x # e => spendSum'[s][x] = spendSum[s][x]
        /\ \A s \in Scopes : spendSum'[s][e] = IF s \in LedgersOf(e) THEN c ELSE 0
        /\ spendSum' \in [Scopes -> [Events -> Int]]
        /\ spendRows \subseteq spendRows'
        /\ c # 0 => \A s \in LedgersOf(e) : Ledger(s, e) \in spendRows'
    <3>1. CASE c = 0
      BY <2>1, <2>2, <3>1 DEF SpendAfterInsert, spend, LedgerInv, LedgerTypeOK, Unrecorded
    <3>2. CASE c # 0
      <4>1. /\ spendRows' = spendRows \union {Ledger(s, e) : s \in LedgersOf(e)}
            /\ spendSum' = [s \in Scopes |-> [spendSum[s] EXCEPT
                  ![e] = IF s \in LedgersOf(e) THEN @ + c ELSE @]]
        BY <2>1, <3>2 DEF SpendAfterInsert
      <4> QED BY <2>2, <2>3, <4>1 DEF LedgerInv, LedgerTypeOK, Unrecorded
    <3> QED BY <3>1, <3>2
  <2>7. LedgerTypeOK'
    <3>1. /\ id' \in [Events -> Int] /\ cost' \in [Events -> Nat] /\ known' \subseteq Events
          /\ daySum' \in [Events -> Int]
      BY <2>1, <2>3, <2>5 DEF LedgerInv, LedgerTypeOK
    <3> QED BY <1>2, <2>5, <2>6, <3>1 DEF LedgerInv, LedgerTypeOK
  <2>8. ASSUME NEW x \in Events PROVE Placed(x)'
    <3>1. CASE x # e
      BY <1>2, <2>1, <2>4, <2>5, <2>6, <3>1
         DEF LedgerInv, LedgerTypeOK, Placed, Unrecorded, InItsRow, RolledUp, Sealed
    <3>2. CASE x = e
      <4>1. daySum'[e] = IF Sealed(window, event[e].day) THEN c ELSE 0
        BY <2>2, <2>3, <2>5 DEF LedgerInv, LedgerTypeOK, Unrecorded
      <4>2. InItsRow(e)'
        BY <1>2, <2>2, <2>4, <2>5, <4>1 DEF Unrecorded, InItsRow, Sealed
      <4> QED BY <2>1, <2>3, <2>4, <3>2, <4>2 DEF Placed
    <3> QED BY <3>1, <3>2
  <2>9. SpendIsCost'
    BY <1>4, <2>3, <2>4, <2>6 DEF LedgerInv, SpendIsCost, Rows
  <2> QED BY <1>3, <2>7, <2>8, <2>9 DEF LedgerInv
<1> QED BY <1>5, <1>6

LEMMA GiveUpKeeps == ASSUME LedgerInv, NEW e \in Events, GiveUp(e) PROVE LedgerInv'
<1> USE DEF GiveUp
<1>1. /\ \A x \in Events : /\ event'[x].day = event[x].day /\ event'[x].caller = event[x].caller
                           /\ x # e => event'[x] = event[x]
      /\ event'[e].phase = "done"
      /\ event' \in [Events -> [phase: EventPhases, day: Nat, caller: Callers \union {Anonymous}]]
  BY EventSteps DEF LedgerInv, EventPhases
<1>2. LedgerTypeOK'
  BY <1>1 DEF LedgerInv, LedgerTypeOK, dayTotals, spend
<1>3. RecordingIsRecent'
  BY <1>1 DEF LedgerInv, RecordingIsRecent, LedgerTypeOK
<1>4. ASSUME NEW x \in Events PROVE Placed(x)'
  BY <1>1 DEF LedgerInv, Placed, Unrecorded, InItsRow, RolledUp, dayTotals, spend, Sealed
<1>5. SpendIsCost'
  BY <1>1 DEF LedgerInv, SpendIsCost, Rows, spend, LedgersOf, Ledger, EventMonth
<1> QED BY <1>2, <1>3, <1>4, <1>5 DEF LedgerInv

-----------------------------------------------------------------------------
(* A repricing                                                               *)

LEMMA MonthIsInt == ASSUME NEW day \in Int PROVE MonthOf(day) \in Int
  BY LedgerConstants DEF MonthOf

LEMMA RepriceReadKeeps ==
    ASSUME LedgerInv, NEW month \in Months, NEW price \in Prices, RepriceRead(month, price)
    PROVE  LedgerInv'
<1>1. UNCHANGED <<Tables, today, run>>
  BY DEF RepriceRead, Tables, facts, dayTotals, spend
<1>2. month \in Int /\ price \in Int
  BY MonthIsInt, LedgerConstants DEF Months, Days
<1>3. {id[e] : e \in {x \in Rows : EventMonth(x) = month}} \subseteq Int
  BY DEF LedgerInv, LedgerTypeOK, Rows
<1>4. /\ reprice' \in [phase: {"idle", "read"}, month: Int, ids: SUBSET Int, price: Int]
      /\ reprice'.price = price
  BY <1>2, <1>3 DEF RepriceRead
<1> QED BY <1>1, <1>4, RunsKeep DEF LedgerInv, LedgerTypeOK, RecordingIsRecent

LEMMA RepriceEndsKeeps == ASSUME LedgerInv, RepriceEnds PROVE LedgerInv'
<1>1. UNCHANGED <<Tables, today, run>>
  BY DEF RepriceEnds, Tables, facts, dayTotals, spend
<1>2. /\ reprice' \in [phase: {"idle", "read"}, month: Int, ids: SUBSET Int, price: Int]
      /\ reprice'.phase = "idle"
  BY DEF RepriceEnds, LedgerInv, LedgerTypeOK
<1> QED BY <1>1, <1>2, RunsKeep DEF LedgerInv, LedgerTypeOK, RecordingIsRecent

\* The rows a repricing finds under the ids it read take its price, in every
\* ledger and every sealed day they count in.
LEMMA RepriceApplyKeeps == ASSUME LedgerInv, RepriceApply PROVE LedgerInv'
<1> DEFINE price == reprice.price
<1> USE DEF RepriceApply
<1>1. price \in Nat /\ price \in Prices /\ Repriced \subseteq Rows /\ Rows \subseteq Events
  BY LedgerConstants DEF LedgerInv, LedgerTypeOK, Repriced, Rows
<1>2. /\ reprice' \in [phase: {"idle", "read"}, month: Int, ids: SUBSET Int, price: Int]
      /\ reprice'.phase = "idle"
  BY DEF LedgerInv, LedgerTypeOK
<1>3. /\ cost' \in [Events -> Nat]
      /\ \A e \in Events : cost'[e] = IF e \in Repriced THEN price ELSE cost[e]
  BY <1>1 DEF LedgerInv, LedgerTypeOK
<1>4. /\ daySum' \in [Events -> Int]
      /\ \A e \in Events : daySum'[e] = IF e \in Repriced /\ Sealed(window, event[e].day)
                                       THEN daySum[e] - cost[e] + price ELSE daySum[e]
  BY <1>1 DEF DayAfterUpdate, LedgerInv, LedgerTypeOK
<1>5. ASSUME NEW s \in Scopes, NEW e \in Events
      PROVE  /\ spendSum'[s][e] \in Int
             /\ ~SpendMoves(s, e) => spendSum'[s][e] = spendSum[s][e]
             /\ SpendMoves(s, e) => spendSum'[s][e] = price
  <2>1. spendSum[s][e] \in Int /\ cost[e] \in Nat
    BY DEF LedgerInv, LedgerTypeOK
  <2>2. spendSum'[s][e] = IF ~SpendMoves(s, e) THEN spendSum[s][e]
                          ELSE IF Ledger(s, e) \in spendRows
                          THEN spendSum[s][e] + reprice.price - cost[e] ELSE reprice.price
    BY DEF SpendAfterUpdate
  <2>3. SpendMoves(s, e) => spendSum[s][e] = cost[e]
    BY <1>1 DEF SpendMoves, LedgerInv, SpendIsCost
  <2> QED BY <1>1, <2>1, <2>2, <2>3
<1>6. /\ spendRows \subseteq spendRows'
      /\ \A s \in Scopes, e \in Events :
            SpendMoves(s, e) /\ price # 0 => Ledger(s, e) \in spendRows'
  <2>1. ASSUME NEW s \in Scopes, NEW e \in Events, SpendMoves(s, e), price # 0
        PROVE  Ledger(s, e) \in spendRows'
    <3>1. <<s, e>> \in {y \in Scopes \X Events : SpendMoves(y[1], y[2]) /\ reprice.price # 0}
      BY <2>1
    <3> QED BY <3>1 DEF SpendAfterUpdate
  <2> QED BY <2>1 DEF SpendAfterUpdate
<1>7. spendSum' \in [Scopes -> [Events -> Int]]
  <2>1. \A s \in Scopes : spendSum'[s] \in [Events -> Int]
    BY <1>5 DEF SpendAfterUpdate
  <2> QED BY <2>1 DEF SpendAfterUpdate
<1>8. LedgerTypeOK'
  BY <1>2, <1>3, <1>4, <1>7 DEF LedgerInv, LedgerTypeOK, DayAfterUpdate
<1>9. RecordingIsRecent'
  BY DEF LedgerInv, RecordingIsRecent
<1>10. ASSUME NEW e \in Events PROVE Placed(e)'
  <2>1. CASE e \in Repriced
    <3>1. InItsRow(e) /\ e \in known /\ id[e] # 0
      BY <1>1, <2>1, RowIsKnown DEF Rows
    <3>2. InItsRow(e)'
      BY <1>1, <1>3, <1>4, <2>1, <3>1 DEF InItsRow, DayAfterUpdate, Sealed, LedgerInv, LedgerTypeOK
    <3> QED BY <3>1, <3>2 DEF Placed
  <2>2. CASE e \notin Repriced
    <3>1. \A s \in Scopes : spendSum'[s][e] = spendSum[s][e]
      BY <1>5, <2>2 DEF SpendMoves
    <3> QED BY <1>3, <1>4, <2>2, <3>1
            DEF LedgerInv, Placed, Unrecorded, InItsRow, RolledUp, DayAfterUpdate, Sealed
  <2> QED BY <2>1, <2>2
<1>11. SpendIsCost'
  <2> SUFFICES ASSUME NEW e \in Rows', NEW s \in Scopes
               PROVE  /\ spendSum'[s][e] = IF s \in LedgersOf(e)' THEN cost'[e] ELSE 0
                      /\ spendSum'[s][e] # 0 => Ledger(s, e)' \in spendRows'
    BY DEF SpendIsCost
  <2>1. e \in Rows /\ e \in Events /\ LedgersOf(e)' = LedgersOf(e) /\ Ledger(s, e)' = Ledger(s, e)
    BY DEF Rows, LedgersOf, Ledger, EventMonth
  <2>2. CASE SpendMoves(s, e)
    BY <1>3, <1>5, <1>6, <2>1, <2>2 DEF SpendMoves
  <2>3. CASE ~SpendMoves(s, e)
    BY <1>1, <1>3, <1>5, <1>6, <2>1, <2>3 DEF SpendMoves, LedgerInv, SpendIsCost
  <2> QED BY <2>2, <2>3
<1> QED BY <1>8, <1>9, <1>10, <1>11 DEF LedgerInv

-----------------------------------------------------------------------------
(* The nightly run                                                           *)

RunRecords == [phase: RunPhases, now: Nat, from: Int, until: Int, cursor: Int, next: Int]

\* A step of one run leaves the others, and is a run's step if its record is one.
LEMMA RunSteps ==
    ASSUME run \in [Runs -> RunRecords], NEW r \in Runs, NEW record \in RunRecords,
           run' = [run EXCEPT ![r] = record]
    PROVE  /\ run' \in [Runs -> RunRecords]
           /\ \A q \in Runs : run'[q].now = IF q = r THEN record.now ELSE run[q].now
  BY DEF RunRecords

LEMMA TurnsKeep ==
    ASSUME run \in [Runs -> RunRecords], NEW r \in Runs, NEW phase \in RunPhases, Turns(r, phase)
    PROVE  run' \in [Runs -> RunRecords] /\ \A q \in Runs : run'[q].now = run[q].now
<1>1. PICK record : record = [NotRunning EXCEPT !.phase = phase, !.now = run[r].now]
  OBVIOUS
<1>2. NotRunning \in RunRecords /\ run[r].now \in Nat
  BY DEF NotRunning, RunRecords, RunPhases
<1>3. record \in RunRecords /\ record.now = run[r].now
  BY <1>1, <1>2 DEF RunRecords
<1>4. run' = [run EXCEPT ![r] = record]
  BY <1>1 DEF Turns
<1> QED BY <1>3, <1>4, RunSteps

\* Only a ledger that no event with a row is of is dropped.
LEMMA StartKeeps == ASSUME LedgerInv, NEW r \in Runs, Start(r) PROVE LedgerInv'
<1> USE DEF Start
<1>1. PICK gone \in SUBSET Pruned(MonthOf(today - Retention)) :
         /\ spendRows' = spendRows \ gone
         /\ spendSum' = [s \in Scopes |-> [e \in Events |->
                 IF Ledger(s, e) \in gone THEN 0 ELSE spendSum[s][e]]]
  OBVIOUS
<1>2. /\ run' \in [Runs -> RunRecords]
      /\ \A q \in Runs : run'[q].now <= today
  <2>1. /\ run \in [Runs -> RunRecords] /\ today \in Nat
        /\ \A q \in Runs : run[q].now <= today
    BY DEF RunRecords, LedgerInv, LedgerTypeOK, RecordingIsRecent
  <2>2. PICK record : record = [run[r] EXCEPT !.phase = "window", !.now = today]
    OBVIOUS
  <2>3. record \in RunRecords /\ record.now = today
    BY <2>1, <2>2 DEF RunRecords, RunPhases
  <2>4. run' = [run EXCEPT ![r] = record]
    BY <2>1, <2>2
  <2> QED BY <2>1, <2>3, <2>4, RunSteps
<1>3. spendSum' \in [Scopes -> [Events -> Int]]
  BY <1>1 DEF LedgerInv, LedgerTypeOK
<1>4. LedgerTypeOK'
  BY <1>2, <1>3 DEF RunRecords, LedgerInv, LedgerTypeOK, facts, dayTotals
<1>5. RecordingIsRecent'
  BY <1>2 DEF LedgerInv, RecordingIsRecent, facts
<1>6. ASSUME NEW e \in Events PROVE Placed(e)'
  BY <1>1 DEF LedgerInv, Placed, Unrecorded, InItsRow, RolledUp, facts, dayTotals, Sealed
<1>7. SpendIsCost'
  <2> SUFFICES ASSUME NEW e \in Rows', NEW s \in Scopes
               PROVE  /\ spendSum'[s][e] = IF s \in LedgersOf(e)' THEN cost'[e] ELSE 0
                      /\ spendSum'[s][e] # 0 => Ledger(s, e)' \in spendRows'
    BY DEF SpendIsCost
  <2>1. /\ e \in Rows /\ e \in Events /\ cost' = cost
        /\ LedgersOf(e)' = LedgersOf(e) /\ Ledger(s, e)' = Ledger(s, e)
    BY DEF facts, Rows, LedgersOf, Ledger, EventMonth
  <2>2. s \in LedgersOf(e) => Ledger(s, e) \notin gone
    BY <2>1 DEF Pruned, Settled
  <2>3. /\ spendSum[s][e] = IF s \in LedgersOf(e) THEN cost[e] ELSE 0
        /\ spendSum[s][e] # 0 => Ledger(s, e) \in spendRows
    BY <2>1 DEF LedgerInv, SpendIsCost
  <2>4. spendSum'[s][e] = IF Ledger(s, e) \in gone THEN 0 ELSE spendSum[s][e]
    BY <1>1, <2>1
  <2> QED BY <1>1, <2>1, <2>2, <2>3, <2>4
<1> QED BY <1>4, <1>5, <1>6, <1>7 DEF LedgerInv

\* The steps of a run that only read, and its turns from one pass to the next.
LEMMA ReadsKeep ==
    ASSUME LedgerInv, NEW r \in Runs,
           ReadWindow(r) \/ PassEnds(r) \/ ReadCursor(r) \/ ReadMonth(r)
    PROVE  LedgerInv'
<1>1. UNCHANGED <<Tables, today, reprice>>
  BY DEF ReadWindow, PassEnds, ReadCursor, ReadMonth, Tables, facts, dayTotals, spend
<1>2. run \in [Runs -> RunRecords] /\ window \in [from: Int, until: Int] /\ id \in [Events -> Int]
  BY DEF LedgerInv, LedgerTypeOK, RunRecords
<1>3. run' \in [Runs -> RunRecords] /\ \A q \in Runs : run'[q].now <= today
  <2>0. \A q \in Runs : run[q].now <= today
    BY DEF LedgerInv, RecordingIsRecent
  <2>1. CASE ReadWindow(r)
    <3>1. PICK record : record = [run[r] EXCEPT !.phase = "seal", !.from = window.from, !.until = window.until]
      OBVIOUS
    <3>2. record \in RunRecords /\ record.now = run[r].now
      BY <1>2, <3>1 DEF RunRecords, RunPhases
    <3>3. run' = [run EXCEPT ![r] = record]
      BY <1>2, <2>1, <3>1 DEF ReadWindow
    <3> QED BY <1>2, <2>0, <3>2, <3>3, RunSteps
  <2>2. CASE PassEnds(r)
    <3>1. CASE run' = [run EXCEPT ![r] = NotRunning]
      BY <1>2, <3>1 DEF NotRunning, RunRecords, RunPhases, LedgerInv, LedgerTypeOK, RecordingIsRecent
    <3>2. CASE Turns(r, "cursor") \/ Turns(r, "fold")
      BY <1>2, <2>0, <3>2, TurnsKeep DEF RunPhases
    <3> QED BY <2>2, <3>1, <3>2 DEF PassEnds
  <2>3. CASE ReadCursor(r)
    <3>1. PICK e \in Rows : run' = [run EXCEPT ![r].phase = "chunk", ![r].cursor = id[e]]
      BY <2>3 DEF ReadCursor
    <3>2. id[e] \in Int
      BY <1>2 DEF Rows
    <3> QED BY <1>2, <3>1, <3>2 DEF RunRecords, RunPhases, LedgerInv, RecordingIsRecent
  <2>4. CASE ReadMonth(r)
    <3>1. PICK month \in Months : run' = [run EXCEPT ![r].phase = "month", ![r].cursor = month]
      BY <2>4 DEF ReadMonth
    <3>2. month \in Int
      BY MonthIsInt, LedgerConstants DEF Months, Days
    <3> QED BY <1>2, <3>1, <3>2 DEF RunRecords, RunPhases, LedgerInv, RecordingIsRecent
  <2> QED BY <2>1, <2>2, <2>3, <2>4
<1> QED BY <1>1, <1>3, RunsKeep DEF RunRecords, LedgerInv, LedgerTypeOK

\* Of a day between the old window and the new one, the sum is made of the rows;
\* of a day below the new window it is dropped; of any other it is as it was.
LEMMA SealDaysKeeps == ASSUME LedgerInv, NEW r \in Runs, SealDays(r) PROVE LedgerInv'
<1> USE DEF SealDays
<1>1. /\ run[r].from \in Int /\ run[r].until \in Int /\ run[r].now \in Nat
      /\ window.from = run[r].from /\ window.until = run[r].until
  BY DEF MovesWindow, LedgerInv, LedgerTypeOK
<1>2. SealFrom(r) \in Int /\ SealFrom(r) >= window.from
  BY <1>1, LedgerConstants DEF SealFrom, Later, Cutoff
<1>3. /\ SealStart(r) \in Int /\ SealStart(r) >= SealFrom(r) /\ SealStart(r) >= window.until
      /\ SealStart(r) = window.until \/ SealStart(r) = SealFrom(r)
  BY <1>1, <1>2 DEF SealStart, Later
<1>4. SealEnd(r) \in Int /\ SealEnd(r) >= SealStart(r)
  BY <1>1, <1>3, LedgerConstants DEF SealEnd, Earlier
<1>5. window' = [from |-> SealFrom(r), until |-> SealEnd(r)]
  OBVIOUS
<1>6. \A e \in Events : event[e].day \in Nat /\ cost[e] \in Nat /\ daySum[e] \in Int
  BY DEF LedgerInv, LedgerTypeOK
<1>7. /\ daySum' \in [Events -> Int]
      /\ \A e \in Events : daySum'[e] = IF e \in NewlySealed(r) THEN cost[e]
                                   ELSE IF event[e].day < SealFrom(r) THEN 0 ELSE daySum[e]
  BY <1>6
<1>8. run' \in [Runs -> RunRecords] /\ \A q \in Runs : run'[q].now = run[q].now
  BY <1>2, <1>4 DEF LedgerInv, LedgerTypeOK, RunRecords
<1>9. LedgerTypeOK'
  BY <1>2, <1>4, <1>5, <1>7, <1>8 DEF LedgerInv, LedgerTypeOK, RunRecords, facts, spend
<1>10. RecordingIsRecent'
  BY <1>8 DEF LedgerInv, RecordingIsRecent, facts
<1>11. ASSUME NEW e \in Events PROVE Placed(e)'
  <2>1. /\ UNCHANGED <<event, id, cost, known, rollup, spendSum>>
        /\ Sealed(window', event[e].day) <=> SealFrom(r) <= event[e].day /\ event[e].day < SealEnd(r)
    BY <1>5 DEF facts, spend, Sealed
  <2>2. CASE e \in Rows
    <3>1. e \in NewlySealed(r) <=> SealStart(r) <= event[e].day /\ event[e].day < SealEnd(r)
      BY <2>2 DEF NewlySealed
    <3>2. daySum[e] = IF Sealed(window, event[e].day) THEN cost[e] ELSE 0
      BY <2>2, RowIsKnown DEF InItsRow
    <3>3. daySum'[e] = IF SealFrom(r) <= event[e].day /\ event[e].day < SealEnd(r) THEN cost[e] ELSE 0
      <4>1. CASE event[e].day < SealFrom(r)
        BY <1>2, <1>3, <1>4, <1>6, <1>7, <3>1, <4>1
      <4>2. CASE SealFrom(r) <= event[e].day /\ event[e].day < SealStart(r)
        <5>1. Sealed(window, event[e].day)
          BY <1>1, <1>2, <1>3, <1>6, <4>2 DEF Sealed
        <5> QED BY <1>2, <1>3, <1>4, <1>6, <1>7, <3>1, <3>2, <4>2, <5>1
      <4>3. CASE SealStart(r) <= event[e].day /\ event[e].day < SealEnd(r)
        BY <1>2, <1>3, <1>4, <1>6, <1>7, <3>1, <4>3
      <4>4. CASE SealEnd(r) <= event[e].day
        <5>1. ~Sealed(window, event[e].day)
          BY <1>1, <1>3, <1>4, <1>6, <4>4 DEF Sealed
        <5> QED BY <1>2, <1>3, <1>4, <1>6, <1>7, <3>1, <3>2, <4>4, <5>1
      <4> QED BY <1>2, <1>3, <1>4, <1>6, <4>1, <4>2, <4>3, <4>4
    <3>4. InItsRow(e) /\ e \in known /\ id[e] # 0
      BY <2>2, RowIsKnown DEF Rows
    <3> QED BY <2>1, <3>3, <3>4 DEF Placed, InItsRow
  <2>3. CASE e \notin Rows
    <3>1. id[e] = 0 /\ daySum[e] = 0
      BY <2>3 DEF Rows, LedgerInv, Placed, Unrecorded, RolledUp
    <3>2. daySum'[e] = 0
      BY <1>7, <2>3, <3>1 DEF NewlySealed
    <3> QED BY <2>1, <3>1, <3>2 DEF LedgerInv, Placed, Unrecorded, RolledUp
  <2> QED BY <2>2, <2>3
<1>12. SpendIsCost'
  BY DEF LedgerInv, SpendIsCost, facts, spend, Rows, LedgersOf, Ledger, EventMonth
<1> QED BY <1>9, <1>10, <1>11, <1>12 DEF LedgerInv

\* A row that is rolled up is past retention, so its event is not being recorded.
LEMMA CompactChunkKeeps == ASSUME LedgerInv, NEW r \in Runs, CompactChunk(r) PROVE LedgerInv'
<1> USE DEF CompactChunk
<1>1. \A e \in Events : /\ event[e].day \in Nat /\ cost[e] \in Nat /\ daySum[e] \in Int /\ id[e] \in Int
                        /\ rollup["day"][e] \in Int /\ rollup["month"][e] \in Int
  BY DEF LedgerInv, LedgerTypeOK, Grains
<1>2. Expired(r) \subseteq Rows /\ Rows \subseteq Events
  BY DEF Expired, Rows
<1>3. ASSUME NEW e \in Expired(r) PROVE event[e].phase = "done"
  <2>1. event[e].day < today - MaxLate
    BY <1>1, <1>2, LedgerConstants DEF Expired, Cutoff, LedgerInv, LedgerTypeOK, RecordingIsRecent
  <2>2. event[e].phase # "recording"
    BY <1>1, <1>2, <2>1, LedgerConstants DEF LedgerInv, LedgerTypeOK, RecordingIsRecent
  <2>3. event[e].phase # "none" /\ event[e].phase \in EventPhases
    BY <1>2, RowIsKnown DEF InItsRow, LedgerInv, LedgerTypeOK
  <2> QED BY <2>2, <2>3 DEF EventPhases
<1>4. /\ rollup' \in [Grains -> [Events -> Int]]
      /\ \A e \in Events : /\ rollup'["month"][e] = rollup["month"][e]
                           /\ rollup'["day"][e] = IF e \in Expired(r) THEN rollup["day"][e] + cost[e]
                                                  ELSE rollup["day"][e]
  BY <1>1 DEF LedgerInv, LedgerTypeOK, Grains
<1>5. /\ id' \in [Events -> Int]
      /\ \A e \in Events : id'[e] = IF e \in Expired(r) THEN 0 ELSE id[e]
  BY <1>1
<1>6. /\ daySum' \in [Events -> Int]
      /\ \A e \in Events : daySum'[e] = IF e \in Expired(r) /\ Sealed(window, event[e].day)
                                        THEN daySum[e] - cost[e] ELSE daySum[e]
  BY <1>1
<1>7. run' \in [Runs -> RunRecords] /\ \A q \in Runs : run'[q].now = run[q].now
  <2>1. run \in [Runs -> RunRecords]
    BY DEF LedgerInv, LedgerTypeOK, RunRecords
  <2>2. PICK record : record = [run[r] EXCEPT !.phase = "cursor", !.next = run[r].cursor + ChunkRows]
    OBVIOUS
  <2>3. run[r].cursor + ChunkRows \in Int
    BY <2>1, LedgerConstants DEF RunRecords
  <2>4. record \in RunRecords /\ record.now = run[r].now
    BY <2>1, <2>2, <2>3 DEF RunRecords, RunPhases
  <2>5. run' = [run EXCEPT ![r] = record]
    BY <2>1, <2>2
  <2> QED BY <2>1, <2>4, <2>5, RunSteps
<1>8. LedgerTypeOK'
  BY <1>4, <1>5, <1>6, <1>7 DEF LedgerInv, LedgerTypeOK, RunRecords, spend
<1>9. RecordingIsRecent'
  BY <1>7 DEF LedgerInv, RecordingIsRecent
<1>10. ASSUME NEW e \in Events PROVE Placed(e)'
  <2>1. CASE e \in Expired(r)
    <3>1. e \in known /\ InItsRow(e)
      BY <1>2, <2>1, RowIsKnown
    <3>2. daySum'[e] = 0
      BY <1>1, <1>6, <2>1, <3>1 DEF InItsRow
    <3>3. rollup["day"][e] = 0 /\ rollup["month"][e] = 0
      BY <3>1 DEF InItsRow, Grains
    <3>4. rollup'["day"][e] + rollup'["month"][e] = cost[e]
      BY <1>1, <1>4, <2>1, <3>3
    <3> QED BY <1>3, <1>5, <2>1, <3>1, <3>2, <3>4 DEF Placed, RolledUp
  <2>2. CASE e \notin Expired(r)
    <3>1. /\ id'[e] = id[e] /\ daySum'[e] = daySum[e] /\ \A g \in Grains : rollup'[g][e] = rollup[g][e]
          /\ UNCHANGED <<event, cost, known, window, spendSum>>
      BY <1>4, <1>5, <1>6, <2>2 DEF Grains, spend
    <3> QED BY <3>1 DEF LedgerInv, Placed, Unrecorded, InItsRow, RolledUp, Sealed, Grains
  <2> QED BY <2>1, <2>2
<1>11. SpendIsCost'
  <2>1. Rows' \subseteq Rows
    BY <1>5 DEF Rows
  <2> QED BY <2>1 DEF LedgerInv, SpendIsCost, spend, LedgersOf, Ledger, EventMonth
<1> QED BY <1>8, <1>9, <1>10, <1>11 DEF LedgerInv

\* The two grains of the rollup together count what they counted.
LEMMA FoldMonthKeeps == ASSUME LedgerInv, NEW r \in Runs, FoldMonth(r) PROVE LedgerInv'
<1> USE DEF FoldMonth
<1>1. \A e \in Events : rollup["day"][e] \in Int /\ rollup["month"][e] \in Int /\ cost[e] \in Nat
  BY DEF LedgerInv, LedgerTypeOK, Grains
<1>2. \A e \in Events :
        /\ rollup'["day"][e] = IF EventMonth(e) # run[r].cursor THEN rollup["day"][e] ELSE 0
        /\ rollup'["month"][e] = IF EventMonth(e) # run[r].cursor THEN rollup["month"][e]
                                 ELSE rollup["month"][e] + rollup["day"][e]
  BY DEF Grains
<1>3. rollup' \in [Grains -> [Events -> Int]]
  <2>1. \A g \in Grains, e \in Events : rollup'[g][e] \in Int
    BY <1>1, <1>2 DEF Grains
  <2> QED BY <2>1
<1>4. run' \in [Runs -> RunRecords] /\ \A q \in Runs : run'[q].now = run[q].now
  BY TurnsKeep DEF LedgerInv, LedgerTypeOK, RunRecords, RunPhases
<1>5. LedgerTypeOK'
  BY <1>3, <1>4 DEF LedgerInv, LedgerTypeOK, RunRecords, facts, dayTotals, spend
<1>6. RecordingIsRecent'
  BY <1>4 DEF LedgerInv, RecordingIsRecent, facts
<1>7. ASSUME NEW e \in Events PROVE Placed(e)'
  <2>1. UNCHANGED <<event, id, cost, known, window, daySum, spendSum>>
    BY DEF facts, dayTotals, spend
  <2>2. (\A g \in Grains : rollup[g][e] = 0) => \A g \in Grains : rollup'[g][e] = 0
    BY <1>2 DEF Grains
  <2>3. rollup'["day"][e] + rollup'["month"][e] = rollup["day"][e] + rollup["month"][e]
    BY <1>1, <1>2
  <2> QED BY <2>1, <2>2, <2>3 DEF LedgerInv, Placed, Unrecorded, InItsRow, RolledUp, Sealed
<1>8. SpendIsCost'
  BY DEF LedgerInv, SpendIsCost, facts, spend, Rows, LedgersOf, Ledger, EventMonth
<1> QED BY <1>5, <1>6, <1>7, <1>8 DEF LedgerInv

LEMMA NextDayKeeps == ASSUME LedgerInv, NextDay PROVE LedgerInv'
<1> USE DEF NextDay
<1>1. UNCHANGED Tables
  BY DEF Tables
<1>2. LedgerTypeOK'
  BY DEF LedgerInv, LedgerTypeOK, dayTotals, spend
<1>3. RecordingIsRecent'
  BY LedgerConstants DEF LedgerInv, LedgerTypeOK, RecordingIsRecent
<1> QED BY <1>1, <1>2, <1>3, TablesKeep DEF LedgerInv, Tables

-----------------------------------------------------------------------------
(* The theorems                                                              *)

LEMMA LedgerKeeps == LedgerInv /\ [Next]_vars => LedgerInv'
<1> SUFFICES ASSUME LedgerInv, [Next]_vars PROVE LedgerInv'
  OBVIOUS
<1>1. ASSUME NEW e \in Events, Begin(e) \/ Attempt(e) \/ GiveUp(e) PROVE LedgerInv'
  BY <1>1, BeginKeeps, AttemptKeeps, GiveUpKeeps
<1>2. ASSUME NEW month \in Months, NEW price \in Prices, RepriceRead(month, price) PROVE LedgerInv'
  BY <1>2, RepriceReadKeeps
<1>3. CASE RepriceApply \/ RepriceEnds
  BY <1>3, RepriceApplyKeeps, RepriceEndsKeeps
<1>4. ASSUME NEW r \in Runs,
             \/ Start(r) \/ ReadWindow(r) \/ SealDays(r) \/ PassEnds(r)
             \/ ReadCursor(r) \/ CompactChunk(r) \/ ReadMonth(r) \/ FoldMonth(r)
      PROVE  LedgerInv'
  BY <1>4, StartKeeps, ReadsKeep, SealDaysKeeps, CompactChunkKeeps, FoldMonthKeeps
<1>5. CASE NextDay
  BY <1>5, NextDayKeeps
<1>6. CASE UNCHANGED vars
  <2>1. UNCHANGED <<Tables, today, run, reprice>>
    BY <1>6 DEF vars, facts, Tables
  <2> QED BY <2>1, RunsKeep DEF LedgerInv, LedgerTypeOK, RecordingIsRecent
<1> QED BY <1>1, <1>2, <1>3, <1>4, <1>5, <1>6 DEF Next

THEOREM LedgerInvariance == Spec => []LedgerInv
  BY InitHolds, LedgerKeeps, PTL DEF Spec

\* Every recorded event counts in its month's total once, at its cost, whatever
\* nightly runs, repeated inserts and repricings did (usage-retention.ts).
THEOREM EventsCountOnce == Spec => []CountedOnce
<1>1. LedgerInv => CountedOnce
  BY ReadingIsCost DEF CountedOnce
<1> QED BY <1>1, LedgerInvariance, PTL

\* What a budget is judged by is what its ledger's events cost, through retries,
\* repricings and pruning (app_usage_spend and its triggers).
THEOREM LedgersAreCosts == Spec => []SpendIsCost
<1>1. LedgerInv => SpendIsCost
  BY DEF LedgerInv
<1> QED BY <1>1, LedgerInvariance, PTL

-----------------------------------------------------------------------------
(* What the readers see is UsageTotals                                       *)

Figures == [e \in Events |-> Reading(e)]

LEMMA FiguresAreCosts ==
    LedgerInv => Figures = [e \in Events |-> IF e \in known THEN cost[e] ELSE 0]
  BY ReadingIsCost DEF Figures

LEMMA ReadersInit == Init => Readers!Init
<1> SUFFICES ASSUME Init PROVE Readers!Init
  OBVIOUS
<1>1. \A e \in Events : Reading(e) = 0
  BY DEF Init, Reading, Rows, Grains
<1> QED BY <1>1 DEF Init, Readers!Init

LEMMA ReadersStep ==
    ASSUME LedgerInv, LedgerInv', [Next]_vars
    PROVE  [Readers!Next]_<<known, Figures>>
<1>1. /\ Figures = [e \in Events |-> IF e \in known THEN cost[e] ELSE 0]
      /\ Figures' = [e \in Events |-> IF e \in known' THEN cost'[e] ELSE 0]
  <2>1. LedgerInv' => (Figures = [e \in Events |-> IF e \in known THEN cost[e] ELSE 0])'
    BY FiguresAreCosts, PTL
  <2> QED BY <2>1, FiguresAreCosts
<1>2. CASE UNCHANGED <<known, cost>>
  BY <1>1, <1>2
<1>3. ASSUME NEW e \in Events, Attempt(e), ~UNCHANGED <<known, cost>> PROVE Readers!Next
  <2>1. PICK c \in Costs : cost' = [cost EXCEPT ![e] = c] /\ known' = known \union {e} /\ e \notin Rows
    BY <1>3 DEF Attempt
  <2>2. e \notin known
    BY <1>3, <2>1 DEF LedgerInv, Placed, RolledUp, Attempt, Rows
  <2>3. \A x \in Events : cost'[x] = IF x = e THEN c ELSE cost[x]
    BY <2>1 DEF LedgerInv, LedgerTypeOK
  <2>4. Figures' = [Figures EXCEPT ![e] = c]
    BY <1>1, <2>1, <2>3
  <2>5. Readers!Record(e)
    BY <2>1, <2>2, <2>4 DEF Readers!Record, Figures
  <2> QED BY <2>5 DEF Readers!Next
<1>4. ASSUME RepriceApply PROVE Readers!Next
  <2>1. reprice.price \in Prices /\ Repriced \subseteq known /\ Repriced \in SUBSET Events
    BY <1>4, RowIsKnown DEF RepriceApply, LedgerInv, LedgerTypeOK, Repriced, Rows
  <2>2. known' = known /\ \A e \in Events : cost'[e] = IF e \in Repriced THEN reprice.price ELSE cost[e]
    BY <1>4 DEF RepriceApply
  <2>3. Figures' = [e \in Events |-> IF e \in Repriced THEN reprice.price ELSE Figures[e]]
    BY <1>1, <2>1, <2>2
  <2>4. Readers!Reprice(Repriced, reprice.price)
    BY <2>1, <2>2, <2>3 DEF Readers!Reprice, Figures
  <2> QED BY <2>1, <2>4 DEF Readers!Next
<1>5. CASE UNCHANGED vars
  BY <1>2, <1>5 DEF vars, facts
<1>6. CASE Next
  <2>1. \/ UNCHANGED <<known, cost>>
        \/ \E e \in Events : Attempt(e)
        \/ RepriceApply
    BY <1>6 DEF Next, Begin, GiveUp, RepriceRead, RepriceEnds, Start, ReadWindow, SealDays, PassEnds,
                ReadCursor, CompactChunk, ReadMonth, FoldMonth, NextDay, facts
  <2> QED BY <1>2, <1>3, <1>4, <2>1
<1> QED BY <1>5, <1>6

\* A month's total moves only when an event is recorded, once, or repriced: the
\* nightly runs, however they overlap and fail, are invisible to readers
\* (sealUsageDays, CompactUsageEvents).
THEOREM LedgerKeepsTotals == Spec => TotalsOnlyMoveByEvents
<1>1. LedgerInv /\ LedgerInv' /\ [Next]_vars => [Readers!Next]_<<known, [e \in Events |-> Reading(e)]>>
  BY ReadersStep DEF Figures
<1> QED BY <1>1, ReadersInit, LedgerInvariance, PTL DEF Spec, TotalsOnlyMoveByEvents, Readers!Spec
=============================================================================
