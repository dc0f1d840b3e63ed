# A verification model of the App AI Gateway

The gateway is a Cloudflare Worker that stands between an application's users
and AI providers. It authenticates a request, decides whether to admit it,
forwards it, streams the answer back, and afterwards accounts for what it cost
and, where asked, stores the conversation. Most of it is sequential code over
one request. What is hard is what requests share: Durable Objects whose calls
interleave at every `await`, D1 tables that background writers, nightly runs
and management operations change under each other's feet, isolate-local caches,
storage writes whose answer may never arrive, and a command line whose runs
share one state file and repeat what they were not answered.

This directory holds TLA+ models of that shared part, the TLC runs that check
them on small instances, and proofs, checked by TLAPS, of what holds for every
instance. `PROJECT.json` maps each definition to the lines of the code it
models, and lists the hazards the properties are aimed at.

Paths below are relative to the repository; `do/`, `usage/`, ... are under
its `src/` directory, `cli/` is the command line's package.

## Inventory of the system

| Component | State | Operations | What is hard | What makes it correct |
|---|---|---|---|---|
| **UserLimiter** (`do/UserLimiter.ts`), one object per caller or application | a row of minute and day counts; a row with the highest assertion counter and a 64-bit mask; in memory, the last spend figure of each ledger and the reads in flight | `checkAndIncrement`, `advanceCounter`, `windowCounts`, `bumpWindows`, `monthlySpend`, `useCounter` | the read of the spend is awaited in the middle of a check; callers' clocks are late; reads are shared, slow, or fail; eviction | a counter accepted once; no window overshot; a refusal spends nothing; a budget settles within the refresh window and refuses only when due |
| **OrgQuota** (`do/OrgQuota.ts`), one object per organization | a count per allowance period | `admit`, one conditional upsert | the limit changes between calls; periods overlap; an answer that does not arrive | the count is what was admitted |
| **Admission** (`execution/admission.ts`) | none of its own; three objects and two caches | block and plan read together, then caller's limiter, application's limiter, allowance | a failure between two spends; concurrent requests of one caller, of one application | spending in order; refused requests never charged |
| **Provider execution** (`execution/execute.ts`, `transport.ts`, `usage/body-observer.ts`) | one deadline over all attempts; the tasks left in `waitUntil` | attempt, time out, fall back, pass the body on, record | a late answer against the deadline; a body that breaks off while its client leaves; the time the runtime leaves after the response | one usage event per contacted provider; headers within the budget; every event stored or reported |
| **Usage ledger** (`usage/`, `management/usage-reprice.ts`, the triggers of `migrations/0000`, `0006`, `0010`) | events, monthly spend per application, user and install, sealed day totals and their window, day and month rollups | recording with retries, repricing, nightly prune, seal, compact and fold, and the month readers | a cost lives in one of four places and moves between them in batches; events arrive late or twice; runs overlap and fail midway | each event is counted once, at its cost, at every moment; a budget's figure is what its events cost |
| **ConversationLog** (`do/ConversationLog.ts`, `conversations/`), one object per application | pending lines, the batch being written, an alarm; files and media in R2 | `append`, `alarm`, `flush`, `writeBatch` | a crash between the write and the delete; writes that fail after landing; the alarm against appends | a record is in exactly one file; media outlive the lines that name them; what was handed over is written |
| **Conversation retention** (`conversations/retention.ts`) | a cursor in R2 | nightly deletion of day folders and removed applications | the applications are listed before the folders; a run stops when its allowance ends | kept days untouched; every application reached |
| **Nightly maintenance** (`index.ts`, `core/query-budget.ts`) | the allowance of statements of a run, and the views its sweeps have of it | the fixed sweeps, account cleanup, conversation retention, usage retention | sweeps fail anywhere; what one leaves the next may use; backlogs outlive a night | no share overrun; every backlog drains |
| **Account lifecycle** (`core/account-lifecycle.ts`, `policy/`, `routes/cli/bootstrap.ts`, `routes/cli/identity-handoff.ts`) | an account with its deadlines and its owner; one bootstrap operation, its record and sealed key; a lifecycle cache | bootstrap and renew, gate, claim, collect | renewals race through calls that may not be answered; a claim, a cleanup and late requests cross | the key the record names is the one that works; nothing outlives a collected account; no gate is late |
| **EndpointRateLimiter** (`do/EndpointRateLimiter.ts`, `core/endpoint-rate-limit.ts`) | one counter, one alarm | `check`, `alarm` | an old alarm against a new window | no window overshot; dormant objects emptied |
| **Billing access** (`billing/gateway.ts`, `quota.ts`, `allowance-period.ts`) | two isolate caches and a per-request one | read, fall back on the last known plan, invalidate | a read in flight across an invalidation; an outage | a plan older than the stale window is never used |
| **Cached rows** (`core/ttl-cache.ts`, `core/app-records.ts`, `client-auth/user-status.ts`, `api-keys.ts`, `request-proof.ts`, `providers/provider-store.ts`) | entries, shared pending reads, versions | read, invalidate, forget on failure | a read older than a change that comes back after it | a change is missed for one lifetime of an entry, and not at all where it was made |
| **Management** (`management/`) | applications with a revision, providers, keys, operations | compare-and-set writes, plan ceilings, operations executed once | editors overwrite each other; an operation is repeated | no lost edit; a ceiling holds under concurrent creation |
| **Command line** (`cli/src/state.ts`, `context.ts`) | a state file, a lock file, key files | reserve, send, recover, acknowledge | identical commands side by side, killed, unanswered; a lock whose owner died | work sent under one token, done once, recoverable; its key kept |
| **Client authentication** (`client-auth/`) | device keys, single-use challenges, key and token caches | token exchange, per-request assertions, registration | two exchanges on one assertion or challenge | a challenge and a counter are used once |
| **Providers and vault** (`providers/`, `vault/`) | provider rows, sealed secrets | read, probe, rotate | cached rows, keys sealed for an origin | a stored key opens |
| **Identity and OAuth** (`auth/`, `routes/`) | kept by the cf-auth library | | | outside this repository |
| **HTTP surface, MCP, contracts, console, Swift client, analytics, mail** | none that others read | | | parsing and presentation |

How they interact. A request passes client authentication (which calls
`UserLimiter.advanceCounter` when a token is exchanged), the gate of its
account, is prepared, and is admitted: `admitRequest` reads the blocked-user
cache and billing access, then calls one or two `UserLimiter` objects and one
`OrgQuota` object. Execution calls providers and hands every attempt, in the
background, to `recordUsageEvent`, and the finished conversation to the
application's `ConversationLog`. The insert of an event fires D1 triggers that
move the monthly spend, which is what `UserLimiter` reads back as a budget's
figure, and the sealed day totals. Nightly, `prune` runs the sweeps on one
allowance: fixed sweeps, account cleanup, conversation retention, then usage
retention. Management writes change configurations, plans and users, and
invalidate the caches of the isolate they run in. The command line sends
management operations under tokens it writes to its state file first; its first
run on a hosted deployment creates an account nobody owns yet.

## Modules

| Module | What it is |
|---|---|
| `AssertionCounter` | `useCounter`: the row, which counters it has used, and how it moves. Operators only. |
| `RequestWindows` | `windowCounts` and `bumpWindows`: the minute and day row. Operators only. |
| `UserLimiter` | the object: extends both; calls as processes that wait at the one `await` |
| `OrgQuota` | the allowance upsert. Operators only. |
| `Admission` | extends `RequestWindows` and `OrgQuota`: concurrent requests over several limiter objects and one allowance counter |
| `AllowanceCharges` | abstract: what admission promises about the allowance; `Admission` implements it |
| `BodyObserver` | a body passed on and observed at once. Operators only. |
| `Execution` | extends `BodyObserver`: the attempt loop, the body and the recording tasks |
| `UsageLedger` | the ledger's tables, triggers, recorders, repricing and nightly runs |
| `UsageTotals` | abstract: what the ledger's readers see; `UsageLedger` implements it |
| `ConversationLog` | the object, its alarm and its writes to R2 |
| `ConversationRetention` | the nightly deletion of what `ConversationLog` stored |
| `NightlyAllowance` | the run's allowance, its views, and the sweeps that draw on it |
| `UnclaimedAccounts` | one hosted account: created, its key renewed, its traffic gated, claimed or collected |
| `EndpointRateLimiter` | one endpoint's counter and its alarm |
| `BillingAccess` | one organization's plan in the two caches of an isolate |
| `IsolateCaches` | one row in the cache of each isolate, under the policy of each of six caches |
| `StateStore` | the command line's state file and its lock |
| `CliOperations` | extends `StateStore`: identical commands and the deployment that answers them |
| `ResourceWrites` | editors, creations and plan changes on one account's rows |
| `UserLimiterProofs`, `AdmissionProofs`, `BillingAccessProofs`, `UsageLedgerProofs`, `ExecutionProofs` | the theorems about the module of that name |
| `StoredRowsProofs` | the theorems about `ResourceWrites` and `IsolateCaches` |
| `CleanupProofs` | the theorems about `EndpointRateLimiter`, `ConversationRetention`, `NightlyAllowance` and `ConversationLog` |
| `ManagementProofs` | the theorems about `CliOperations` and `UnclaimedAccounts` |
| `MCUserLimiter`, `MCAdmission`, `MCCleanup`, `MCManagement`, `MCExecution`, `MCUsageLedger`, `MCNightlyAllowance` | constants for TLC. The first four hold several components that share no state: a behaviour belongs to one `part` chosen at the start, so the state spaces add up instead of multiplying |

### UserLimiter

A *call* is one invocation. `Check` is `checkAndIncrement` up to its `await`:
the counter is used in the same step as the replay check, a call without a
budget is decided at once, one with a fresh figure goes on a microtask later
(`CheckCached`, then `Decide`), and any other joins or starts a read
(`CheckReading`). `ReadAnswered` is the moment D1 evaluates the query,
`ReadReturns` the moment the answer reaches the object: what the ledger came to
may change between them, and a slower read may return after a later one.
`Remembered` is the code after the await, with the map that is cleared when
full. `Evict` drops memory and waiting calls and keeps both rows. `Settle` is
the spend trigger of a recorded event, and `billed` keeps the whole history of
each ledger, so that a property can speak of what a ledger had come to at an
earlier moment. The 64-bit mask is the set of its one bits; a shift moves each
bit and drops those past the window.

Assumptions: a caller's clock may trail the object's, never lead it (both are
Cloudflare machines; the code defends against late ones only). Spend only grows
here; repricing, which may lower it, is in `UsageLedger`.

### Admission

Each request learns its block status and its plan together (`Judge`), because
the code decides only once both have settled. What the caches answer is
arbitrary, so the model covers every staleness; likewise a limiter may refuse
a signed or budgeted request at any time. Windows are counted in full, through
the operators `UserLimiter` uses. Every call to an object may throw before or
after it took effect. `tokens` and `charged` record what was actually spent.

### Execution and BodyObserver

One admitted request with a plan of up to two attempts. `CheckDeadline`,
`BuildFails`, `Dispatch`, `FetchThrows`, `Retry` and `Serve` are the loop of
`execute`; the clock counts half milliseconds because the timeout of an attempt
is rounded to milliseconds. The body is its number of bytes and the one byte
that reports the usage; the pipe passes it on (`Chunk`), completes, breaks or is
cancelled, and the observer keeps a window at either end of it. Each contacted
provider leaves one recording task, a machine of its own with the retry
schedule of `withRetry` (`StartInsert`, `InsertLands`, `InsertFails`,
`InsertRefused`), which the runtime may cut off when its time after the
response is over (`RuntimeCancels`).

Assumptions: a timer that is due runs before the clock moves on; a call of the
database answers within `CallTime`; a response ends within `StreamTime`. Which
plan is chosen, how a request and its headers are rewritten and how usage is
read out of a body are not modelled.

### UsageLedger

One application. A sum in a table is kept unsummed, as what each event
contributes to it: every statement adds, moves or drops whole events, and a sum
is right exactly when each contribution is. Two transactions of one operation
are two actions, one batch is one action: sealing reads the window
(`ReadWindow`), then moves it and sums the new days (`SealDays`), failing when
the window is no longer the one it read; compaction reads its cursor
(`ReadCursor`), then rolls up and deletes a chunk (`CompactChunk`), firing the
delete trigger; folding picks a month (`ReadMonth`), then folds it
(`FoldMonth`). `PassEnds` lets every pass stop anywhere: caught up, out of
allowance, or failed. Recording (`Attempt`) may land without its answer and is
then repeated. Row identifiers are given out as SQLite gives them, the largest
plus one. An event moves up to three spend ledgers, its application's and those of
the user and of the install it names (`LedgersOf`).

Assumptions: an event is recorded within `MaxLate` days, fewer than the events
are retained (the code's retries last seconds); a repricing ends the day it
began (it is one request and reads the month once).

### ConversationLog

`Insert` is the append after its media was stored: it flushes when the buffer is
full and otherwise sets an alarm if none is set. A flush is `Writes` up to its
first await, then `PutLands` (R2 takes the write), then `PutAnswered` (the
answer: the rows and the batch row are deleted, and the next batch begun in the
same turn). `PutFails` may leave a write that landed, lands later or never
will; `Crash` does the same and loses memory. `AlarmAfterThrow` is the
platform's retry of an alarm that threw, a bounded number of times: a failing
alarm sets none of its own, so when the retries are spent a record waits for
the application's next one.

### ConversationRetention

One night's run is `Start` (cursor and applications), `ListApps`, then for each
folder `NextApp` and either `SweepPage` (its application is gone) or a list of
its days and `DeleteDay`, then `Ends`. Every list, delete and statement is
charged to the run's allowance, and `Exhausted` is the charge that is refused;
the call for the cursor is set aside at the start. Meanwhile applications are
created, deleted and change their retention, and conversations are stored. An
application is its place in the order of names. A day folder is one object,
listed and deleted in one step: a larger one is more of the same pages.

Assumptions: a run ends the day it began; of a deleted application only the
conversations being served at its deletion are still stored. An application
created after a run has read the applications is taken for a deleted one if it
stores something before the folders are listed; `KeptDaysStay` says what holds
for the applications, and the retentions, the run had read.

### NightlyAllowance

An allowance, or a view of one, is its limit and its count, and a charge on a
view charges the run (`WholeCharged`). `NightBegins` opens the allowance and
lets the fixed sweeps issue what they may issue together; the sweeps follow in
the order of `prune`, each offered what `Offered` says of what is left by then,
and each ends (`IssuesAndEnds`) when it is done, when a step it must finish does
not fit (`TooLittleLeft`), or when a statement fails (`StatementFails`), what it
was charged before included. What there is to do is counted in steps: batches of
accounts, chunks of events, months. `WorkArrives` adds one between two nights.
The number of statements of each step is that of the code; a conversation sweep
may issue anything its view lets through.

`issued` counts the statements really sent, so a view that forgot to charge the
run would be seen.

### UnclaimedAccounts

One hosted account with deadlines and email verification. A *renewal* is one
request under the bootstrap token. `OpenBootstrap` is the engine's `open`,
`CreateAccount` the batch that completes the operation, `CheckAccount` the gate
on the row it reads through the lifecycle cache; a key the engine still holds
sealed is enabled, otherwise one is issued (`IssueKey`), recorded where no key
is held and nobody owns the account (`Amend`), and either the one it replaced
(`RetireReplaced`) or itself (`RetireOwn`) is retired. `AmendUnanswered` is the
amendment whose answer is lost, after it landed or not, and `AskRecord` what the
handler does then. A claim is opened with a working key and lands in one batch
(`ClaimLands`); the operation is retired and the cache forgets the row after it,
in two steps. `Collect` is the one transaction of the cleanup pass. A *visit* is
a request of an application's user: gated on a cached row (`Admit`), its usage
event stored later, under the owner guard (`OwnerExists`).

Every read of the row is started and answered in separate steps, so a claim, a
verification or a collection may fall in between.

Assumptions: one isolate, one account, one claim; a request ends before the
window its key is held sealed for does (15 minutes in the code), so a renewal
never retires a key under a record that has moved on twice; what cf-auth's
`open`, `amend`, `issueServiceApiKey` and `enableServiceApiKey` do is taken from
how the code uses them and what it says of them, and marked external. The
bootstrap record is kept as long as its token is sent.

### EndpointRateLimiter

`Allow` and refusal are the transaction of `check`, under the policy the deployed
Worker passes (`Deploy` changes it). The alarm is delivered at its time or later
(`Deliver`), requests may come in between, and its handler (`AlarmRuns`) deletes
an expired counter or sets itself for a later end; it may fail and be delivered
again. The object stores one counter, so under a policy with windows of another
length it begins anew, and after a change back it has forgotten what the first
windows counted: `WindowHeld` is about the window last counted, under one policy.

### BillingAccess

One organization and one isolate. A read of the service is identified by the
request that began it: `Ask` joins the cached read or begins one, `Evaluated` is
the moment the service looks at the plan, `Returns` and `Fails` are what
`loadBillingAccess` and its caller do in the turn that the answer arrives. The
plan may change, be invalidated and be evicted between any two of these. A
plan is its version; one that ends carries when. The cache a request keeps for
itself repeats its first answer, and is left out.

### IsolateCaches

One D1 row and, in each isolate, the entry one of six caches keeps of it. The
caches differ in whether a read is shared while it is in flight (`Shares`),
whether an invalidation outdates it (`Stored`), whether an absent row is kept
for a shorter time, and whether an entry's lifetime counts from the start or the
end of its read: the organization's rows and the lifecycle row are kept from the
answer on, so they may be older by the time of one read than their lifetime
says. A read is started, served and answered in three steps; a change commits in
one and invalidates its own isolate in another.

### StateStore and CliOperations

A command reads the state file once, without a lock, and writes it under the
lock by merging what it changed since (`Merged`) into what the file holds by
then. The lock is a file created exclusively (`Enter`); one whose owner is dead
is judged, confirmed and unlinked in three steps (`Judge`, `Confirm`, `Remove`).
`CliOperations` adds what identical commands do between: adopt a record or claim
a token of their own, send it, be answered, refused, left without an answer or
killed, write the key file, print, acknowledge. The deployment does a token's
work once and can repeat its answer; its key only while it holds it sealed.

Assumptions: writing the file and renaming it over the old one is one step; a
command inside the lock does not stall for the minute after which a live owner's
lock is taken for abandoned; records are younger than the 90 days they are
recovered for; a refusal is for good; an answered key is stored before its
15-minute window ends; key files use their default path; a conflict answer is
an answer that was lost. Logins, browser steps, polling and the upgrade of an
earlier file are not modelled, and there is one account per state file.

### ResourceWrites

An edit carries the revision its editor was shown (`Send`, `Judged`), is
prepared over awaits, and is written where the revision still stands (`Unmoved`);
a creation reads a ceiling first (`CreateApp`, `CreateKey`) and counts in its
insert (`Room`). A provider's key is sealed for an origin, and `Sealed` is what an
update seals it for. A plan change may come at any time; a creation may work
with the ceiling of an earlier plan, which is what the plan's caches allow.
A ceiling may be zero, as the plan's contract reads it. An application's default
key comes with it, outside the ceiling of keys (`InsertApp`), so the model keeps
which applications still have theirs (`defaults`); the other keys are counted and
not told apart. An application of another kind of authentication, which comes
without a key, behaves here as one whose default key was revoked.

## What the runs check

| Run | Instance | What it shows |
|---|---|---|
| `limiter` | the object with three requests, two sets of limits, two minutes to a day, three windows to cross and a one-ledger memory; or with three calls presenting any of six counters to a window of two, and two ledgers; or the plan cache with three requests, one change of plan in the first two instants (for good or for two), cache and stale windows of two and a retry interval of one | `NeverOvershot`, `BudgetSettles`, `BudgetRefusalIsDue` with late clocks, shared and failing reads, a memory cleared when it is full, and evictions; `AssertionAcceptedOnce` over orders inside, at the edge of, behind and ahead of the window; `PlanIsRecent`, `EndedPlanIsOver`, `FreshAfterInvalidation`, `AskedOncePerRetry` |
| `admission` | two requests of any callers, two configurations, two plan limits, a month boundary; or two lookups in two isolates of one changing row under four policies; or two writers on two applications and a provider, under a plan with room for keys and one that allows none | `AllowanceExact`, `SpendingOrder`, and that `Admission` implements `AllowanceCharges` (`ChargesOnlyServed`); `OwnChangeSeen`, `TtlIsTheStaleness`; `AcceptedEditsStay`, `KeyOpens`, `NeverAboveCeiling` |
| `execution` | two attempts, a budget of two half milliseconds, a body longer than both windows, a retry window of three | `OneEventPerContact`, `HeadersWithinBudget`, `RecordedAsDelivered`, `EventsSettle` |
| `ledger_nights` | two events, two overlapping nightly runs, five days, one-day batches and one-row chunks | `CountedOnce`, and that `UsageLedger` implements `UsageTotals` (`TotalsOnlyMoveByEvents`): a nightly run is invisible to readers |
| `ledger_spend` | two events, free or not, of a user with or without an install, a repricing, one nightly run | `SpendIsCost` |
| `cleanup` | three records of two days, two of which fill a batch, two failed writes, one crash; or two applications, two retentions, three days, pages of one object, one failing run, an allowance of seven; or a night's allowance for four deployments with three steps of work and a failing statement; or two endpoint policies, an alarm that fails once and eight instants | `WrittenOnce`, `MediaKeptWithNames`, `HandedOverIsWritten`; `KeptDaysStay`, `ExpiredIsDeleted`; `SharesHeld`, `BacklogDrains`; `WindowHeld`, `DormantStoresNothing` |
| `management` | two commands of one of three kinds, three runs, one kill, one lost answer, refusal or timeout, one breaker of an abandoned lock at a time; or one account with two renewals, a lost answer, a claim, a visit, its deadlines and a collection | `OneTokenAtATime`, `WorkIsRecoverable`, `WorkIsDoneOnce`, `KeyIsKept`, `RunsEnd`; `OnlyNamedKeyWorks`, `NothingOutlivesAccount`, `NeverAdmittedLate` |
| `ledger_reprice` | as `ledger_spend`, retention of one day | **violation** of `RepricesItsMonth` |
| `billing_access_forgets` | as the plan cache of `limiter` | **violation** of `InvalidationForgets` |
| `cli_lock` | as the commands of `management`, two breakers | **violation** of `OneTokenAtATime` |
| `night_starves` | the default allowance with both backlogs | **violation** of `CompactionNotStarved` |
| `bootstrap_renewal` | as the account of `management` | **violation** of `UnnamedKeysRetired` |

The last five are explained under Findings.

Why these bounds are enough. Each run is cut to the smallest instance in which
the interesting cases happen. Two requests or runs suffice for every pairwise
race; a third call lets a counter move the window between two presentations of
another one, and lets two requests share a read a third one overtakes. Windows
of two clock units and months of four put a boundary of every kind inside five
instants. A counter window of two has an inside, an edge and an outside. Five
days with a retention of two let an event be recorded late, sealed, compacted
and folded, and let a second run do any of it first. Records that fill half a
batch give full, half-full and successive batches. Three requests on one plan are
a read, one that joins or overtakes it, and one that comes after both; the plan
changes in the first two instants because only the distances after it matter.
Hours of an account are counted from its creation for the same reason: two
renewals before, at and after the end of a sealing window of two, a free window
of two and a recovery of three give every order of renewal, refusal, claim and
collection. Three runs of two commands let a twin, a repeat after a kill and a
command that breaks the dead one's lock meet. Two attempts are a first and a
fallback; a body of three bytes has one that neither window keeps.

Seven is the smallest share of the nightly allowance with which retention makes
progress: the cursor, the applications and the write of the cursor, the list of
folders, and for an existing application the list of its days, the list of one
and its deletion. With six, TLC finds that no expired day of an existing
application is ever deleted. `cleanup` gives the night the default allowance (49)
where a deployment has one of the two large sweeps or none, and 79 where it has
both; with both on 49, `night_starves` is what happens.

The bounds (`MaxClock`, `MaxLag`, `MaxRead`, `MaxCall`, `MaxSpend`, `MaxLate`,
`MaxDay`, `MaxChanges`, `MaxFaults`, `MaxCrashes`, `MaxArrivals`, `MaxKills`,
`MaxLost`, ...) are constants of the modules, used in guards, each named where
it is declared. The runs set `CHECK_DEADLOCK FALSE` because a finite number of
calls, events or records is eventually done and the bounded clock stops.
Symmetry is used in `limiter`, `admission` and the two passing ledger runs,
which check no liveness.

### Fairness

- `cleanup` has one weak fairness condition, on `GoesOn`: of the part a
  behaviour belongs to, the platform delivers an alarm that is set and the clock
  moves, R2 carries out a write that was sent and its answer arrives, the cron
  begins a run every night and a run that does not fail goes on. It is weaker
  than a condition for each of those actions, which the components' own
  specifications state. Requests, failures and crashes are under no obligation,
  and are bounded: with endless failures nothing would be written, and no code
  could help. The liveness properties are stated as `<>[]` and `[]<>` of a state
  because the arrivals are bounded.
- `execution` assumes that the loop goes on, timers run, a body ends, breaks off
  or is abandoned, and a database call is answered or the runtime cuts it off.
- `management` assumes of each command that it takes its next step unless it was
  killed, the deployment's answer included. Nothing is assumed of kills, losses,
  time-outs and refusals, nor of the account's requests.

## What is proved

The proofs hold for every value of the constants that satisfies the named
assumptions of the modules.

`UserLimiterProofs`
- `TypeCorrect`: the type invariant.
- `CounterOnce`: `AssertionAcceptedOnce`. Not inductive by itself: the
  strengthening `CounterInv` says that the counter of every call that got past
  the check is *used* in the row (recorded in the mask, or out of the window's
  reach). `RecordedUses` shows that recording keeps every used counter used
  when the window shifts, and `UsedIsNotUnused` that a used one is refused.
- `CountsAreAdmissions`, `LimitsHold`: `WindowsExact` (the stored counts are
  what was admitted, which no run needs to check any more) and `NeverOvershot`.
  The invariant adds that windows newer than the row's have admitted nothing, so
  a count that restarts at zero is right.
- `BudgetRefusalsAreDue`, `BudgetsSettle`. The invariant (`BudgetInv`) bounds
  every figure from both sides: what a memory, an answered read or a ready call
  holds is at most what its ledger has come to now, and at least what it had
  come to when the read began. `BudgetsSettle` further assumes
  `MaxRead < Refresh`, that D1 answers within the refresh window: a call that
  joins a read is decided on a figure no older than that.

`AdmissionProofs`
- `TypeCorrect`, `SpendsInOrder` (by a `Progress` predicate that ties what a
  request has spent to the stage it is in), `CountsAreCharges`.
- `AdmissionKeepsPromise`: `Admission` implements `AllowanceCharges`. Every
  step of a request that ends in an answer maps to `Serve`, `Fault` or
  `Refuse`, every other step to a stutter; that a charge leaves room below the
  largest limit follows from `AllowanceExact`.

`BillingAccessProofs`
- `PlansAreRecent`, `EndedPlansAreOver`, `FreshAnswersFollowInvalidations`,
  `FailingServiceIsSpared`, all from one invariant `IInv`, which was first
  checked with TLC on the run's instance. It says of each read what its plan is
  worth (`GoodRead`: replaced no earlier than the read began, or for a stale
  answer than the windows allow), of each request that it joined its read before
  the entry ran out and with no invalidation in between (`Joined`), of the entry
  that it outlives neither its window nor its plan (`Holds`), and of a read that
  failed or may fail that it holds the cache until the retry interval is over
  (`Held`). `SettledKeeps` is the step all of them turn on: an answer that is
  worth enough settles a read. `BillingAssumption` asks that the retry interval
  is no longer than the cache window (5 and 30 seconds in the code).

`UsageLedgerProofs`, from `LedgerInv` (`LedgerInvariance`)
- `EventsCountOnce` (`CountedOnce`), `LedgersAreCosts` (`SpendIsCost`), and
  `LedgerKeepsTotals`: `UsageLedger` implements `UsageTotals`
  (`TotalsOnlyMoveByEvents`). What readers see is right at every step only because
  of where each cost is, which the invariant says (`Placed`): an event that is
  not recorded is in no sum; one whose row is in the table is in no rollup, and in
  its day's sum exactly when the day is sealed; one that was rolled up is in
  exactly one of the two rollups. `RecordingIsRecent` adds that an event still
  being recorded is younger than any run's cutoff, so compaction never overtakes
  it. A step of a nightly run moves costs between these places and leaves every
  `Reading` as it was, which makes it a stutter of `UsageTotals`; recording and
  repricing move the reading of the events they are about.

`ExecutionProofs`, from `ExecutionInv` (`ExecutionInvariance`)
- `EveryContactHasItsEvent` (`OneEventPerContact`): contacts and tasks are in the
  order of their attempts, and the attempt being fetched is the last contact
  (`ContactInv`).
- `AttemptsShareTheirBudget` (`HeadersWithinBudget`): the deadline is the first
  contact's, and a timer is what was left of it, rounded (`DeadlineInv`).
- `WhatIsServedIsRecorded` (`RecordedAsDelivered`): a conversation is due or handed
  over only of the served answer and not while its body is passed on
  (`CaptureInv`), and what the observer kept of the body fits what the pipe
  passed (`BodyInv`), whichever of the two ends first.

`StoredRowsProofs`
- `NoEditIsLost`, `StoredKeyOpens`, `CeilingsHold`, from `WritesInv`: an
  editor's row is as old as the stored one or older, and the same when its
  revision is; a creation works with the ceiling of some plan; an id is never
  given out again. `CeilingsHold` is for any ceilings, zero included, and so it
  leaves room for one key beyond them: the default one, alone.
- `OwnChangesAreSeen` (`OwnChangeSeen`) and `StalenessIsBounded`
  (`TtlIsTheStaleness`), from `CachesInv`: what a read was served was the row when
  the read began (`ServedInv`); a request that waits does so for a read that is no
  older than what its isolate had changed (`WaitInv`); an entry is a read made in
  its isolate, its window counts from that read, and where own changes are
  guarded it is no older than the last of them (`EntryInv`).

`CleanupProofs`
- `WindowsAreHeld` (`WindowHeld`), from `Counted`: what was allowed in the window
  last counted is what is stored, or that window is over.
- `NoKeptDayIsDeleted` (`KeptDaysStay`), because what a run has found is past the
  retention it read, and what it sweeps had none (`WhatIsFoundIsDue`).
- `NightTypeCorrect` and `SharesAreHeld` (`SharesHeld`), from `NightInv`: the run's
  count is what was issued, a view's count is what was issued since it was
  opened, and a view is what `Offered` said of what was left then.
  `RemainingFits` shows that what `remaining` answers is exactly what
  `charge` will take.
- `RecordsAreWrittenOnce` (`WrittenOnce`) and `NamedMediaIsKept`
  (`MediaKeptWithNames`), from `LogInv`. Its core is `Tidy`: every write that is,
  or may still become, a file is of the batch that is pending, just as it is, or of
  one that has left the tables, and no two of them have one name or share a line.
  A record appended while a batch is under way gets a later id and changes no
  batch; a batch whose write failed is written again under the same name with the
  same lines, so a late landing of the first write is the same file.

`ManagementProofs`, about commands. All assume `MaxBreakers <= 1`: one command at a
time breaks an abandoned lock. Without it they fail: that is the run `cli_lock`.
- `IdenticalCommandsShareAToken` (`OneTokenAtATime`) and `DoneWorkIsRecoverable`
  (`WorkIsRecoverable`). The invariant `CommandInv` says that a command in
  the lock owns it (`LockInv`), that one about to reach the deployment has a
  token whose record is in its state (`TokenInv`), and that a record leaves the
  file, or a state it was in, only when its operation was settled (`RecordInv`);
  `PendingInv`, that all pending work is under one token, follows because only a
  reservation that found no record draws a token.
- `NothingIsDoneTwice` (`WorkIsDoneOnce`). Under one token because the deployment
  answers what it holds and refuses for good (`AnswerInv`). That a machine has one
  account however many first runs race needs the connection: it is never lost
  from a state or the file and a reservation sees it (`ConnectionInv`), so a
  bootstrap that may still be sent is the first, or works on the one token that is
  pending (`OneAccountInv`).
- `PrintedKeysAreInFiles` (`KeyIsKept`). A key file is of one operation: of
  whoever has it open, of the records that name it and of the key in it
  (`OwnerInv`), so a command never writes over another's key; and an operation
  whose key can still be had is settled only with the key in a file, so a
  reservation that was released is of an operation whose key is in another
  (`FileInv`).

`ManagementProofs`, about a first run's account, from `AccountsInv`
(`AccountsInvariance`)
- `CollectedForGood` (`NothingOutlivesAccount`): an account that is gone was not
  claimed, is past its recovery and has left nothing that works (`LifeInv`).
- `OldRowsAdmitInTime` (`NeverAdmittedLate`): what an older row says of an account
  stays true of it, because its deadlines are fixed and a claim only lifts them
  (`RowsInv`).
- `StrayKeysAreLostAnswers` (`OnlyNamedKeyWorks`): a key that works and that the
  record does not name is about to be retired by the request that replaced or
  issued it, or stands for one lost answer (`LooseInv`). An amendment knows the key
  it replaces because a request ends before the window its key is sealed for does
  (`KeyIsKnown`, from `MaxRequest < SealFor`).

Every strengthening above was first checked as an invariant of its run.

Model-checked only: the liveness properties (`HandedOverIsWritten`,
`ExpiredIsDeleted`, `BacklogDrains`, `DormantStoresNothing`, `EventsSettle`,
`RunsEnd`), because the prover does not handle fairness (`ENABLED` is out of its
reach). Every invariant and every action property of a passing run is a theorem.

## Findings

1. **A repricing may reach events of another month**
   (`management/usage-reprice.ts:177`, run `ledger_reprice`). It reads the
   identifiers of a month's events and later updates rows by identifier. The
   table's key is a plain `INTEGER PRIMARY KEY`, so once compaction has emptied
   the table an identifier is given out again, and a new event of another month
   can take the cost computed for an old one. It needs every event to be past
   retention, so it can only happen to an idle deployment.
2. **A plan read across an invalidation is remembered**
   (`billing/gateway.ts:145`, run `billing_access_forgets`). `getBillingAccess`
   lets a read that was in flight when the plan was invalidated not come back
   into the short cache, but `loadBillingAccess` stores its answer in the cache
   kept for outages whatever happened meanwhile. While the service fails, for at
   most the stale window, requests made after the invalidation are answered with
   the plan it was to forget.
3. **Two commands may break one abandoned lock** (`cli/src/state.ts:479`, run
   `cli_lock`). The file that was judged is confirmed in one call and unlinked by
   path in the next. Of two commands that both confirmed it, the second unlinks
   the lock a command has taken since; two commands are then inside at once, and
   one operation is sent under two tokens.
4. **A night may leave usage compaction nothing** (`index.ts:276` and `341`, run
   `night_starves`). The comments say that halving what is offered to account
   cleanup and to the conversation sweep keeps compaction from being starved. On
   a hosted deployment that stores conversations the default allowance of 49
   leaves, when both sweeps use their halves, less than the reserve of nine and
   one chunk, every night the two backlogs last.
5. **A renewal that was not answered leaves the replaced key working**
   (`routes/cli/bootstrap.ts:175`, run `bootstrap_renewal`). When the amendment
   commits and its answer is lost, the handler finds that the record names its
   key, keeps it and fails; the key it replaced is never retired, although the
   record does not name it any more. Each such answer leaves one
   (`OnlyNamedKeyWorks`).
One more disagreement is written into a passing property instead of a run of its
own: **a plan that allows no keys is given one** (`management/apps.ts:344`). The
contract of a plan's limits says that a write that would exceed a ceiling is refused
(`contracts/billing.ts:157`), and reads a ceiling of zero (`:173`). The default key
of a new application is inserted under the guard of the application only, for the
reason the comment gives (it must not be refused by the application's own ceiling),
and the ceiling of keys is not asked. From a ceiling of one on this makes no
difference; with zero, every application starts with a key its plan does not allow.
`NeverAboveCeiling` states exactly that exception, `admission` checks it under a plan
that allows no keys, and without the exception TLC finds the first creation to
violate it.

Noticed while modelling, and not checked:
- a record a command adopts from another's file is not in the state it merges
  from, so acknowledging it does not remove it: the next run finds it done;
- of three identical key commands, one of which lost its answer, one may unlink
  the empty reservation another is about to write;
- a renewal that stalls for longer than the sealing window can retire the key of
  a later one (excluded here by an assumption);
- the smallest `MAINTENANCE_QUERY_BUDGET` the code honours, 20, is called enough
  for a useful pass, but leaves compaction less than a chunk after its reserve,
  and account cleanup needs about twice its 21 statements besides the fixed
  sweeps;
- an alarm that failed as often as the platform retries leaves records waiting
  for the application's next captured request.

## Not modelled, and why

- An account's deletion inside the ledger (the delete triggers of its totals):
  the ledger modules keep one organization; that no event survives it is
  `NothingOutlivesAccount`.
- Single-use challenges and device registration: a unique insert and a
  conditional delete in one statement each; the counter both paths share is in
  `UserLimiter`.
- Browser steps, login, and polling of operations: kept by the cf-auth library,
  with the sessions and OAuth.
- Pricing arithmetic and the extraction of usage from a provider's body: pure
  functions over large data.
- Signatures, tokens, envelope encryption: cryptography.
- Routing, validation, schemas, catalogues, formats, console, Swift client,
  analytics, mail: sequential code, data and presentation without shared state.
  They are most of the repository's lines, so the modelled share of all lines
  stays small by nature: what is modelled is the share that runs concurrently.

## Plan

1. The delete triggers of the ledger, with a second organization, and what an
   account's deletion leaves of its totals.
2. Single-use challenges and device registration beside the assertion counter.
3. The cache a request keeps of its plan, beside the two of its isolate.
