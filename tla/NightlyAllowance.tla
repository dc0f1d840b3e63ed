-------------------------- MODULE NightlyAllowance --------------------------
(***************************************************************************)
(* The one allowance of statements a nightly run has (core/query-budget.ts) *)
(* and the sweeps that draw on it in turn (index.ts prune): the fixed ones,  *)
(* expired accounts, stored conversations, and usage retention with what is  *)
(* left.  A sweep issues through views of the allowance, each charged for    *)
(* what is really issued before it is issued; a sweep that throws leaves the *)
(* count as it stands to the one after it.                                   *)
(*                                                                          *)
(* What there is to do is counted in the steps it takes: batches of          *)
(* accounts, chunks of usage events, months to fold.  The calls of the        *)
(* conversation sweep are any number its share lets through                  *)
(* (ConversationRetention has them one by one).                              *)
(***************************************************************************)
EXTENDS Integers, Sequences

CONSTANTS Deployments,     \* the [accounts, conversations, allowance] there may be
          FixedCosts,      \* what the fixed sweeps may issue together
          AccountPass,     \* ACCOUNT_CLEANUP_STATEMENTS
          SealBudget,      \* SEAL_QUERY_BUDGET
          SealStatements,  \* SEAL_STATEMENTS
          ChunkStatements, \* CHUNK_STATEMENTS
          MonthStatements, \* MONTH_STATEMENTS
          FoldReserve,     \* FOLD_RESERVE
          MaxArrivals,     \* bound: steps of work that become due
          MaxNightFailures \* bound: statements that fail

ASSUME NightAssumption ==
    /\ Deployments \subseteq [accounts: BOOLEAN, conversations: BOOLEAN, allowance: Nat]
    /\ FixedCosts \subseteq Nat /\ FixedCosts # {}
    /\ \A d \in Deployments, n \in FixedCosts : n <= d.allowance
    /\ AccountPass \in Nat /\ SealBudget \in Nat /\ SealStatements \in Nat
    /\ ChunkStatements \in Nat \ {0} /\ MonthStatements \in Nat \ {0} /\ FoldReserve \in Nat
    /\ MaxArrivals \in Nat /\ MaxNightFailures \in Nat

VARIABLES
    deployment,
    stage,    \* the sweep that is running
    begun,    \* whether it has issued the statement its loop starts from
    whole,    \* the run's allowance
    share,    \* the view of it the sweep issues through, where it has one
    backlog,  \* the steps of work that are due, by the sweep that does them
    dueSoFar, statementsFailed,
    issued,   \* observation: the statements issued tonight
    foundLeft \* observation: what of the allowance was not issued when the sweep began

budget    == <<whole, share, issued>>
nightVars == <<deployment, stage, begun, budget, backlog, dueSoFar, statementsFailed, foundLeft>>

NoWork  == [accounts |-> 0, compact |-> 0, fold |-> 0]
NoShare == [limit |-> -1, spent |-> 0]
Closed  == [limit |-> 0, spent |-> 0]

NightInit ==
    /\ deployment \in Deployments
    /\ stage = "idle" /\ begun = FALSE
    /\ whole = Closed /\ share = NoShare
    /\ backlog = NoWork /\ dueSoFar = 0 /\ statementsFailed = 0
    /\ issued = 0 /\ foundLeft = 0

-----------------------------------------------------------------------------
(* QueryBudget: an allowance, or a view of one, is its limit and its count.   *)

AtLeastZero(n) == IF n < 0 THEN 0 ELSE n
Lesser(m, n) == IF m < n THEN m ELSE n

\* limited: a view of n statements, never of fewer than none.
Limited(n) == [limit |-> AtLeastZero(n), spent |-> 0]

OwnRemaining(view) == AtLeastZero(view.limit - view.spent)

\* remaining: what the view and the allowance it is of can still pay for.
Remaining == IF share = NoShare THEN OwnRemaining(whole)
             ELSE Lesser(OwnRemaining(share), OwnRemaining(whole))

Affords(n) == Remaining >= n

\* Whether a charge is taken rather than refused.
Fits(n) == \A view \in {whole, share} \ {NoShare} : view.spent + n <= view.limit

Spend(view, n) == [view EXCEPT !.spent = @ + n]

\* Fault: a view keeps its own count and leaves the run's alone.
ViewOnly(n) == IF share = NoShare THEN Spend(whole, n) ELSE whole

\* A charge on a view charges the run too.
WholeCharged(n) == Spend(whole, n)

-----------------------------------------------------------------------------
(* The order of the sweeps, and what each is offered                          *)

\* Fault: a sweep is offered all that is left.
AllOf(n) == n

\* A sweep whose backlog may be large is offered half of what is left.
HalfOf(n) == n \div 2

Offered(sweep, left) ==
    CASE sweep \in {"accounts", "conversations"} -> Limited(HalfOf(left))
      [] sweep = "seal" -> Limited(SealBudget)
      [] sweep = "compact" -> Limited(left - FoldReserve)
      [] OTHER -> NoShare

\* The sweep that comes next, the ones this deployment has no use for left out.
Following(sweep) ==
    CASE sweep = "idle" /\ deployment.accounts -> "accounts"
      [] /\ sweep = "accounts" \/ (sweep = "idle" /\ ~deployment.accounts)
         /\ deployment.conversations -> "conversations"
      [] sweep = "spend" -> "seal"
      [] sweep = "seal" -> "compact"
      [] sweep = "compact" -> "fold"
      [] sweep = "fold" -> "idle"
      [] OTHER -> "spend"

\* The next sweep begins with what the allowance has left, after n statements
\* of this one.
IssuesAndEnds(n) ==
    /\ whole' = WholeCharged(n) /\ issued' = issued + n
    /\ stage' = Following(stage) /\ begun' = FALSE
    /\ share' = Offered(stage', OwnRemaining(whole'))
    /\ foundLeft' = deployment.allowance - issued'

Stops == IssuesAndEnds(0)

\* n statements are issued and the sweep goes on.
Issues(n) ==
    /\ whole' = WholeCharged(n) /\ issued' = issued + n
    /\ share' = IF share = NoShare THEN NoShare ELSE Spend(share, n)
    /\ UNCHANGED <<stage, foundLeft>>

Done(sweep) == backlog' = [backlog EXCEPT ![sweep] = AtLeastZero(@ - 1)]

-----------------------------------------------------------------------------
(* prune *)

\* The allowance is opened and the fixed sweeps issue what they issue.
NightBegins ==
    /\ stage = "idle"
    /\ \E n \in FixedCosts :
          /\ whole' = Spend(Limited(deployment.allowance), n) /\ issued' = n
          /\ stage' = Following("idle") /\ begun' = FALSE
          /\ share' = Offered(stage', OwnRemaining(whole'))
          /\ foundLeft' = deployment.allowance - n
    /\ UNCHANGED <<deployment, backlog, dueSoFar, statementsFailed>>

\* What the next step of the sweep asks for before it starts.
Asked == CASE stage = "accounts" -> AccountPass
           [] stage = "spend" -> 1
           [] stage = "seal" -> IF begun THEN SealStatements ELSE 1 + SealStatements
           [] stage = "compact" -> IF begun THEN ChunkStatements ELSE 1
           [] stage = "fold" -> MonthStatements
           [] OTHER -> 0

\* A pass is asked for in full or not started; one that did not fill its batch
\* was the last.
DeletesAccounts ==
    /\ stage = "accounts" /\ Affords(Asked)
    /\ \/ backlog.accounts > 0 /\ Issues(AccountPass) /\ UNCHANGED begun
       \/ backlog.accounts < 2 /\ IssuesAndEnds(AccountPass)
    /\ Done("accounts")
    /\ UNCHANGED <<deployment, dueSoFar, statementsFailed>>

DeletesConversations ==
    /\ stage = "conversations"
    /\ \E n \in 0..Remaining : IssuesAndEnds(n)
    /\ UNCHANGED <<deployment, backlog, dueSoFar, statementsFailed>>

PrunesSpend ==
    /\ stage = "spend" /\ Affords(Asked)
    /\ IssuesAndEnds(1)
    /\ UNCHANGED <<deployment, backlog, dueSoFar, statementsFailed>>

\* sealUsageDays: the window is read, and moved until it ends at today.
SealsDays ==
    /\ stage = "seal"
    /\ \/ ~begun /\ Affords(Asked) /\ Issues(1) /\ begun' = TRUE
       \/ begun /\ Affords(Asked) /\ Issues(SealStatements) /\ UNCHANGED begun
       \/ begun /\ Stops
    /\ UNCHANGED <<deployment, backlog, dueSoFar, statementsFailed>>

\* compactUsageEvents: the oldest event is read, and again after every chunk; an
\* event that stays in its range, or none at all, ends it.
CompactsEvents ==
    /\ stage = "compact" /\ Affords(Asked)
    /\ \/ ~begun /\ Issues(1) /\ begun' = TRUE /\ UNCHANGED backlog
       \/ begun /\ backlog.compact = 0 /\ Stops /\ UNCHANGED backlog
       \/ begun /\ backlog.compact > 0 /\ Done("compact")
                /\ \/ Issues(ChunkStatements) /\ UNCHANGED begun
                   \/ IssuesAndEnds(ChunkStatements)
    /\ UNCHANGED <<deployment, dueSoFar, statementsFailed>>

\* foldUsageRollupMonths, on the run's own allowance: with no month left only
\* the statement that looks for one is issued.
FoldsMonths ==
    /\ stage = "fold" /\ Affords(Asked)
    /\ \/ backlog.fold = 0 /\ IssuesAndEnds(1) /\ UNCHANGED backlog
       \/ backlog.fold > 0 /\ Done("fold") /\ Issues(MonthStatements) /\ UNCHANGED begun
    /\ UNCHANGED <<deployment, dueSoFar, statementsFailed>>

\* A step that does not fit is not started, and the sweep is over.
TooLittleLeft ==
    /\ stage # "idle" /\ ~Affords(Asked)
    /\ Stops
    /\ UNCHANGED <<deployment, backlog, dueSoFar, statementsFailed>>

\* What has been charged when a step fails: it is asked for as one, and issued as
\* the statement that looks and the batch that acts.
ChargedByFailure ==
    CASE stage = "accounts" -> {AccountPass}
      [] stage = "seal" /\ begun -> {SealStatements}
      [] stage = "compact" /\ begun -> IF backlog.compact = 0 THEN {} ELSE {ChunkStatements - 1}
      [] stage = "fold" -> IF backlog.fold = 0 THEN {1} ELSE {1, MonthStatements}
      [] OTHER -> {1}

\* A statement fails: its transaction did nothing, and the sweep is over.
StatementFails ==
    /\ stage \notin {"idle", "conversations"} /\ statementsFailed < MaxNightFailures
    /\ Affords(Asked)
    /\ statementsFailed' = statementsFailed + 1
    /\ \E n \in ChargedByFailure : IssuesAndEnds(n)
    /\ UNCHANGED <<deployment, backlog, dueSoFar>>

\* More becomes due between two nights.
WorkArrives ==
    /\ stage = "idle" /\ dueSoFar < MaxArrivals
    /\ dueSoFar' = dueSoFar + 1
    /\ \E sweep \in DOMAIN backlog : backlog' = [backlog EXCEPT ![sweep] = @ + 1]
    /\ UNCHANGED <<deployment, stage, begun, budget, statementsFailed, foundLeft>>

Sweeps == \/ DeletesAccounts \/ DeletesConversations \/ PrunesSpend
          \/ SealsDays \/ CompactsEvents \/ FoldsMonths \/ TooLittleLeft

NightNext == NightBegins \/ Sweeps \/ StatementFails \/ WorkArrives

\* The cron begins a run every night, and a run goes on.
NightSpec == NightInit /\ [][NightNext]_nightVars /\ WF_nightVars(NightBegins) /\ WF_nightVars(Sweeps)
-----------------------------------------------------------------------------
(* Properties *)

NotIssued == deployment.allowance - issued

\* A night never issues more than its allowance, however its sweeps' views nest,
\* fail and are dropped; a sweep that may have a large backlog issues at most half
\* of what it found ("without being able to overrun the half it was offered"),
\* compaction leaves the fold its reserve ("a compaction backlog must not be able
\* to [...] starve it"), and a step a loop is told it can afford is never refused.
SharesHeld ==
    stage # "idle" =>
        /\ issued <= deployment.allowance
        /\ stage \in {"accounts", "conversations"} => foundLeft - NotIssued <= foundLeft \div 2
        /\ stage = "compact" => NotIssued >= Lesser(foundLeft, FoldReserve)
        /\ Fits(Remaining) /\ ~Fits(Remaining + 1)

LateWork == backlog.compact + backlog.fold + (IF deployment.accounts THEN backlog.accounts ELSE 0)

\* Whatever became due is done some night, however much the sweeps before it find
\* to do every night ("A backlog that outlives the allowance is continued the
\* following night").
BacklogDrains == []<>(LateWork = 0)

\* Whatever the sweeps before it spent, a night's compaction can afford a chunk
\* ("so a large expired backlog cannot starve compaction"; "Offered half of what is
\* left, like account cleanup, so usage compaction is never starved").
CompactionNotStarved == stage = "compact" /\ ~begun => Affords(1 + ChunkStatements)
=============================================================================
