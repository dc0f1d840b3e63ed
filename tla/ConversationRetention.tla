----------------------- MODULE ConversationRetention -----------------------
(***************************************************************************)
(* The nightly deletion of stored conversations                            *)
(* (conversations/retention.ts): every day folder past its application's    *)
(* retention, and everything of an application that is gone.  A run reads   *)
(* the applications once, works through the folders it lists afterwards in  *)
(* the order of their names, from the one after the last it finished, and   *)
(* stops where its allowance ends.  Applications come, go and change their  *)
(* retention, and conversations are stored, while it works.                 *)
(*                                                                          *)
(* An application is its place in the order of names, and a day folder is   *)
(* one object: an application's folder may hold several pages of them.      *)
(***************************************************************************)
EXTENDS Integers, Sequences, FiniteSets, SequencesExt

CONSTANTS LastApp,     \* the applications are 1..LastApp
          Retentions,  \* the retention_days an application may have
          PageSize,    \* R2_PAGE
          Share,       \* the calls a night's run is offered
          MaxChanges,  \* bound: applications deleted, retentions changed, and
                       \* conversations stored after their application was deleted
          MaxFailures,   \* bound: runs that fail
          MaxDay       \* bound: the clock stops here

ASSUME RetentionAssumption ==
    /\ LastApp \in Nat /\ PageSize \in Nat \ {0} /\ MaxDay \in Nat
    /\ Retentions \subseteq Nat \ {0}
    /\ Share \in Nat /\ Share >= 3
    /\ MaxChanges \in Nat /\ MaxFailures \in Nat

VARIABLES
    today,
    days,     \* app: each application's retention, 0 for none
    born,     \* the applications there have been
    objects,  \* R2: the day folders, by application
    cursor,   \* RETENTION_CURSOR, 0 for none
    run,      \* what the night's run is doing
    changes, failures

apps == <<days, born, changes>>
retentionVars == <<today, apps, objects, cursor, run, failures>>

Apps == 1..LastApp
Objects == [app: Apps, day: 0..MaxDay]

Idle == [phase |-> "idle", keep |-> [a \in Apps |-> 0], left |-> 0,
         todo |-> <<>>, found |-> {}, finished |-> 0]

RetentionInit ==
    /\ today = 0
    /\ days = [a \in Apps |-> 0] /\ born = {}
    /\ objects = {}
    /\ cursor = 0 /\ run = Idle
    /\ changes = 0 /\ failures = 0

-----------------------------------------------------------------------------
(* The run *)

\* The cursor and the applications are read, and a call is kept for writing
\* the cursor back.
Start ==
    /\ run.phase = "idle"
    /\ run' = [Idle EXCEPT !.phase = "rows", !.keep = days, !.left = Share - 3]
    /\ UNCHANGED <<today, apps, objects, cursor, failures>>

\* Fault: every night begins with the first application.
FromTheFirst(folders) == SetToSortSeq(folders, <)

\* After the application the last run finished, and coming round to it.
InTurn(folders) == SetToSortSeq({a \in folders : a > cursor}, <)
                     \o SetToSortSeq({a \in folders : a <= cursor}, <)

ListApps ==
    /\ run.phase = "rows" /\ run.left >= 1
    /\ run' = [run EXCEPT !.phase = "apps", !.left = @ - 1,
                          !.todo = InTurn({o.app : o \in objects})]
    /\ UNCHANGED <<today, apps, objects, cursor, failures>>

\* Fault: the first day that is kept is deleted as well.
KeptAfter(day, retention) == day > today - retention

Kept(day, retention) == day >= today - retention

App == Head(run.todo)
Of(app) == {o \in objects : o.app = app}

\* The folder of an application that has no row is swept; of one that has, the
\* days are listed.
NextApp ==
    /\ run.phase = "apps" /\ run.todo # <<>>
    /\ \/ /\ run.keep[App] = 0
          /\ run' = [run EXCEPT !.phase = "sweep"]
       \/ /\ run.keep[App] # 0 /\ run.left >= 1
          /\ run' = [run EXCEPT !.phase = "days", !.left = @ - 1,
                                !.found = {o \in Of(App) : ~Kept(o.day, run.keep[App])}]
    /\ UNCHANGED <<today, apps, objects, cursor, failures>>

Finished(left) == [run EXCEPT !.phase = "apps", !.left = left, !.finished = App,
                              !.todo = Tail(@), !.found = {}]

\* A page is listed and, where it holds anything, deleted; the last one ends it.
SweepPage ==
    /\ run.phase = "sweep"
    /\ \/ Of(App) = {} /\ run.left >= 1 /\ run' = Finished(run.left - 1) /\ UNCHANGED objects
       \/ /\ Of(App) # {} /\ run.left >= 2
          /\ \E page \in SUBSET Of(App) :
                /\ Cardinality(page) = PageSize \/ (page = Of(App) /\ Cardinality(page) < PageSize)
                /\ objects' = objects \ page
                /\ run' = IF page = Of(App) THEN Finished(run.left - 2)
                          ELSE [run EXCEPT !.left = @ - 2]
    /\ UNCHANGED <<today, apps, cursor, failures>>

\* The oldest of the days to delete.
DeleteDay ==
    /\ run.phase = "days" /\ run.found # {} /\ run.left >= 2
    /\ \E o \in run.found :
          /\ \A x \in run.found : o.day <= x.day
          /\ objects' = objects \ {o}
          /\ run' = [run EXCEPT !.left = @ - 2, !.found = @ \ {o}]
    /\ UNCHANGED <<today, apps, cursor, failures>>

DaysDone ==
    /\ run.phase = "days" /\ run.found = {}
    /\ run' = Finished(run.left)
    /\ UNCHANGED <<today, apps, objects, cursor, failures>>

\* The next call is one more than the allowance has left.
Exhausted ==
    \/ run.phase = "rows" /\ run.left < 1
    \/ run.phase = "apps" /\ run.todo # <<>> /\ run.keep[App] # 0 /\ run.left < 1
    \/ run.phase = "days" /\ run.found # {} /\ run.left < 2
    \/ run.phase = "sweep" /\ run.left < (IF Of(App) = {} THEN 1 ELSE 2)

\* Out of applications or out of allowance: the cursor moves to the last one
\* this run finished, if any.
Ends ==
    /\ Exhausted \/ (run.phase = "apps" /\ run.todo = <<>>)
    /\ cursor' = IF run.finished = 0 THEN cursor ELSE run.finished
    /\ run' = Idle
    /\ UNCHANGED <<today, apps, objects, failures>>

\* D1 or R2 fails: the run ends without writing the cursor.
RunFails ==
    /\ run.phase # "idle" /\ failures < MaxFailures
    /\ failures' = failures + 1
    /\ run' = Idle
    /\ UNCHANGED <<today, apps, objects, cursor>>

-----------------------------------------------------------------------------
(* What goes on meanwhile *)

Create(a) ==
    /\ a \notin born
    /\ born' = born \union {a}
    /\ \E retention \in Retentions : days' = [days EXCEPT ![a] = retention]
    /\ UNCHANGED <<today, changes, objects, cursor, run, failures>>

\* Its retention is changed, or the application deleted.
ChangeApp(a) ==
    /\ days[a] # 0 /\ changes < MaxChanges
    /\ \E retention \in (Retentions \union {0}) \ {days[a]} :
          days' = [days EXCEPT ![a] = retention]
    /\ changes' = changes + 1
    /\ UNCHANGED <<today, born, objects, cursor, run, failures>>

\* A conversation is stored under the day it was served.  Of an application that
\* was deleted meanwhile there are only as many as were being served.
Store(a) ==
    /\ a \in born
    /\ IF days[a] # 0 THEN UNCHANGED changes
       ELSE changes < MaxChanges /\ changes' = changes + 1
    /\ objects' = objects \union {[app |-> a, day |-> today]}
    /\ UNCHANGED <<today, days, born, cursor, run, failures>>

\* A run, begun at night, ends the day it began.
NextDay ==
    /\ today < MaxDay /\ run.phase = "idle"
    /\ today' = today + 1
    /\ UNCHANGED <<apps, objects, cursor, run, failures>>

Work == ListApps \/ NextApp \/ SweepPage \/ DeleteDay \/ DaysDone \/ Ends

RetentionNext ==
    \/ Start \/ Work \/ RunFails
    \/ \E a \in Apps : Create(a) \/ ChangeApp(a) \/ Store(a)
    \/ NextDay

\* The cron starts a run every night, and a run that does not fail goes on.
RetentionSpec == RetentionInit /\ [][RetentionNext]_retentionVars /\ WF_retentionVars(Start) /\ WF_retentionVars(Work)

-----------------------------------------------------------------------------
(* Properties *)

Runs == [phase: {"idle", "rows", "apps", "sweep", "days"}, keep: [Apps -> {0} \union Retentions],
         left: 0..(Share - 3), todo: Seq(Apps), found: SUBSET Objects, finished: 0..LastApp]

\* Every table, object, cursor and run has the shape the code gives it, and the
\* work of a run never spends the call kept for its cursor ("The cursor is
\* written with what this leaves unspent").
TypeOK ==
    /\ today \in 0..MaxDay
    /\ days \in [Apps -> {0} \union Retentions] /\ born \subseteq Apps
    /\ objects \subseteq Objects
    /\ cursor \in 0..LastApp /\ run \in Runs
    /\ changes \in 0..MaxChanges /\ failures \in 0..MaxFailures

Gone(o)    == days[o.app] = 0
Expired(o) == Gone(o) \/ o.day < today - days[o.app]

\* Unless an application appeared, or its retention was raised, after the run
\* had read the applications, nothing is deleted that its retention keeps
\* ("every day folder older than its app's retention_days").
KeptDaysStay ==
    [][\A o \in objects \ objects' : days[o.app] <= run.keep[o.app] => Expired(o)]_retentionVars

\* Whatever the retention of its application lets go is deleted some night, and
\* none is left, however many applications there are and however little one night
\* affords: none waits forever behind the others ("a long list of apps is worked
\* through in turn rather than its first few every night"; "nothing is lost,
\* only deferred").
ExpiredIsDeleted == []<>(\A o \in objects : ~Expired(o))
=============================================================================
