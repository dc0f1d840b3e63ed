----------------------------- MODULE Execution -----------------------------
(***************************************************************************)
(* One admitted request's plan, carried out (execution/execute.ts and       *)
(* transport.ts), and the work it leaves in waitUntil: a usage event for    *)
(* every provider it contacted (usage/usage-record.ts) and the capture of   *)
(* its conversation (conversations/capture.ts).                             *)
(*                                                                          *)
(* The clock counts half milliseconds, because an attempt's timeout is      *)
(* rounded to milliseconds.  It is the assumption of this module that a     *)
(* timer that is due runs before the clock moves on, that a database call   *)
(* answers within CallTime, and that a response ends within StreamTime.     *)
(***************************************************************************)
EXTENDS BodyObserver, Sequences, FiniteSets

CONSTANTS MaxAttempts,  \* bound: the longest plan
          Budget,       \* providerTtfbTimeoutMs
          BodySizes,    \* the sizes of the bodies that providers send
          RetryWindow,  \* PLATFORM_RETRY_WINDOW_MS
          FirstDelay,   \* PLATFORM_FIRST_DELAY_MS
          MaxDelay,     \* PLATFORM_MAX_DELAY_MS
          ShortAttempts,\* SHORT_ATTEMPTS
          RuntimeLimit, \* how long waitUntil work may outlive the response
          CallTime,     \* bound: how long one database call takes
          StreamTime    \* bound: how long the client reads

ASSUME ExecutionAssumption ==
    /\ MaxAttempts \in Nat \ {0} /\ Budget \in Nat \ {0} /\ BodySizes \subseteq Nat \ {0}
    /\ RetryWindow \in Nat /\ FirstDelay \in Nat \ {0} /\ MaxDelay \in Nat \ {0}
    /\ ShortAttempts \in Nat /\ RuntimeLimit \in Nat /\ CallTime \in Nat /\ StreamTime \in Nat

VARIABLES
    clock,
    plan,     \* how many attempts it has, and whether its conversation is stored
    run,      \* the loop: its step, attempt, deadline and the attempt's timer
    contacted,\* the attempts that reached a provider: when, and how long each may take
    answer,   \* what the client was answered, and when
    client,   \* whether the client still reads
    body,     \* the served body: its size, and the byte that reports its usage
    pipe,     \* the pipe and its observer
    gone,     \* when the response ended or the client left
    tasks,    \* waitUntil: one recording task for each event, by event id
    captures  \* conversations handed to the log

exchange == <<plan, run, contacted, answer>>
reading  == <<client, body, pipe>>
vars     == <<clock, exchange, reading, gone, tasks, captures>>

Never    == -1
NoAnswer == [kind |-> "none", attempt |-> 0, at |-> 0]
NoBody   == [size |-> 0, report |-> 0]

Init ==
    /\ clock = 0
    /\ plan \in [length : 1..MaxAttempts, capture : BOOLEAN]
    /\ run = [step |-> "checking", attempt |-> 1, deadline |-> Never, timer |-> Never]
    /\ contacted = <<>> /\ answer = NoAnswer
    /\ client = "reading" /\ body = NoBody /\ pipe = NoPipe /\ gone = Never
    /\ tasks = <<>> /\ captures = {}

Last == run.attempt = plan.length

---------------------------------------------------------------------------
(* Recording: one id names the usage row and the stored conversation.       *)

Task(observed) ==
    [attempt |-> run.attempt, step |-> IF observed THEN "observing" ELSE "ready",
     capture |-> IF observed /\ plan.capture THEN "due" ELSE "none",
     tries |-> 0, since |-> Never, until |-> Never]

Record(observed) == tasks' = Append(tasks, Task(observed))

---------------------------------------------------------------------------
(* The attempts.                                                            *)

Answered(kind) ==
    /\ answer' = [kind |-> kind, attempt |-> run.attempt, at |-> clock]
    /\ run' = [run EXCEPT !.step = "done"]

\* A refusal is the whole response, so the invocation ends with it.
Refused(kind) == Answered(kind) /\ gone' = clock /\ UNCHANGED reading

NextAttempt == run' = [run EXCEPT !.step = "checking", !.attempt = @ + 1]

Exhausted(deadline) == deadline # Never /\ deadline <= clock

\* The check before a request is built.
CheckDeadline ==
    /\ run.step = "checking"
    /\ \/ /\ Exhausted(run.deadline)
          /\ Refused("504")
       \/ /\ ~Exhausted(run.deadline)
          /\ run' = [run EXCEPT !.step = "building"]
          /\ UNCHANGED <<answer, gone, reading>>
    /\ UNCHANGED <<clock, plan, contacted, tasks, captures>>

\* buildRequest or providerUpstream throws: nobody was contacted.
BuildFails ==
    /\ run.step = "building"
    /\ Refused("error")
    /\ UNCHANGED <<clock, plan, contacted, tasks, captures>>

\* Fault: each attempt has the whole budget.
DeadlineAnew(deadline) == clock + Budget

\* The first request that is built starts the deadline every attempt shares.
DeadlineFrom(deadline) == IF deadline = Never THEN clock + Budget ELSE deadline

Rounded(time) == 2 * ((time + 1) \div 2)

TimeoutOf(deadline) == IF run.attempt = 1 THEN Budget ELSE Rounded(deadline - clock)

Dispatch ==
    /\ run.step = "building"
    /\ LET deadline == DeadlineFrom(run.deadline) IN
       \/ /\ Exhausted(deadline)
          /\ Refused("504")
          /\ UNCHANGED contacted
       \/ /\ ~Exhausted(deadline)
          /\ run' = [run EXCEPT !.step = "fetching", !.deadline = deadline,
                                !.timer = clock + TimeoutOf(deadline)]
          /\ contacted' = Append(contacted, [attempt |-> run.attempt, at |-> clock,
                                           until |-> clock + TimeoutOf(deadline)])
          /\ UNCHANGED <<answer, gone, reading>>
    /\ UNCHANGED <<clock, plan, tasks, captures>>

\* fetch threw: the timer aborted it, or the connection failed before that.
FetchThrows(kind) ==
    /\ run.step = "fetching"
    /\ kind = "504" => clock >= run.timer
    /\ Record(FALSE)
    /\ \/ Last /\ Refused(kind)
       \/ ~Last /\ NextAttempt /\ UNCHANGED <<answer, gone, reading>>
    /\ UNCHANGED <<clock, plan, contacted, captures>>

\* Fault: a retried answer is not accounted for.
RetryUnrecorded ==
    /\ run.step = "fetching" /\ ~Last
    /\ NextAttempt
    /\ UNCHANGED <<clock, plan, contacted, answer, reading, gone, tasks, captures>>

\* 429 and 5xx answers of any attempt but the last; nobody waits for its body's cancel.
Retry ==
    /\ run.step = "fetching" /\ ~Last
    /\ Record(FALSE)
    /\ NextAttempt
    /\ UNCHANGED <<clock, plan, contacted, answer, reading, gone, captures>>

\* The headers of any other answer: its body, if it has one, is piped to the client.
Serve(size) ==
    /\ run.step = "fetching"
    /\ Record(size > 0)
    /\ Answered("upstream")
    /\ \E report \in {1, size} : body' = [size |-> size, report |-> report]
    /\ \/ size > 0 /\ pipe' = NewPipe /\ UNCHANGED gone
       \/ size = 0 /\ gone' = clock /\ UNCHANGED pipe
    /\ UNCHANGED <<clock, plan, contacted, client, captures>>

---------------------------------------------------------------------------
(* The body.                                                                *)

Piping == pipe.end = "running"

Chunk(bytes) ==
    /\ Piping /\ ~pipe.cancelled /\ pipe.passed + bytes <= body.size
    /\ pipe' = Passed(pipe, bytes)
    /\ UNCHANGED <<clock, exchange, client, body, gone, tasks, captures>>

ClientLeaves ==
    /\ Piping /\ client = "reading"
    /\ client' = "left"
    /\ pipe' = Cancelled(pipe)
    /\ UNCHANGED <<clock, exchange, body, gone, tasks, captures>>

\* The pipe settles, and with it the exchange and the observer.
PipeEnds ==
    /\ Piping
    /\ \/ (pipe.cancelled \/ pipe.passed = body.size) /\ pipe' = Completed(pipe)
       \/ pipe.passed < body.size /\ pipe' = Broken(pipe)
    /\ gone' = clock
    /\ tasks' = [id \in DOMAIN tasks |->
          IF tasks[id].step = "observing" THEN [tasks[id] EXCEPT !.step = "ready"]
          ELSE tasks[id]]
    /\ UNCHANGED <<clock, plan, run, contacted, answer, client, body, captures>>

---------------------------------------------------------------------------
(* The recording tasks.                                                     *)

Unsettled == {"ready", "inserting", "pausing"}

Settled(task, step) ==
    [task EXCEPT !.step = step, !.tries = 0, !.since = Never, !.until = Never]

Paused(task, until) == [task EXCEPT !.step = "pausing", !.tries = @ + 1, !.until = until]

Runs(id) == gone = Never \/ clock < gone + RuntimeLimit

\* The first attempt of the insert starts the retry window.
StartInsert(id) ==
    /\ tasks[id].step = "ready"
    /\ tasks' = [tasks EXCEPT ![id].step = "inserting", ![id].since = clock,
                              ![id].until = clock + CallTime]
    /\ UNCHANGED <<clock, exchange, reading, gone, captures>>

RetryInsert(id) ==
    /\ tasks[id].step = "pausing" /\ clock >= tasks[id].until
    /\ tasks' = [tasks EXCEPT ![id].step = "inserting", ![id].until = clock + CallTime]
    /\ UNCHANGED <<clock, exchange, reading, gone, captures>>

InsertLands(id) ==
    /\ tasks[id].step = "inserting"
    /\ tasks' = [tasks EXCEPT ![id] = Settled(@, "landed")]
    /\ UNCHANGED <<clock, exchange, reading, gone, captures>>

\* The delay doubles from FirstDelay to MaxDelay, and is drawn from its upper half.
Delays(tries) ==
    LET nominal == SmallerOf(FirstDelay * 2 ^ (tries - 1), MaxDelay)
    IN  ((nominal + 1) \div 2)..nominal

\* Fault: the window is measured without the pause it would still make.
InWindowNow(task, delay) == clock - task.since <= RetryWindow

InWindow(task, delay) == clock - task.since + delay <= RetryWindow

\* The platform failed: the row may have been stored all the same.
InsertFails(id) ==
    /\ tasks[id].step = "inserting"
    /\ \E delay \in Delays(tasks[id].tries + 1) :
          tasks' = [tasks EXCEPT ![id] =
             IF InWindow(@, delay) THEN Paused(@, clock + delay) ELSE Settled(@, "reported")]
    /\ UNCHANGED <<clock, exchange, reading, gone, captures>>

\* Any other failure is tried ShortAttempts times, a moment apart.
InsertRefused(id) ==
    /\ tasks[id].step = "inserting"
    /\ tasks' = [tasks EXCEPT ![id] =
          IF @.tries + 1 < ShortAttempts /\ InWindow(@, 0) THEN Paused(@, clock)
          ELSE Settled(@, "reported")]
    /\ UNCHANGED <<clock, exchange, reading, gone, captures>>

\* The runtime drops what has not settled by its limit, and logs nothing.
RuntimeCancels(id) ==
    /\ tasks[id].step \in Unsettled /\ ~Runs(id)
    /\ tasks' = [tasks EXCEPT ![id] = Settled(@, "dropped")]
    /\ UNCHANGED <<clock, exchange, reading, gone, captures>>

\* The capture is handed to the conversation log, or fails and is dropped.
HandCapture(id) ==
    /\ tasks[id].capture = "due" /\ tasks[id].step # "observing" /\ Runs(id)
    /\ captures' \in {captures, captures \cup
          {[id |-> id, aborted |-> pipe.aborted]}}
    /\ tasks' = [tasks EXCEPT ![id].capture = "done"]
    /\ UNCHANGED <<clock, exchange, reading, gone>>
---------------------------------------------------------------------------
(* Time: nothing that is due is left behind.                                *)

TimersKept ==
    /\ run.step = "fetching" => clock < run.timer
    /\ Piping => clock < answer.at + StreamTime
    /\ \A id \in DOMAIN tasks :
          /\ tasks[id].step # "ready"
          /\ tasks[id].step \in {"inserting", "pausing"} => clock < tasks[id].until /\ Runs(id)

\* Building takes time too, and may pass the deadline.
Waits ==
    \/ run.step \in {"checking", "building"} /\ run.deadline # Never /\ clock <= run.deadline
    \/ run.step = "fetching" \/ Piping
    \/ \E id \in DOMAIN tasks : tasks[id].step \in Unsettled

Tick ==
    /\ TimersKept /\ Waits
    /\ clock' = clock + 1
    /\ UNCHANGED <<exchange, reading, gone, tasks, captures>>

Attempt ==
    \/ CheckDeadline \/ BuildFails \/ Dispatch
    \/ FetchThrows("504") \/ FetchThrows("502") \/ Retry
    \/ \E size \in BodySizes \cup {0} : Serve(size)

Body == ClientLeaves \/ PipeEnds \/ \E bytes \in 1..body.size : Chunk(bytes)

Recording(id) ==
    \/ StartInsert(id) \/ RetryInsert(id) \/ InsertLands(id) \/ InsertFails(id)
    \/ InsertRefused(id) \/ RuntimeCancels(id) \/ HandCapture(id)

Next == Tick \/ Attempt \/ Body \/ \E id \in DOMAIN tasks : Recording(id)

Spec == Init /\ [][Next]_vars

\* The loop's own steps, the attempt's timer, the database's answers and the
\* runtime's timers; a body ends, breaks off or is abandoned.
Fairness ==
    /\ WF_vars(Tick)
    /\ WF_vars(CheckDeadline) /\ WF_vars(Dispatch) /\ WF_vars(FetchThrows("504"))
    /\ WF_vars(PipeEnds)
    /\ \A id \in 1..MaxAttempts :
          WF_vars(id \in DOMAIN tasks /\ (\/ StartInsert(id) \/ RetryInsert(id) \/ InsertLands(id)
                                         \/ InsertFails(id) \/ InsertRefused(id) \/ RuntimeCancels(id)))

FairSpec == Spec /\ Fairness
---------------------------------------------------------------------------
(* Properties.                                                              *)

\* Every provider that was contacted has one usage event, in the order of the
\* attempts, and no attempt that failed before it reached a provider or was
\* skipped for the deadline has any; only the exchange in flight has none yet.
OneEventPerContact ==
    /\ Len(contacted) - Len(tasks) = IF run.step = "fetching" THEN 1 ELSE 0
    /\ \A id \in DOMAIN tasks : tasks[id].attempt = contacted[id].attempt
    /\ \A i, j \in DOMAIN contacted : i < j => contacted[i].attempt < contacted[j].attempt

\* However many attempts a plan has, they share one time to first byte: each is
\* made, and would be timed out, within the budget that the first one started,
\* but for the rounding of half a millisecond.
HeadersWithinBudget ==
    \A k \in DOMAIN contacted :
        /\ contacted[k].at < contacted[1].at + Budget
        /\ contacted[k].until <= contacted[1].at + Budget + 1

\* Only the answer that the client was served is stored as a conversation, under
\* the id of that attempt's usage event, once its body has ended.
CapturesAreServed ==
    \A c \in captures :
        /\ plan.capture /\ answer.kind = "upstream" /\ ~Piping
        /\ tasks[c.id].attempt = answer.attempt
        /\ c.aborted = pipe.aborted

\* What is recorded is what the client was served: the conversation as above; a
\* body that broke off never as the client's doing; and the usage that a provider
\* reports at the end of a body that went through.
RecordedAsDelivered ==
    /\ CapturesAreServed
    /\ ~Piping /\ pipe.end # "none" =>
          /\ pipe.aborted => client = "left"
          /\ client = "reading" /\ pipe.end = "completed" /\ body.report = body.size
                => Kept(pipe, body.report)

\* Whatever the database does within the calls' time, and whether the client
\* stays or leaves, every event is stored or reported as lost: none is dropped
\* by the runtime without a word.
EventsSettle ==
    \A id \in 1..MaxAttempts :
        id \in DOMAIN tasks ~> id \in DOMAIN tasks /\ tasks[id].step \in {"landed", "reported"}
=============================================================================
