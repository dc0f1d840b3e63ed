-------------------------- MODULE ExecutionProofs --------------------------
(***************************************************************************)
(* Every contacted provider is accounted for, within one budget, and what   *)
(* is recorded is what the client was served: for every plan, budget, body   *)
(* and window.  The invariant ties the tasks to the contacts one by one, the *)
(* deadline to the first contact, and a capture to the one answer that was   *)
(* served.                                                                   *)
(***************************************************************************)
EXTENDS Execution, SequenceTheorems, TLAPS

Contact == [attempt: Nat \ {0}, at: Nat, until: Int]
TaskRecord == [attempt: Nat, capture: {"none", "due", "done"}, tries: Nat, since: Int, until: Int,
               step: {"observing", "ready", "inserting", "pausing", "landed", "reported", "dropped"}]
Pipe == [passed: Nat, cancelled: BOOLEAN, aborted: BOOLEAN,
         end: {"none", "running", "completed", "broken"}]

\* Every record of the exchange has the shape the code gives it.
ExecutionTypeOK ==
    /\ clock \in Nat
    /\ plan \in [length: 1..MaxAttempts, capture: BOOLEAN]
    /\ run \in [step: {"checking", "building", "fetching", "done"}, attempt: Nat \ {0},
                deadline: Int, timer: Int]
    /\ contacted \in Seq(Contact)
    /\ answer \in [kind: {"none", "upstream", "error", "502", "504"}, attempt: Nat, at: Nat]
    /\ client \in {"reading", "left"}
    /\ body \in [size: Nat, report: Nat]
    /\ pipe \in Pipe
    /\ tasks \in Seq(TaskRecord)
    /\ captures \subseteq [id: Nat, aborted: BOOLEAN]

\* The contacts are the attempts so far, in their order, and the tasks theirs.
ContactInv ==
    /\ OneEventPerContact
    /\ \A i \in DOMAIN contacted : contacted[i].attempt <= run.attempt
    /\ run.step \in {"checking", "building"} =>
          \A i \in DOMAIN contacted : contacted[i].attempt < run.attempt
    /\ run.step = "fetching" => contacted[Len(contacted)].attempt = run.attempt

\* The deadline is the first contact's.
DeadlineInv ==
    /\ Len(contacted) = 0 => run.deadline = Never
    /\ Len(contacted) > 0 => run.deadline = contacted[1].at + Budget
    /\ HeadersWithinBudget

\* A conversation is due, or handed over, only of the answer that was served, and
\* not while its body is passed on.
CaptureInv ==
    /\ run.step # "done" => answer.kind = "none" /\ pipe.end = "none" /\ captures = {}
    /\ \A id \in DOMAIN tasks : tasks[id].capture # "none" =>
          /\ plan.capture /\ answer.kind = "upstream" /\ tasks[id].attempt = answer.attempt
          /\ tasks[id].capture = "due" /\ Piping => tasks[id].step = "observing"
    /\ \A c \in captures : /\ c.id \in DOMAIN tasks /\ tasks[c.id].capture # "none"
                           /\ ~Piping /\ c.aborted = pipe.aborted

\* The transform's flag is the client's doing as long as the pipe runs.
BodyInv ==
    /\ Piping => /\ body.size > 0 /\ pipe.passed <= body.size
                 /\ client = "reading" => ~pipe.cancelled
    /\ ~Piping /\ pipe.end # "none" =>
          /\ pipe.aborted => client = "left"
          /\ client = "reading" /\ pipe.end = "completed" /\ body.report = body.size
                => Kept(pipe, body.report)

ExecutionInv == ExecutionTypeOK /\ ContactInv /\ DeadlineInv /\ CaptureInv /\ BodyInv

-----------------------------------------------------------------------------
(* What the operators return, and what one step leaves alone.                *)

LEMMA ExecutionConstants ==
    /\ MaxAttempts \in Nat \ {0} /\ Budget \in Nat \ {0} /\ BodySizes \subseteq Nat \ {0}
    /\ RetryWindow \in Nat /\ FirstDelay \in Nat \ {0} /\ MaxDelay \in Nat \ {0}
    /\ ShortAttempts \in Nat /\ RuntimeLimit \in Nat /\ CallTime \in Nat /\ StreamTime \in Nat
    /\ HeadBytes \in Nat \ {0} /\ TailBytes \in Nat \ {0}
  BY ExecutionAssumption, ObserverAssumption

LEMMA ContactShape ==
    ASSUME NEW s \in Seq(Contact)
    PROVE  /\ Len(s) \in Nat /\ DOMAIN s = 1..Len(s)
           /\ \A i \in 1..Len(s) : s[i].attempt \in Nat \ {0} /\ s[i].at \in Nat /\ s[i].until \in Int
<1>1. \A i \in 1..Len(s) : s[i] \in Contact
  BY ElementOfSeq
<1> QED BY <1>1, LenProperties DEF Contact

\* Rounding to whole milliseconds adds half a one at most.
LEMMA RoundedIsClose ==
    ASSUME NEW time \in Nat
    PROVE  Rounded(time) \in Nat /\ time <= Rounded(time) /\ Rounded(time) <= time + 1
  BY DEF Rounded

\* The pipes that the steps of a body make.
LEMMA PipeShapes ==
    ASSUME NEW p \in Pipe
    PROVE  /\ \A bytes \in Nat : /\ Passed(p, bytes) \in Pipe
                                 /\ Passed(p, bytes).passed = p.passed + bytes
                                 /\ Passed(p, bytes).cancelled = p.cancelled
                                 /\ Passed(p, bytes).end = p.end
           /\ Cancelled(p) \in Pipe /\ Cancelled(p).end = p.end /\ Cancelled(p).passed = p.passed
           /\ Completed(p) \in Pipe /\ Completed(p).end = "completed"
           /\ Completed(p).passed = p.passed /\ Completed(p).aborted = p.cancelled
           /\ Broken(p) \in Pipe /\ Broken(p).end = "broken" /\ Broken(p).aborted = FALSE
<1>1. \A bytes \in Nat : /\ Passed(p, bytes) \in Pipe
                         /\ Passed(p, bytes).passed = p.passed + bytes
                         /\ Passed(p, bytes).cancelled = p.cancelled
                         /\ Passed(p, bytes).end = p.end
  BY DEF Pipe, Passed
<1>2. Cancelled(p) \in Pipe /\ Cancelled(p).end = p.end /\ Cancelled(p).passed = p.passed
  BY DEF Pipe, Cancelled
<1>3. /\ Completed(p) \in Pipe /\ Completed(p).end = "completed"
      /\ Completed(p).passed = p.passed /\ Completed(p).aborted = p.cancelled
  BY DEF Pipe, Completed
<1>4. Broken(p) \in Pipe /\ Broken(p).end = "broken" /\ Broken(p).aborted = FALSE
  BY <1>2 DEF Pipe, Broken
<1> QED BY <1>1, <1>2, <1>3, <1>4

LEMMA NewPipeShape == NewPipe \in Pipe /\ NoPipe \in Pipe /\ NoPipe.end = "none"
  BY DEF NewPipe, NoPipe, Pipe

\* A task that makes a step stays the task of its contact.
LEMMA TaskSteps ==
    ASSUME tasks \in Seq(TaskRecord), NEW id \in DOMAIN tasks, NEW record \in TaskRecord,
           tasks' = [tasks EXCEPT ![id] = record]
    PROVE  /\ tasks' \in Seq(TaskRecord) /\ Len(tasks') = Len(tasks) /\ DOMAIN tasks' = DOMAIN tasks
           /\ \A i \in DOMAIN tasks : tasks'[i] = IF i = id THEN record ELSE tasks[i]
  BY ExceptSeq

\* A task that is left behind is the last.
LEMMA RecordSteps ==
    ASSUME ExecutionTypeOK, NEW observed \in BOOLEAN, Record(observed)
    PROVE  /\ Task(observed) \in TaskRecord
           /\ tasks' \in Seq(TaskRecord) /\ Len(tasks') = Len(tasks) + 1
           /\ DOMAIN tasks' = 1..(Len(tasks) + 1) /\ DOMAIN tasks = 1..Len(tasks)
           /\ \A i \in DOMAIN tasks : tasks'[i] = tasks[i]
           /\ tasks'[Len(tasks) + 1] = Task(observed)
<1>1. Task(observed) \in TaskRecord
  BY DEF ExecutionTypeOK, Task, TaskRecord, Never
<1> QED BY <1>1, AppendProperties DEF ExecutionTypeOK, Record

-----------------------------------------------------------------------------
(* The attempts                                                              *)

LEMMA InitHolds == Init => ExecutionInv
<1> SUFFICES ASSUME Init PROVE ExecutionInv
  OBVIOUS
<1>1. ExecutionTypeOK
  BY NewPipeShape, EmptySeq, ExecutionConstants
     DEF Init, ExecutionTypeOK, NoAnswer, NoBody, Never
<1>2. ContactInv
  BY DEF Init, ContactInv, OneEventPerContact
<1>3. DeadlineInv
  BY DEF Init, DeadlineInv, HeadersWithinBudget
<1>4. CaptureInv
  BY NewPipeShape DEF Init, CaptureInv, NoAnswer
<1>5. BodyInv
  BY NewPipeShape DEF Init, BodyInv, Piping
<1> QED BY <1>1, <1>2, <1>3, <1>4, <1>5 DEF ExecutionInv

\* The plan is carried out, or refused, without another contact.
LEMMA RefusedKeeps ==
    ASSUME ExecutionInv, run.step \in {"checking", "building"},
           NEW kind \in {"error", "502", "504"}, Refused(kind),
           UNCHANGED <<clock, plan, contacted, tasks, captures>>
    PROVE  ExecutionInv'
<1> USE DEF ExecutionInv, Refused, Answered, reading
<1>1. /\ answer' = [kind |-> kind, attempt |-> run.attempt, at |-> clock]
      /\ run' = [run EXCEPT !.step = "done"]
      /\ run'.step = "done" /\ run'.attempt = run.attempt /\ run'.deadline = run.deadline
  BY DEF ExecutionTypeOK
<1>2. ExecutionTypeOK'
  BY <1>1 DEF ExecutionTypeOK
<1>3. ContactInv'
  BY <1>1 DEF ContactInv, OneEventPerContact
<1>4. DeadlineInv'
  BY <1>1 DEF DeadlineInv, HeadersWithinBudget
<1>5. CaptureInv'
  BY <1>1 DEF CaptureInv
<1>6. BodyInv'
  BY DEF BodyInv, Piping, Kept
<1> QED BY <1>2, <1>3, <1>4, <1>5, <1>6

LEMMA CheckDeadlineKeeps == ASSUME ExecutionInv, CheckDeadline PROVE ExecutionInv'
<1>1. CASE Refused("504")
  BY <1>1, RefusedKeeps DEF CheckDeadline
<1>2. CASE run' = [run EXCEPT !.step = "building"] /\ UNCHANGED <<answer, gone, reading>>
  <2> USE DEF ExecutionInv, CheckDeadline, reading
  <2>1. run'.step = "building" /\ run'.attempt = run.attempt /\ run'.deadline = run.deadline
    BY <1>2 DEF ExecutionTypeOK
  <2>2. ExecutionTypeOK'
    BY <1>2 DEF ExecutionTypeOK
  <2>3. ContactInv'
    BY <1>2, <2>1 DEF ContactInv, OneEventPerContact
  <2>4. DeadlineInv'
    BY <1>2, <2>1 DEF DeadlineInv, HeadersWithinBudget
  <2>5. CaptureInv'
    BY <1>2, <2>1 DEF CaptureInv
  <2>6. BodyInv'
    BY <1>2 DEF BodyInv, Piping, Kept
  <2> QED BY <2>2, <2>3, <2>4, <2>5, <2>6
<1> QED BY <1>1, <1>2 DEF CheckDeadline

\* A contact is made before the shared deadline, and would be timed out at it.
LEMMA DispatchKeeps == ASSUME ExecutionInv, Dispatch PROVE ExecutionInv'
<1> DEFINE deadline == DeadlineFrom(run.deadline)
           until == clock + TimeoutOf(deadline)
           contact == [attempt |-> run.attempt, at |-> clock, until |-> until]
<1>1. CASE Refused("504") /\ UNCHANGED contacted
  BY <1>1, RefusedKeeps DEF Dispatch
<1>2. ASSUME ~Exhausted(deadline),
             run' = [run EXCEPT !.step = "fetching", !.deadline = deadline, !.timer = until],
             contacted' = Append(contacted, contact),
             UNCHANGED <<answer, gone, reading>>, UNCHANGED <<clock, plan, tasks, captures>>
      PROVE  ExecutionInv'
  <2> USE DEF ExecutionInv, reading
  <2>1. /\ run.step = "building" /\ clock \in Nat /\ run.attempt \in Nat \ {0} /\ run.deadline \in Int
        /\ contacted \in Seq(Contact) /\ tasks \in Seq(TaskRecord)
        /\ Len(contacted) \in Nat /\ DOMAIN contacted = 1..Len(contacted)
        /\ Len(tasks) \in Nat /\ DOMAIN tasks = 1..Len(tasks)
    BY LenProperties DEF Dispatch, ExecutionTypeOK
  <2>2. Len(contacted) > 0 => /\ contacted[1].at \in Nat /\ contacted[1].attempt \in Nat \ {0}
                              /\ contacted[1].attempt < run.attempt
    BY <2>1, ContactShape DEF ContactInv
  <2>3. /\ deadline \in Nat /\ clock < deadline
        /\ Len(contacted) = 0 => deadline = clock + Budget
        /\ Len(contacted) > 0 => deadline = contacted[1].at + Budget
    <3>1. run.deadline = IF Len(contacted) = 0 THEN -1 ELSE contacted[1].at + Budget
      BY <2>1 DEF DeadlineInv, Never
    <3>2. deadline = IF run.deadline = -1 THEN clock + Budget ELSE run.deadline
      BY DEF DeadlineFrom, Never
    <3>3. ~(deadline # -1 /\ deadline <= clock)
      BY <1>2 DEF Exhausted, Never
    <3> HIDE DEF deadline
    <3> QED BY <2>1, <2>2, <3>1, <3>2, <3>3, ExecutionConstants
  <2>4. /\ until \in Int
        /\ Len(contacted) = 0 => until <= clock + Budget + 1
        /\ Len(contacted) > 0 => until <= contacted[1].at + Budget + 1
    <3>1. TimeoutOf(deadline) = IF run.attempt = 1 THEN Budget ELSE Rounded(deadline - clock)
      BY DEF TimeoutOf
    <3> HIDE DEF deadline
    <3>2. deadline - clock \in Nat
      BY <2>1, <2>3
    <3>3. Rounded(deadline - clock) \in Nat /\ Rounded(deadline - clock) <= deadline - clock + 1
      BY <3>2, RoundedIsClose
    <3> QED BY <2>1, <2>2, <2>3, <3>1, <3>3, ExecutionConstants
  <2> HIDE DEF deadline, until
  <2>5. contact \in Contact
    BY <2>1, <2>4 DEF Contact
  <2>6. /\ contacted' \in Seq(Contact) /\ Len(contacted') = Len(contacted) + 1
        /\ DOMAIN contacted' = 1..(Len(contacted) + 1)
        /\ \A i \in 1..Len(contacted) : contacted'[i] = contacted[i]
        /\ contacted'[Len(contacted) + 1] = contact
    BY <1>2, <2>1, <2>5, AppendProperties
  <2>7. /\ run'.step = "fetching" /\ run'.attempt = run.attempt /\ run'.deadline = deadline
        /\ run' \in [step: {"checking", "building", "fetching", "done"}, attempt: Nat \ {0},
                    deadline: Int, timer: Int]
    <3>1. /\ run \in [step: {"checking", "building", "fetching", "done"}, attempt: Nat \ {0},
                    deadline: Int, timer: Int]
          /\ deadline \in Int /\ until \in Int
      BY <2>3, <2>4 DEF ExecutionTypeOK
    <3>2. run' = [run EXCEPT !.step = "fetching", !.deadline = deadline, !.timer = until]
      BY <1>2
    <3> QED BY <3>1, <3>2
  <2>8. ExecutionTypeOK'
    BY <1>2, <2>6, <2>7 DEF ExecutionTypeOK
  <2>9. ContactInv'
    <3>1. Len(contacted) = Len(tasks)
      BY <2>1 DEF ContactInv, OneEventPerContact
    <3>2. Len(contacted') - Len(tasks') = 1 /\ DOMAIN tasks' = DOMAIN tasks
      BY <1>2, <2>1, <2>6, <3>1
    <3>3. \A id \in DOMAIN tasks' : tasks'[id].attempt = contacted'[id].attempt
      BY <1>2, <2>1, <2>6, <3>1 DEF ContactInv, OneEventPerContact
    <3>4. \A i \in 1..Len(contacted) : contacted[i].attempt < run.attempt
      BY <2>1 DEF ContactInv
    <3>5. \A i \in DOMAIN contacted' : contacted'[i].attempt <= run.attempt
      <4>1. \A i \in 1..Len(contacted) : contacted'[i].attempt <= run.attempt
        BY <2>1, <2>6 DEF ContactInv
      <4>2. contacted'[Len(contacted) + 1].attempt <= run.attempt
        BY <2>1, <2>6
      <4> QED BY <2>1, <2>6, <4>1, <4>2
    <3>6. \A i, j \in DOMAIN contacted' : i < j => contacted'[i].attempt < contacted'[j].attempt
      BY <2>1, <2>6, <3>4 DEF ContactInv, OneEventPerContact
    <3> QED BY <2>1, <2>6, <2>7, <3>2, <3>3, <3>5, <3>6 DEF ContactInv, OneEventPerContact
  <2>10. DeadlineInv'
    <3>1. contacted'[1].at \in Nat /\ deadline = contacted'[1].at + Budget
      <4>1. CASE Len(contacted) = 0
        BY <2>1, <2>3, <2>6, <4>1
      <4>2. CASE Len(contacted) > 0
        BY <2>1, <2>2, <2>3, <2>6, <4>2
      <4> QED BY <2>1, <4>1, <4>2
    <3>2. \A k \in 1..Len(contacted) : /\ contacted'[k].at < contacted'[1].at + Budget
                                       /\ contacted'[k].until <= contacted'[1].at + Budget + 1
      BY <2>1, <2>6 DEF DeadlineInv, HeadersWithinBudget
    <3>3. contact.at < deadline /\ contact.until <= deadline + 1
      BY <2>1, <2>2, <2>3, <2>4, ExecutionConstants
    <3>4. \A k \in DOMAIN contacted' : /\ contacted'[k].at < contacted'[1].at + Budget
                                       /\ contacted'[k].until <= contacted'[1].at + Budget + 1
      BY <2>1, <2>6, <3>1, <3>2, <3>3
    <3> QED BY <2>1, <2>6, <2>7, <3>1, <3>4 DEF DeadlineInv, HeadersWithinBudget
  <2>11. CaptureInv'
    BY <1>2, <2>1, <2>7 DEF CaptureInv
  <2>12. BodyInv'
    BY <1>2 DEF BodyInv, Piping, Kept
  <2> QED BY <2>8, <2>9, <2>10, <2>11, <2>12
<1> QED BY <1>1, <1>2 DEF Dispatch

\* An attempt is over: its task is the last, and the attempts go on after it.
LEMMA RecordedIsContact ==
    ASSUME ExecutionInv, run.step = "fetching", NEW observed \in BOOLEAN, Record(observed),
           UNCHANGED contacted,
           \/ run'.step = "done" /\ run'.attempt = run.attempt
           \/ run'.step = "checking" /\ run'.attempt = run.attempt + 1
    PROVE  ContactInv'
<1> USE DEF ExecutionInv
<1>1. /\ contacted \in Seq(Contact) /\ tasks \in Seq(TaskRecord) /\ run.attempt \in Nat
      /\ Len(contacted) \in Nat /\ DOMAIN contacted = 1..Len(contacted)
      /\ Len(tasks) \in Nat /\ DOMAIN tasks = 1..Len(tasks)
  BY LenProperties DEF ExecutionTypeOK
<1>2. Len(contacted) = Len(tasks) + 1 /\ contacted[Len(tasks) + 1].attempt = run.attempt
  BY <1>1 DEF ContactInv, OneEventPerContact
<1>3. /\ Len(tasks') = Len(tasks) + 1 /\ DOMAIN tasks' = 1..(Len(tasks) + 1)
      /\ \A i \in DOMAIN tasks : tasks'[i] = tasks[i]
      /\ tasks'[Len(tasks) + 1].attempt = run.attempt
  <2>1. Task(observed).attempt = run.attempt
    BY DEF Task
  <2> QED BY <2>1, RecordSteps
<1>4. \A id \in DOMAIN tasks' : tasks'[id].attempt = contacted'[id].attempt
  BY <1>1, <1>2, <1>3 DEF ContactInv, OneEventPerContact
<1>5. \A i \in DOMAIN contacted : contacted[i].attempt \in Nat /\ contacted[i].attempt <= run.attempt
  BY <1>1, ContactShape DEF ContactInv
<1>6. Len(contacted') - Len(tasks') = 0 /\ run'.step # "fetching"
  BY <1>1, <1>2, <1>3
<1>7. /\ \A i \in DOMAIN contacted' : contacted'[i].attempt <= run'.attempt
      /\ run'.step \in {"checking", "building"} =>
            \A i \in DOMAIN contacted' : contacted'[i].attempt < run'.attempt
  BY <1>1, <1>5
<1> QED BY <1>4, <1>6, <1>7 DEF ContactInv, OneEventPerContact

\* An attempt that failed or is retried leaves a task that observes nothing.
LEMMA UnservedKeeps ==
    ASSUME ExecutionInv, run.step = "fetching", Record(FALSE),
           UNCHANGED <<clock, plan, contacted, captures, reading>>,
           \/ \E kind \in {"502", "504"} : Refused(kind)
           \/ NextAttempt /\ UNCHANGED answer
    PROVE  ExecutionInv'
<1> USE DEF ExecutionInv, reading
<1>1. /\ run' \in [step: {"checking", "building", "fetching", "done"}, attempt: Nat \ {0},
                   deadline: Int, timer: Int]
      /\ run'.deadline = run.deadline
      /\ \/ run'.step = "done" /\ run'.attempt = run.attempt
         \/ run'.step = "checking" /\ run'.attempt = run.attempt + 1 /\ UNCHANGED answer
      /\ answer' \in [kind: {"none", "upstream", "error", "502", "504"}, attempt: Nat, at: Nat]
  <2>1. CASE \E kind \in {"502", "504"} : Refused(kind)
    <3>1. PICK kind \in {"502", "504"} : /\ answer' = [kind |-> kind, attempt |-> run.attempt, at |-> clock]
                                          /\ run' = [run EXCEPT !.step = "done"]
      BY <2>1 DEF Refused, Answered
    <3>2. answer' \in [kind: {"none", "upstream", "error", "502", "504"}, attempt: Nat, at: Nat]
      BY <3>1 DEF ExecutionTypeOK
    <3> QED BY <3>1, <3>2 DEF ExecutionTypeOK
  <2>2. CASE NextAttempt /\ UNCHANGED answer
    <3>1. run.attempt \in Nat \ {0} /\ run.attempt + 1 \in Nat \ {0}
      BY DEF ExecutionTypeOK
    <3>2. run' = [run EXCEPT !.step = "checking", !.attempt = run.attempt + 1]
      BY <2>2 DEF NextAttempt
    <3> QED BY <2>2, <3>1, <3>2 DEF ExecutionTypeOK
  <2> QED BY <2>1, <2>2
<1>2. /\ tasks' \in Seq(TaskRecord) /\ DOMAIN tasks' = 1..(Len(tasks) + 1)
      /\ Len(tasks) \in Nat /\ DOMAIN tasks = 1..Len(tasks)
      /\ \A i \in DOMAIN tasks : tasks'[i] = tasks[i]
      /\ tasks'[Len(tasks) + 1].capture = "none"
  <2>1. Task(FALSE).capture = "none"
    BY DEF Task
  <2> QED BY <2>1, RecordSteps, LenProperties DEF ExecutionTypeOK
<1>3. ExecutionTypeOK'
  BY <1>1, <1>2 DEF ExecutionTypeOK
<1>4. ContactInv'
  BY <1>1, RecordedIsContact
<1>5. DeadlineInv'
  BY <1>1 DEF DeadlineInv, HeadersWithinBudget
<1>6. CaptureInv'
  <2>1. /\ answer.kind = "none" /\ pipe.end = "none" /\ captures = {}
        /\ \A id \in DOMAIN tasks : tasks[id].capture = "none"
    BY DEF CaptureInv
  <2>2. \A id \in DOMAIN tasks' : tasks'[id].capture = "none"
    BY <1>2, <2>1
  <2> QED BY <1>1, <2>1, <2>2 DEF CaptureInv
<1>7. BodyInv'
  BY DEF BodyInv, Piping, Kept
<1> QED BY <1>3, <1>4, <1>5, <1>6, <1>7

LEMMA FetchThrowsKeeps ==
    ASSUME ExecutionInv, NEW kind \in {"502", "504"}, FetchThrows(kind) PROVE ExecutionInv'
  BY UnservedKeeps DEF FetchThrows, Refused

LEMMA RetryKeeps == ASSUME ExecutionInv, Retry PROVE ExecutionInv'
  BY UnservedKeeps DEF Retry

\* The one answer that is served is the one whose task may store a conversation.
LEMMA ServeKeeps == ASSUME ExecutionInv, NEW size \in Nat, Serve(size) PROVE ExecutionInv'
<1> USE DEF ExecutionInv, Serve
<1> DEFINE observed == size > 0
<1>1. /\ answer' = [kind |-> "upstream", attempt |-> run.attempt, at |-> clock]
      /\ run'.step = "done" /\ run'.attempt = run.attempt /\ run'.deadline = run.deadline
      /\ run' \in [step: {"checking", "building", "fetching", "done"}, attempt: Nat \ {0},
                   deadline: Int, timer: Int]
  BY DEF Answered, ExecutionTypeOK
<1>2. PICK report \in {1, size} : body' = [size |-> size, report |-> report]
  OBVIOUS
<1>3. observed \in BOOLEAN /\ Record(observed)
  OBVIOUS
<1>4. pipe' \in Pipe /\ ((pipe' = NewPipe /\ observed) \/ (UNCHANGED pipe /\ ~observed))
  BY NewPipeShape DEF ExecutionTypeOK
<1> HIDE DEF observed
<1>5. /\ tasks' \in Seq(TaskRecord) /\ DOMAIN tasks' = 1..(Len(tasks) + 1)
      /\ Len(tasks) \in Nat /\ DOMAIN tasks = 1..Len(tasks)
      /\ \A i \in DOMAIN tasks : tasks'[i] = tasks[i]
      /\ tasks'[Len(tasks) + 1] = Task(observed)
  BY <1>3, RecordSteps, LenProperties DEF ExecutionTypeOK
<1>6. ExecutionTypeOK'
  <2>1. answer' \in [kind: {"none", "upstream", "error", "502", "504"}, attempt: Nat, at: Nat]
    BY <1>1 DEF ExecutionTypeOK
  <2> QED BY <1>1, <1>2, <1>4, <1>5, <2>1 DEF ExecutionTypeOK
<1>7. ContactInv'
  BY <1>1, <1>3, RecordedIsContact
<1>8. DeadlineInv'
  BY <1>1 DEF DeadlineInv, HeadersWithinBudget
<1>9. CaptureInv'
  <2>1. /\ pipe.end = "none" /\ captures' = {} /\ UNCHANGED plan
        /\ \A id \in DOMAIN tasks : tasks[id].capture = "none"
    BY DEF CaptureInv
  <2>2. /\ Task(observed).attempt = run.attempt
        /\ Task(observed).capture # "none" => plan.capture /\ Task(observed).step = "observing"
    BY DEF Task
  <2>3. \A id \in DOMAIN tasks' : tasks'[id].capture # "none" =>
          /\ plan'.capture /\ answer'.kind = "upstream" /\ tasks'[id].attempt = answer'.attempt
          /\ tasks'[id].step = "observing"
    BY <1>1, <1>5, <2>1, <2>2
  <2> QED BY <1>1, <2>1, <2>3 DEF CaptureInv
<1>10. BodyInv'
  <2>1. CASE observed
    BY <1>2, <1>4, <2>1 DEF BodyInv, Piping, NewPipe, observed
  <2>2. CASE ~observed
    BY <1>4, <2>2 DEF BodyInv, Piping, CaptureInv
  <2> QED BY <2>1, <2>2
<1> QED BY <1>6, <1>7, <1>8, <1>9, <1>10

-----------------------------------------------------------------------------
(* The body                                                                  *)

LEMMA ChunkKeeps == ASSUME ExecutionInv, NEW bytes \in Nat, Chunk(bytes) PROVE ExecutionInv'
<1> USE DEF ExecutionInv, Chunk, exchange
<1>1. /\ pipe' \in Pipe /\ pipe'.end = pipe.end /\ pipe'.cancelled = pipe.cancelled
      /\ pipe'.passed = pipe.passed + bytes
  BY PipeShapes DEF ExecutionTypeOK
<1>2. ExecutionTypeOK'
  BY <1>1 DEF ExecutionTypeOK
<1>3. ContactInv' /\ DeadlineInv'
  BY DEF ContactInv, OneEventPerContact, DeadlineInv, HeadersWithinBudget
<1>4. CaptureInv'
  BY <1>1 DEF CaptureInv, Piping
<1>5. BodyInv'
  BY <1>1 DEF BodyInv, Piping
<1> QED BY <1>2, <1>3, <1>4, <1>5

LEMMA ClientLeavesKeeps == ASSUME ExecutionInv, ClientLeaves PROVE ExecutionInv'
<1> USE DEF ExecutionInv, ClientLeaves, exchange
<1>1. pipe' \in Pipe /\ pipe'.end = pipe.end /\ pipe'.passed = pipe.passed
  BY PipeShapes DEF ExecutionTypeOK
<1>2. ExecutionTypeOK'
  BY <1>1 DEF ExecutionTypeOK
<1>3. ContactInv' /\ DeadlineInv'
  BY DEF ContactInv, OneEventPerContact, DeadlineInv, HeadersWithinBudget
<1>4. CaptureInv'
  BY <1>1 DEF CaptureInv, Piping
<1>5. BodyInv'
  BY <1>1 DEF BodyInv, Piping
<1> QED BY <1>2, <1>3, <1>4, <1>5

\* The byte at the end of a body that went through is in the observer's tail.
LEMMA EndIsKept ==
    ASSUME NEW p \in Pipe, p.passed > 0 PROVE Kept(p, p.passed)
  BY ExecutionConstants DEF Pipe, Kept, SmallerOf

LEMMA PipeEndsKeeps == ASSUME ExecutionInv, PipeEnds PROVE ExecutionInv'
<1> USE DEF ExecutionInv, PipeEnds
<1>1. /\ tasks \in Seq(TaskRecord) /\ Len(tasks) \in Nat /\ DOMAIN tasks = 1..Len(tasks)
      /\ pipe \in Pipe /\ body.size \in Nat
  BY LenProperties DEF ExecutionTypeOK
<1>2. ASSUME NEW id \in DOMAIN tasks
      PROVE  /\ tasks'[id] \in TaskRecord
             /\ tasks'[id].attempt = tasks[id].attempt /\ tasks'[id].capture = tasks[id].capture
  <2>1. tasks[id] \in TaskRecord
    BY <1>1, ElementOfSeq
  <2>2. tasks'[id] = IF tasks[id].step = "observing" THEN [tasks[id] EXCEPT !.step = "ready"] ELSE tasks[id]
    OBVIOUS
  <2> QED BY <2>1, <2>2 DEF TaskRecord
<1>3. tasks' \in Seq(TaskRecord) /\ Len(tasks') = Len(tasks) /\ DOMAIN tasks' = DOMAIN tasks
  <2>1. tasks' \in [1..Len(tasks) -> TaskRecord]
    BY <1>1, <1>2
  <2> QED BY <1>1, <2>1
<1>4. pipe' \in Pipe /\ pipe'.end \in {"completed", "broken"}
  BY <1>1, PipeShapes
<1>5. ExecutionTypeOK'
  BY <1>3, <1>4 DEF ExecutionTypeOK
<1>6. ContactInv'
  BY <1>2, <1>3 DEF ContactInv, OneEventPerContact
<1>7. DeadlineInv'
  BY DEF DeadlineInv, HeadersWithinBudget
<1>8. CaptureInv'
  BY <1>2, <1>3, <1>4 DEF CaptureInv, Piping
<1>9. BodyInv'
  <2>1. CASE pipe' = Broken(pipe)
    BY <1>1, <1>4, <2>1, PipeShapes DEF BodyInv, Piping
  <2>2. CASE (pipe.cancelled \/ pipe.passed = body.size) /\ pipe' = Completed(pipe)
    <3>1. /\ pipe'.end = "completed" /\ pipe'.passed = pipe.passed /\ pipe'.aborted = pipe.cancelled
      BY <1>1, <2>2, PipeShapes
    <3>2. client = "reading" => ~pipe.cancelled /\ pipe'.passed = body.size /\ body.size > 0
      BY <2>2, <3>1 DEF BodyInv, Piping
    <3>3. pipe'.aborted => client = "left"
      BY <3>1, <3>2 DEF ExecutionTypeOK
    <3>4. client = "reading" => Kept(pipe', body.size)
      BY <1>4, <3>2, EndIsKept
    <3> QED BY <1>4, <3>3, <3>4 DEF BodyInv, Piping
  <2> QED BY <2>1, <2>2
<1> QED BY <1>5, <1>6, <1>7, <1>8, <1>9

-----------------------------------------------------------------------------
(* The recording tasks                                                       *)

\* A task that is not observing any more, or that hands its conversation over
\* when it is not, makes a step.
LEMMA TaskMoves ==
    ASSUME ExecutionInv, NEW id \in DOMAIN tasks, tasks[id].step # "observing",
           NEW record \in TaskRecord, tasks' = [tasks EXCEPT ![id] = record],
           record.attempt = tasks[id].attempt,
           UNCHANGED <<clock, exchange, reading>>,
           \/ record.capture = tasks[id].capture /\ UNCHANGED captures
           \/ /\ tasks[id].capture = "due" /\ record.capture = "done"
              /\ captures' \in {captures, captures \cup {[id |-> id, aborted |-> pipe.aborted]}}
    PROVE  ExecutionInv'
<1> USE DEF ExecutionInv, exchange, reading
<1>1. /\ tasks \in Seq(TaskRecord) /\ Len(tasks) \in Nat /\ DOMAIN tasks = 1..Len(tasks)
      /\ tasks' \in Seq(TaskRecord) /\ Len(tasks') = Len(tasks) /\ DOMAIN tasks' = DOMAIN tasks
      /\ \A i \in DOMAIN tasks : tasks'[i] = IF i = id THEN record ELSE tasks[i]
  BY TaskSteps, LenProperties DEF ExecutionTypeOK
<1>2. \A i \in DOMAIN tasks : /\ tasks'[i].attempt = tasks[i].attempt
                              /\ tasks[i].capture # "none" <=> tasks'[i].capture # "none"
                              /\ tasks'[i].capture = "due" => tasks'[i] = tasks[i] \/ (i = id /\ tasks[i].capture = "due")
  BY <1>1
<1>3. captures' \subseteq [id: Nat, aborted: BOOLEAN]
  <2>1. [id |-> id, aborted |-> pipe.aborted] \in [id: Nat, aborted: BOOLEAN]
    BY <1>1 DEF ExecutionTypeOK, Pipe
  <2> QED BY <2>1 DEF ExecutionTypeOK
<1>4. ExecutionTypeOK'
  BY <1>1, <1>3 DEF ExecutionTypeOK
<1>5. ContactInv'
  BY <1>1, <1>2 DEF ContactInv, OneEventPerContact
<1>6. DeadlineInv'
  BY DEF DeadlineInv, HeadersWithinBudget
<1>7. CaptureInv'
  <2>1. tasks[id].capture = "due" => ~Piping
    BY DEF CaptureInv
  <2>2. run.step # "done" => captures' = {}
    BY DEF CaptureInv
  <2>3. \A i \in DOMAIN tasks' : tasks'[i].capture # "none" =>
          /\ plan.capture /\ answer.kind = "upstream" /\ tasks'[i].attempt = answer.attempt
          /\ tasks'[i].capture = "due" /\ Piping => tasks'[i].step = "observing"
    BY <1>1, <1>2, <2>1 DEF CaptureInv
  <2>4. \A c \in captures' : /\ c.id \in DOMAIN tasks' /\ tasks'[c.id].capture # "none"
                             /\ ~Piping /\ c.aborted = pipe.aborted
    <3>1. \A c \in captures : /\ c.id \in DOMAIN tasks' /\ tasks'[c.id].capture # "none"
                              /\ ~Piping /\ c.aborted = pipe.aborted
      BY <1>1, <1>2 DEF CaptureInv
    <3> QED BY <1>1, <1>2, <2>1, <3>1
  <2> QED BY <2>2, <2>3, <2>4 DEF CaptureInv, Piping
<1>8. BodyInv'
  BY DEF BodyInv, Piping, Kept
<1> QED BY <1>4, <1>5, <1>6, <1>7, <1>8

LEMMA SettledShape ==
    ASSUME NEW task \in TaskRecord, NEW step \in {"landed", "reported", "dropped"}
    PROVE  /\ Settled(task, step) \in TaskRecord
           /\ Settled(task, step).attempt = task.attempt /\ Settled(task, step).capture = task.capture
<1>1. PICK settled : settled = [task EXCEPT !.step = step, !.tries = 0, !.since = Never, !.until = Never]
  OBVIOUS
<1>2. Never \in Int
  BY DEF Never
<1>3. /\ settled \in TaskRecord
      /\ settled.attempt = task.attempt /\ settled.capture = task.capture
  BY <1>1, <1>2 DEF TaskRecord
<1> QED BY <1>1, <1>3 DEF Settled

LEMMA PausedShape ==
    ASSUME NEW task \in TaskRecord, NEW until \in Int
    PROVE  /\ Paused(task, until) \in TaskRecord
           /\ Paused(task, until).attempt = task.attempt /\ Paused(task, until).capture = task.capture
<1>1. task.tries + 1 \in Nat
  BY DEF TaskRecord
<1>2. PICK paused : paused = [task EXCEPT !.step = "pausing", !.tries = task.tries + 1, !.until = until]
  OBVIOUS
<1>3. /\ paused \in TaskRecord
      /\ paused.attempt = task.attempt /\ paused.capture = task.capture
  BY <1>1, <1>2 DEF TaskRecord
<1>4. paused = [task EXCEPT !.step = "pausing", !.tries = @ + 1, !.until = until]
  BY <1>2 DEF TaskRecord
<1> QED BY <1>3, <1>4 DEF Paused

LEMMA RecordingKeeps ==
    ASSUME ExecutionInv, NEW id \in DOMAIN tasks, Recording(id) PROVE ExecutionInv'
<1> DEFINE task == tasks[id]
<1>1. task \in TaskRecord /\ tasks \in Seq(TaskRecord) /\ clock \in Nat
  BY ElementOfSeq, LenProperties DEF ExecutionInv, ExecutionTypeOK
<1>2. clock + CallTime \in Int
  BY <1>1, ExecutionConstants
<1>3. CASE StartInsert(id) \/ RetryInsert(id)
  <2>1. PICK since \in Int : /\ tasks' = [tasks EXCEPT ![id] =
                                   [task EXCEPT !.step = "inserting", !.since = since, !.until = clock + CallTime]]
                             /\ UNCHANGED <<clock, exchange, reading, captures>>
                             /\ task.step \in {"ready", "pausing"}
    <3>1. CASE StartInsert(id)
      <4>1. /\ tasks' = [tasks EXCEPT ![id] =
                           [task EXCEPT !.step = "inserting", !.since = clock, !.until = clock + CallTime]]
            /\ UNCHANGED <<clock, exchange, reading, captures>> /\ task.step = "ready"
        BY <1>1, <3>1 DEF StartInsert
      <4>2. clock \in Int
        BY <1>1
      <4> QED BY <4>1, <4>2
    <3>2. CASE RetryInsert(id)
      <4>1. tasks' = [tasks EXCEPT ![id] =
                        [task EXCEPT !.step = "inserting", !.since = task.since, !.until = clock + CallTime]]
        BY <1>1, <3>2 DEF RetryInsert, TaskRecord
      <4>2. task.since \in Int
        BY <1>1 DEF TaskRecord
      <4> QED BY <3>2, <4>1, <4>2 DEF RetryInsert
    <3> QED BY <1>3, <3>1, <3>2
  <2>2. PICK record : record = [task EXCEPT !.step = "inserting", !.since = since, !.until = clock + CallTime]
    OBVIOUS
  <2>3. record \in TaskRecord /\ record.attempt = task.attempt /\ record.capture = task.capture
    BY <1>1, <1>2, <2>1, <2>2 DEF TaskRecord
  <2> QED BY <2>1, <2>2, <2>3, TaskMoves
<1>4. ASSUME NEW step \in {"landed", "reported", "dropped"}, task.step # "observing",
             tasks' = [tasks EXCEPT ![id] = Settled(task, step)],
             UNCHANGED <<clock, exchange, reading, captures>>
      PROVE  ExecutionInv'
  BY <1>1, <1>4, SettledShape, TaskMoves
<1>5. ASSUME NEW until \in Int, task.step # "observing",
             tasks' = [tasks EXCEPT ![id] = Paused(task, until)],
             UNCHANGED <<clock, exchange, reading, captures>>
      PROVE  ExecutionInv'
  BY <1>1, <1>5, PausedShape, TaskMoves
<1>6. CASE InsertLands(id)
  BY <1>4, <1>6 DEF InsertLands
<1>7. CASE InsertFails(id)
  <2>1. PICK delay \in Delays(task.tries + 1) :
          tasks' = [tasks EXCEPT ![id] =
             IF InWindow(task, delay) THEN Paused(task, clock + delay) ELSE Settled(task, "reported")]
    BY <1>7 DEF InsertFails
  <2>2. delay \in Int /\ clock + delay \in Int
    BY <1>1, <2>1 DEF Delays
  <2>3. task.step # "observing" /\ UNCHANGED <<clock, exchange, reading, captures>>
    BY <1>7 DEF InsertFails
  <2>4. CASE InWindow(task, delay)
    <3>1. tasks' = [tasks EXCEPT ![id] = Paused(task, clock + delay)]
      BY <2>1, <2>4
    <3> QED BY <1>5, <2>2, <2>3, <3>1
  <2>5. CASE ~InWindow(task, delay)
    <3>1. tasks' = [tasks EXCEPT ![id] = Settled(task, "reported")]
      BY <2>1, <2>5
    <3> QED BY <1>4, <2>3, <3>1
  <2> QED BY <2>4, <2>5
<1>8. CASE InsertRefused(id)
  <2>1. task.step # "observing" /\ UNCHANGED <<clock, exchange, reading, captures>> /\ clock \in Int
    BY <1>1, <1>8 DEF InsertRefused
  <2>2. tasks' = [tasks EXCEPT ![id] =
           IF task.tries + 1 < ShortAttempts /\ InWindow(task, 0) THEN Paused(task, clock)
           ELSE Settled(task, "reported")]
    BY <1>8 DEF InsertRefused
  <2>3. CASE task.tries + 1 < ShortAttempts /\ InWindow(task, 0)
    <3>1. tasks' = [tasks EXCEPT ![id] = Paused(task, clock)]
      BY <2>2, <2>3
    <3> QED BY <1>5, <2>1, <3>1
  <2>4. CASE ~(task.tries + 1 < ShortAttempts /\ InWindow(task, 0))
    <3>1. tasks' = [tasks EXCEPT ![id] = Settled(task, "reported")]
      BY <2>2, <2>4
    <3> QED BY <1>4, <2>1, <3>1
  <2> QED BY <2>3, <2>4
<1>9. CASE RuntimeCancels(id)
  BY <1>4, <1>9 DEF RuntimeCancels, Unsettled
<1>10. CASE HandCapture(id)
  <2>1. PICK record : record = [task EXCEPT !.capture = "done"]
    OBVIOUS
  <2>2. record \in TaskRecord /\ record.attempt = task.attempt /\ record.capture = "done"
    BY <1>1, <2>1 DEF TaskRecord
  <2>3. tasks' = [tasks EXCEPT ![id] = record]
    BY <1>10, <2>1 DEF HandCapture
  <2> QED BY <1>10, <2>2, <2>3, TaskMoves DEF HandCapture
<1> QED BY <1>3, <1>6, <1>7, <1>8, <1>9, <1>10 DEF Recording

LEMMA TimeKeeps == ASSUME ExecutionInv, Tick \/ UNCHANGED vars PROVE ExecutionInv'
<1>1. /\ UNCHANGED <<exchange, reading, tasks, captures>>
      /\ clock' \in Nat
  BY DEF Tick, vars, ExecutionInv, ExecutionTypeOK
<1>2. ExecutionTypeOK'
  BY <1>1 DEF ExecutionInv, ExecutionTypeOK, exchange, reading
<1>3. ContactInv' /\ DeadlineInv'
  BY <1>1 DEF ExecutionInv, ContactInv, OneEventPerContact, DeadlineInv, HeadersWithinBudget, exchange
<1>4. CaptureInv' /\ BodyInv'
  BY <1>1 DEF ExecutionInv, CaptureInv, BodyInv, Piping, Kept, exchange, reading
<1> QED BY <1>2, <1>3, <1>4 DEF ExecutionInv

-----------------------------------------------------------------------------
(* The theorems                                                              *)

LEMMA ExecutionKeeps == ExecutionInv /\ [Next]_vars => ExecutionInv'
<1> SUFFICES ASSUME ExecutionInv, [Next]_vars PROVE ExecutionInv'
  OBVIOUS
<1>1. CASE Tick \/ UNCHANGED vars
  BY <1>1, TimeKeeps
<1>2. CASE Attempt
  <2>1. ASSUME NEW size \in BodySizes \cup {0}, Serve(size) PROVE ExecutionInv'
    BY <2>1, ServeKeeps, ExecutionConstants
  <2>2. CASE BuildFails
    BY <2>2, RefusedKeeps DEF BuildFails
  <2> QED BY <1>2, <2>1, <2>2, CheckDeadlineKeeps, DispatchKeeps, FetchThrowsKeeps, RetryKeeps DEF Attempt
<1>3. CASE Body
  BY <1>3, ClientLeavesKeeps, PipeEndsKeeps, ChunkKeeps DEF Body
<1>4. ASSUME NEW id \in DOMAIN tasks, Recording(id) PROVE ExecutionInv'
  BY <1>4, RecordingKeeps
<1> QED BY <1>1, <1>2, <1>3, <1>4 DEF Next

THEOREM ExecutionInvariance == Spec => []ExecutionInv
  BY InitHolds, ExecutionKeeps, PTL DEF Spec

\* Every provider that was contacted has one usage event, in the order of the
\* attempts (execute: the recording of each attempt in waitUntil).
THEOREM EveryContactHasItsEvent == Spec => []OneEventPerContact
<1>1. ExecutionInv => OneEventPerContact
  BY DEF ExecutionInv, ContactInv
<1> QED BY <1>1, ExecutionInvariance, PTL

\* All attempts of a plan share the time to first byte that the first one began,
\* but for the rounding of half a millisecond (execute: providerTtfbTimeoutMs).
THEOREM AttemptsShareTheirBudget == Spec => []HeadersWithinBudget
<1>1. ExecutionInv => HeadersWithinBudget
  BY DEF ExecutionInv, DeadlineInv
<1> QED BY <1>1, ExecutionInvariance, PTL

\* The conversation that is stored and the usage that is read are those of the
\* answer the client was served (capture.ts, body-observer.ts).
THEOREM WhatIsServedIsRecorded == Spec => []RecordedAsDelivered
<1>1. ExecutionInv => RecordedAsDelivered
  BY DEF ExecutionInv, CaptureInv, BodyInv, RecordedAsDelivered, CapturesAreServed
<1> QED BY <1>1, ExecutionInvariance, PTL
=============================================================================
