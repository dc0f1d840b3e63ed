-------------------------- MODULE ConversationLog --------------------------
(***************************************************************************)
(* One application's ConversationLog Durable Object (do/ConversationLog.ts) *)
(* and the R2 objects it writes.  Appends interleave with the one flush in  *)
(* flight at its awaits; the object may crash between any two steps, and a  *)
(* write to R2 may fail, land unanswered, or land after its flush gave up.  *)
(*                                                                          *)
(* The alarm is the platform's: a handler that throws is tried again a      *)
(* fixed number of times, and one that was running in a crash is run again. *)
(***************************************************************************)
EXTENDS Integers, Sequences, FiniteSets, FiniteSetsExt

CONSTANTS Records,       \* the served requests captured
          Days,          \* the UTC days they were made on
          Chars,         \* the length of each record's line
          FlushChars,    \* FLUSH_CHARS
          MaxBatchChars, \* MAX_BATCH_CHARS
          AlarmRetries,  \* how often the platform repeats an alarm that throws
          MaxFaults,     \* bound: failed writes
          MaxCrashes     \* bound: crashes of the object

ASSUME LogAssumption ==
    /\ Days \subseteq Nat
    /\ Chars \in [Records -> Nat \ {0}]
    /\ FlushChars \in Nat \ {0} /\ MaxBatchChars \in Nat \ {0}
    /\ AlarmRetries \in Nat /\ MaxFaults \in Nat /\ MaxCrashes \in Nat

VARIABLES
    capture,  \* each capture: where its append stands, and its day
    arrived,  \* the record of each id ever inserted
    pending,  \* the pending table: ids
    batch,    \* the batch table's row, if any
    alarm,    \* the stored alarm, and how often it has thrown
    handler,  \* whether alarm() is running
    flush,    \* memory: the batch the flush in flight is writing
    sent,     \* writes on their way to R2
    files,    \* R2: the batch files
    media,    \* R2: the captures whose media is stored
    faults, crashes

rows == <<arrived, pending, batch>>
r2   == <<sent, files, media>>
vars == <<capture, rows, alarm, handler, flush, r2, faults, crashes>>

NoBatch  == [day |-> -1, last |-> 0]
NoFlush  == [batch |-> NoBatch, lines |-> {}]
NoAlarm  == [set |-> FALSE, tries |-> 0]
NewAlarm == [set |-> TRUE, tries |-> 0]

Init ==
    /\ \E day \in [Records -> Days] :
          capture = [r \in Records |-> [phase |-> "served", day |-> day[r]]]
    /\ arrived = <<>> /\ pending = {} /\ batch = NoBatch
    /\ alarm = NoAlarm /\ handler = FALSE /\ flush = NoFlush
    /\ sent = {} /\ files = {} /\ media = {}
    /\ faults = 0 /\ crashes = 0

DayOf(i) == capture[arrived[i]].day

CharsOf(ids, records) == MapThenSumSet(LAMBDA i : Chars[records[i]], ids)

-----------------------------------------------------------------------------
(* Writing a batch *)

\* The ids a new batch takes: as many of the oldest as fit, and one at least.
LastOf(ids, records) ==
    LET fit == {i \in ids : CharsOf({j \in ids : j <= i}, records) <= MaxBatchChars}
    IN IF fit = {} THEN Min(ids) ELSE Max(fit)

\* Fault: a batch is named from its first record to arrive.
FirstDay(ids, records) == capture[records[Min(ids)]].day

\* A batch is named from its earliest record, not its first to arrive.
EarliestDay(ids, records) == Min({capture[records[i]].day : i \in ids})

\* Fault: a write that is tried again is named again.
AlwaysNewBatch(ids, records, row) ==
    LET last == LastOf(ids, records)
    IN [day |-> EarliestDay({i \in ids : i <= last}, records), last |-> last]

\* The batch row: the one left by a flush that did not finish, or a new one.
BatchRow(ids, records, row) ==
    IF row # NoBatch THEN row
    ELSE LET last == LastOf(ids, records)
         IN [day |-> EarliestDay({i \in ids : i <= last}, records), last |-> last]

\* writeBatch up to its first await: the row is stored and the lines are read.
\* With nothing pending and no row there is nothing to write; a row is deleted
\* with its lines, so one that is left has them.
Writes(ids, records, row) ==
    IF ids = {} /\ row = NoBatch
    THEN /\ batch' = NoBatch /\ flush' = NoFlush /\ UNCHANGED sent
    ELSE LET named == BatchRow(ids, records, row)
             put == [batch |-> named, lines |-> {records[i] : i \in {j \in ids : j <= named.last}}]
         IN batch' = named /\ flush' = put /\ sent' = sent \union {put}

\* One flush at a time: a second caller waits for the one in flight.
Flushes(ids, records) ==
    IF flush # NoFlush THEN UNCHANGED <<batch, flush, sent>> ELSE Writes(ids, records, batch)

-----------------------------------------------------------------------------
(* append *)

\* Media first, then the line that names it.
StoreMedia(r) ==
    /\ capture[r].phase = "served"
    /\ media' = media \union {r}
    /\ capture' = [capture EXCEPT ![r].phase = "stored"]
    /\ UNCHANGED <<rows, alarm, handler, flush, sent, files, faults, crashes>>

\* The write of the media fails, whether or not it landed, and the append with it.
MediaFails(r) ==
    /\ capture[r].phase = "served" /\ faults < MaxFaults
    /\ media' \in {media, media \union {r}}
    /\ capture' = [capture EXCEPT ![r].phase = "failed"]
    /\ faults' = faults + 1
    /\ UNCHANGED <<rows, alarm, handler, flush, sent, files, crashes>>

\* The record is inserted; enough of them are written at once, fewer wait for
\* the alarm.
Insert(r) ==
    LET id == Len(arrived) + 1
        records == Append(arrived, r)
        ids == pending \union {id}
    IN /\ capture[r].phase = "stored"
       /\ arrived' = records /\ pending' = ids
       /\ \/ /\ CharsOf(ids, records) >= FlushChars
             /\ capture' = [capture EXCEPT ![r].phase = "flushing"]
             /\ Flushes(ids, records)
             /\ UNCHANGED alarm
          \/ /\ CharsOf(ids, records) < FlushChars
             /\ capture' = [capture EXCEPT ![r].phase = "returned"]
             /\ alarm' = IF alarm.set THEN alarm ELSE NewAlarm
             /\ UNCHANGED <<batch, flush, sent>>
       /\ UNCHANGED <<handler, files, media, faults, crashes>>

\* Everyone who waited for the flush goes on as it ended.
Waiters(phase) ==
    capture' = [r \in Records |-> IF capture[r].phase = "flushing"
                                  THEN [capture[r] EXCEPT !.phase = phase] ELSE capture[r]]

-----------------------------------------------------------------------------
(* alarm *)

\* A running alarm is no longer set.
AlarmFires ==
    /\ alarm.set /\ ~handler
    /\ Flushes(pending, arrived)
    /\ handler' = (flush' # NoFlush)
    /\ alarm' = IF flush' = NoFlush THEN NoAlarm ELSE [alarm EXCEPT !.set = FALSE]
    /\ UNCHANGED <<capture, arrived, pending, files, media, faults, crashes>>

\* Fault: the handler keeps a failed flush to itself.
AlarmSwallows == IF ~handler \/ alarm.set THEN alarm ELSE NoAlarm

\* The platform's retry of a handler that threw, unless a new alarm was set.
AlarmAfterThrow ==
    IF ~handler \/ alarm.set THEN alarm
    ELSE IF alarm.tries < AlarmRetries THEN [set |-> TRUE, tries |-> alarm.tries + 1]
    ELSE NoAlarm

-----------------------------------------------------------------------------
(* The write to R2 and what follows it *)

\* A write lands: the file of that name is these lines now.
PutLands ==
    \E put \in sent :
        /\ sent' = sent \ {put}
        /\ files' = {f \in files : f.batch # put.batch} \union {put}
        /\ UNCHANGED <<capture, rows, alarm, handler, flush, media, faults, crashes>>

\* The landed batch leaves the tables in one transaction, and the next is
\* begun; with nothing left the flush is over.
PutAnswered ==
    /\ flush # NoFlush /\ flush \in files
    /\ pending' = {i \in pending : i > flush.batch.last}
    /\ Writes(pending', arrived, NoBatch)
    /\ IF flush' # NoFlush THEN UNCHANGED <<capture, alarm, handler>>
       ELSE /\ Waiters("returned")
            /\ handler' = FALSE
            /\ alarm' = IF handler /\ pending' # {} THEN NewAlarm ELSE alarm
    /\ UNCHANGED <<arrived, files, media, faults, crashes>>

\* A write whose flush is gone may have landed, may land yet or never will.
Abandoned == sent' \in {sent, sent \ {flush}} /\ UNCHANGED <<files, media>>

\* The flush fails with its write.
PutFails ==
    /\ flush # NoFlush /\ faults < MaxFaults
    /\ flush' = NoFlush
    /\ Waiters("failed")
    /\ handler' = FALSE /\ alarm' = AlarmAfterThrow
    /\ faults' = faults + 1
    /\ Abandoned
    /\ UNCHANGED <<rows, crashes>>

\* The object goes down: rows and the alarm stay, memory and calls do not.
Crash ==
    /\ crashes < MaxCrashes
    /\ crashes' = crashes + 1
    /\ capture' = [r \in Records |-> IF capture[r].phase \in {"stored", "flushing"}
                                     THEN [capture[r] EXCEPT !.phase = "failed"] ELSE capture[r]]
    /\ flush' = NoFlush /\ handler' = FALSE
    /\ alarm' = IF handler THEN [alarm EXCEPT !.set = TRUE] ELSE alarm
    /\ Abandoned
    /\ UNCHANGED <<rows, faults>>

Next ==
    \/ \E r \in Records : StoreMedia(r) \/ MediaFails(r) \/ Insert(r)
    \/ AlarmFires \/ PutLands \/ PutAnswered \/ PutFails \/ Crash

Spec == Init /\ [][Next]_vars
FairSpec == Spec /\ WF_vars(AlarmFires) /\ WF_vars(PutLands) /\ WF_vars(PutAnswered)

-----------------------------------------------------------------------------
(* Properties *)

Inserted == {arrived[i] : i \in 1..Len(arrived)}
Waiting  == {arrived[i] : i \in pending}
FilesOf(r) == {f \in files : r \in f.lines}

\* A record is in one file at most, and one that has left the tables is in one:
\* a batch written again after a crash, a failure or a write that lands late
\* replaces its file rather than adding a copy (ConversationLog: "overwrites
\* the same file instead of adding a second copy of the same records").
WrittenOnce ==
    \A r \in Inserted : /\ Cardinality(FilesOf(r)) <= 1
                        /\ r \notin Waiting => FilesOf(r) # {}

\* No record is stored without the media it names, nor in a file of a later day
\* than its media, which retention by whole days would delete first
\* (storage.ts: retention "never removes media a kept record names").
MediaKeptWithNames ==
    /\ Inserted \subseteq media
    /\ \A f \in files : \A r \in f.lines : f.batch.day <= capture[r].day

\* What was handed over is written, through crashes and failed writes that the
\* alarm's retries outlast (ConversationLog: "a deploy or an eviction loses
\* nothing that was handed over; the alarm that writes them is stored too").
HandedOverIsWritten ==
    <>[](\A r \in Records : capture[r].phase = "returned" => FilesOf(r) # {})
=============================================================================
