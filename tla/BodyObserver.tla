---------------------------- MODULE BodyObserver ----------------------------
(***************************************************************************)
(* How one response body is read twice (usage/body-observer.ts): the        *)
(* client's stream is the pipe itself, and the observer keeps the first     *)
(* HeadBytes and the last TailBytes of what went through.  Bytes are        *)
(* counted, a byte being known by its place in the body.                   *)
(***************************************************************************)
EXTENDS Integers

CONSTANTS HeadBytes,  \* OBSERVER_HEAD_BYTES
          TailBytes   \* OBSERVER_TAIL_BYTES

ASSUME ObserverAssumption ==
    HeadBytes \in Nat \ {0} /\ TailBytes \in Nat \ {0}

\* A pipe that has passed nothing yet; `cancelled` is the transform's flag.
NewPipe == [passed |-> 0, cancelled |-> FALSE, end |-> "running", aborted |-> FALSE]
NoPipe  == [NewPipe EXCEPT !.end = "none"]

Passed(pipe, bytes) == [pipe EXCEPT !.passed = @ + bytes]

\* The readable side was cancelled, by the client or by the pipe tearing it down.
Cancelled(pipe) == [pipe EXCEPT !.cancelled = TRUE]

\* The pipe ran to completion: to the end of the body or to a cancelled client.
Completed(pipe) == [pipe EXCEPT !.end = "completed", !.aborted = pipe.cancelled]

\* Fault: both endings of the pipe believe the flag.
BrokenByFlag(pipe) == [Cancelled(pipe) EXCEPT !.end = "broken", !.aborted = TRUE]

\* The upstream broke: the pipe tears the transform down and rejects.
Broken(pipe) == [Cancelled(pipe) EXCEPT !.end = "broken", !.aborted = FALSE]

SmallerOf(a, b) == IF a < b THEN a ELSE b

\* Whether the two windows together still hold the byte.
Kept(pipe, byte) ==
    LET head == SmallerOf(pipe.passed, HeadBytes)
        tail == SmallerOf(pipe.passed, TailBytes)
    IN  byte \in 1..head \/ byte \in (pipe.passed - tail + 1)..pipe.passed
=============================================================================
