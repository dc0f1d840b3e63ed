--------------------------- MODULE RequestWindows ---------------------------
(***************************************************************************)
(* The one stored row of a limiter object (do/UserLimiter.ts): the minute   *)
(* and the day being counted and the requests admitted into each.  A count  *)
(* of a window that has rolled reads as zero, and a window never moves      *)
(* backwards: a request whose clock trails the row is counted into the      *)
(* row's newer window.                                                      *)
(***************************************************************************)
EXTENDS Integers

CONSTANTS MinuteLen,  \* clock units in a minute
          DayLen,     \* clock units in a UTC day
          MonthLen    \* clock units in a UTC month

ASSUME WindowAssumption ==
    /\ MinuteLen \in Nat \ {0}
    /\ DayLen \in Nat \ {0}
    /\ MonthLen \in Nat \ {0}

MinuteOf(now) == now \div MinuteLen
DayOf(now)    == now \div DayLen
MonthOf(now)  == now \div MonthLen

\* No request admitted yet: no row.  Every real key is greater.
NoWindows == [minuteKey |-> -1, minute |-> 0, dayKey |-> -1, day |-> 0]

Later(a, b) == IF a > b THEN a ELSE b

\* Fault: a request is counted in the window of its own clock, even an older one.
OwnWindowCounts(row, now) ==
    [minuteKey |-> MinuteOf(now),
     minute    |-> IF row.minuteKey = MinuteOf(now) THEN row.minute ELSE 0,
     dayKey    |-> DayOf(now),
     day       |-> IF row.dayKey = DayOf(now) THEN row.day ELSE 0]

\* The keys a request arriving with clock `now` is counted under, and the
\* counts standing there.
WindowCounts(row, now) ==
    LET minuteKey == Later(row.minuteKey, MinuteOf(now))
        dayKey    == Later(row.dayKey, DayOf(now))
    IN [minuteKey |-> minuteKey,
        minute    |-> IF row.minuteKey = minuteKey THEN row.minute ELSE 0,
        dayKey    |-> dayKey,
        day       |-> IF row.dayKey = dayKey THEN row.day ELSE 0]

\* The row after one more admission, written as one statement.
BumpWindows(counts) ==
    [minuteKey |-> counts.minuteKey, minute |-> counts.minute + 1,
     dayKey    |-> counts.dayKey,    day    |-> counts.day + 1]

\* A limit that is not set (null) refuses nothing.
NoLimit == -1
Exceeded(count, limit) == limit # NoLimit /\ count >= limit
=============================================================================
