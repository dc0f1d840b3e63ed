-------------------------- MODULE AssertionCounter --------------------------
(***************************************************************************)
(* The App Attest assertion counter of one install (do/UserLimiter.ts,      *)
(* useCounter): the highest counter the install has used, and which of the  *)
(* CounterWindow values from it downwards have been.  The 64-bit mask of    *)
(* the stored row is the set of its one bits: bit n is the counter          *)
(* high - n, a left shift moves every bit up, and the mask drops those that *)
(* leave the window.                                                        *)
(***************************************************************************)
EXTENDS Integers

CONSTANTS CounterWindow,  \* how many counters the mask remembers (64)
          MaxSafeInteger  \* the greatest counter Number.isSafeInteger admits

ASSUME CounterAssumption ==
    /\ CounterWindow \in Nat \ {0}
    /\ MaxSafeInteger \in Nat

\* The row before the first assertion: absent.
NoCounter == [high |-> -1, seen |-> {}]

CounterRows ==
    [high: 0..MaxSafeInteger, seen: SUBSET (0..(CounterWindow - 1))] \union {NoCounter}

SafeCounter(n) == n \in 0..MaxSafeInteger

\* Fault: a counter behind the window is judged by a mask that forgot it.
UnusedBehindWindow(row, n) ==
    /\ SafeCounter(n)
    /\ row = NoCounter \/ n > row.high \/ (row.high - n) \notin row.seen

(***************************************************************************)
(* Whether the row has not used counter n: always when there is no row,     *)
(* always ahead of the highest, once inside the window, never behind it.    *)
(***************************************************************************)
CounterUnused(row, n) ==
    /\ SafeCounter(n)
    /\ \/ row = NoCounter
       \/ n > row.high
       \/ /\ row.high - n < CounterWindow
          /\ (row.high - n) \notin row.seen

\* Whether the row remembers n as used, or has put it out of reach.
CounterUsed(row, n) ==
    /\ row # NoCounter
    /\ SafeCounter(n)
    /\ n <= row.high
    /\ row.high - n < CounterWindow => (row.high - n) \in row.seen

Shifted(seen, shift) == {b \in 0..(CounterWindow - 1) : b - shift \in seen}

CounterRecorded(row, n) ==
    IF row = NoCounter \/ n > row.high
    THEN [high |-> n,
          seen |-> {0} \union IF row = NoCounter THEN {} ELSE Shifted(row.seen, n - row.high)]
    ELSE [row EXCEPT !.seen = @ \union {row.high - n}]
=============================================================================
