--------------------------- MODULE MCUserLimiter ---------------------------
(***************************************************************************)
(* Two behaviours of one limiter object, and the plan cache that decides in   *)
(* front of it who is metered at all.  The object: requests without           *)
(* assertions while time passes and windows roll; and requests and token      *)
(* exchanges that present counters while it stands still.  Neither needs what *)
(* the other varies: a window never looks at a counter, and the counter's row *)
(* never at the clock.  The plan cache shares no state with either.  A         *)
(* behaviour is one of the three, so their state spaces add up.               *)
(***************************************************************************)
EXTENDS UserLimiter, BillingAccess, TLC

VARIABLE part

\* Limits that the minute, the day and the budget can each be the first to refuse.
WindowLimits == {[rpm |-> 1, rpd |-> 2, budget |-> NoLimit], [rpm |-> 2, rpd |-> 2, budget |-> 1]}

\* Every request awaits its figure, so that replays race requests that wait.
CounterLimits == {[rpm |-> NoLimit, rpd |-> 2, budget |-> 1]}

MCLimits == WindowLimits \union CounterLimits

\* Next to each other, inside the window, on its edge, beyond it and unsafe.
MCCounters == {-1, 0, 1, 2, 3}

CONSTANT Spender \* the one key whose ledger moves while time passes

meterVars == <<part, vars, billingVars>>

LimiterInit == Init /\ BillingInit /\ part \in {"windows", "counter", "billing"}

\* The clocks a caller may have.
Clocks == Times \intersect (clock - MaxLag) .. clock

\* Check, of the callers of one part.
Asks(c, limitsOf, keysOf, countersOf) ==
    \E t \in Clocks, limits \in limitsOf, key \in keysOf, n \in countersOf :
        \/ CheckReplayed(c, t, limits, key, n)
        \/ CheckUnbudgeted(c, t, limits, key, n)
        \/ CheckCached(c, t, limits, key, n)
        \/ CheckReading(c, t, limits, key, n)

Answering == \E l \in Ledgers : ReadAnswered(l) \/ ReadReturns(l) \/ ReadFails(l)

\* Next, without what the part leaves out: the counters and the second key, or
\* the clock.
WindowsNext ==
    \/ \E c \in Calls : Asks(c, WindowLimits, {Spender}, {NoAssertion}) \/ Decide(c)
    \/ Answering \/ Evict \/ Settle(Spender) \/ Tick

CounterNext ==
    \/ \E c \in Calls : \/ Asks(c, CounterLimits, Keys, Counters \union {NoAssertion})
                        \/ Decide(c) \/ AdvanceCounter(c)
    \/ Answering \/ Evict \/ \E k \in Keys : Settle(k)

\* The plan changes early enough for what follows to be seen, for good or for two
\* instants: only the distances in time matter.
ChangesEarly == history' # history => now < 2 /\ history'[2].endsAt \in {now + 2, Never}

LimiterNext ==
    \/ part = "windows" /\ WindowsNext /\ UNCHANGED <<part, billingVars>>
    \/ part = "counter" /\ CounterNext /\ UNCHANGED <<part, billingVars>>
    \/ part = "billing" /\ BillingNext /\ ChangesEarly /\ UNCHANGED <<part, vars>>

LimiterSpec == LimiterInit /\ [][LimiterNext]_meterVars

\* Callers and askers are given the same names.
MCSymmetry == Permutations(Calls)
=============================================================================
