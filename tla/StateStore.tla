----------------------------- MODULE StateStore -----------------------------
(***************************************************************************)
(* The state file several command-line processes share (cli/src/state.ts).   *)
(* A command reads it once, without a lock, and holds a copy for minutes; a   *)
(* write takes the lock file, merges the copy into what the file holds by     *)
(* then and replaces the file.  A lock whose owner died is judged, confirmed  *)
(* and removed in three calls of the file system.  CliOperations adds what    *)
(* the commands write.                                                        *)
(***************************************************************************)
EXTENDS Integers, FiniteSets

CONSTANTS Commands,   \* the processes, each run any number of times
          MaxToken,   \* bound: tokens drawn
          MaxFile,    \* bound: key files created
          Nothing,    \* an entry that is not there
          MaxBreakers \* bound: commands breaking one abandoned lock at a time

VARIABLES
    disk,     \* connection.json
    lock,     \* connection.lock: the command that owns it
    inside,   \* where each command is in locked()
    breaking, \* where each command is in breakAbandonedLock
    local,    \* the state each command holds and changes
    baseline  \* the state each command last saw, which a write merges from

storeVars == <<disk, lock, inside, breaking, local, baseline>>

\* The connection is an entry next to the operations: its value is the account.
Active == 0
Tokens == 1 .. MaxToken
Files  == 1 .. MaxFile
NoFile == 0

\* An operation's record, whose token is its key.
Records == [output: Files \cup {NoFile}, done: BOOLEAN]

\* The connection a command has when this machine already holds an account.
Connected == 0

IsState(s) ==
    /\ s = [e \in {Active} \cup Tokens |-> s[e]]
    /\ s[Active] \in {Connected, Nothing} \cup Tokens
    /\ \A t \in Tokens : s[t] \in Records \cup {Nothing}

AreStates(held) == held = [c \in Commands |-> held[c]] /\ \A c \in Commands : IsState(held[c])

\* The lock file when nobody has it, and when its owner was killed.
Free == "free"
Left == "left"

ASSUME StoreAssumption ==
    /\ MaxToken \in Nat \ {0} /\ MaxFile \in Nat /\ MaxBreakers \in Nat
    /\ IsFiniteSet(Commands) /\ {Free, Left} \cap Commands = {}
    /\ Nothing \notin Records /\ Nothing \notin {Connected} \cup Tokens

StoreInit(initial) ==
    /\ disk = initial
    /\ lock = Free
    /\ inside = [c \in Commands |-> "out"]
    /\ breaking = [c \in Commands |-> "no"]
    /\ local = [c \in Commands |-> initial]
    /\ baseline = [c \in Commands |-> initial]
-----------------------------------------------------------------------------
\* Fault: what this command holds replaces the file.
Overwritten(b, l, d) == l

\* mergeState and mergeRecords: what this command changed, dropped or added since
\* it last saw the file, and the file's own entries otherwise.
Merged(b, l, d) == [e \in {Active} \cup Tokens |-> IF l[e] # b[e] THEN l[e] ELSE d[e]]

\* absorb: the merge becomes the command's own state, except that a command with a
\* connection is never moved off it.
Absorbed(l, merged) == [merged EXCEPT ![Active] = IF l[Active] = Nothing THEN merged[Active] ELSE l[Active]]

\* read, at the start of a command.
Read(c) ==
    /\ local' = [local EXCEPT ![c] = disk]
    /\ baseline' = [baseline EXCEPT ![c] = disk]
    /\ UNCHANGED <<disk, lock, inside, breaking>>

\* Fault: a reservation trusts the copy the command started with.
EnterWithoutLooking(c, looks) ==
    /\ inside[c] = "out" /\ breaking[c] = "no" /\ lock = Free
    /\ lock' = c
    /\ inside' = [inside EXCEPT ![c] = "in"]
    /\ UNCHANGED <<disk, breaking, local, baseline>>

\* The lock file is created exclusively.  A reservation looks at the file at once.
Enter(c, looks) ==
    /\ inside[c] = "out" /\ breaking[c] = "no" /\ lock = Free
    /\ lock' = c
    /\ inside' = [inside EXCEPT ![c] = "in"]
    /\ local' = IF looks
                THEN [local EXCEPT ![c] = Absorbed(@, Merged(baseline[c], @, disk))]
                ELSE local
    /\ UNCHANGED <<disk, breaking, baseline>>

\* persist, of what the command now holds.
Persist(c, held) ==
    LET merged == Merged(baseline[c], held, disk)
    IN  /\ disk' = merged
        /\ local' = [local EXCEPT ![c] = Absorbed(held, merged)]
        /\ baseline' = [baseline EXCEPT ![c] = Absorbed(held, merged)]

\* persist, as a step of its own.
Written(c, held) ==
    /\ inside[c] = "in"
    /\ inside' = [inside EXCEPT ![c] = "written"]
    /\ Persist(c, held)
    /\ UNCHANGED <<lock, breaking>>

\* A reservation that found a record writes nothing.
Kept(c) ==
    /\ inside[c] = "in"
    /\ inside' = [inside EXCEPT ![c] = "written"]
    /\ UNCHANGED <<disk, lock, breaking, local, baseline>>

\* The lock file is removed, whoever's it is: whoever judged it finds it changed.
Unlinked ==
    /\ lock' = Free
    /\ breaking' = [c \in Commands |-> CASE breaking[c] = "judged" -> "stale"
                                         [] OTHER -> breaking[c]]

Leave(c) ==
    /\ inside[c] = "written"
    /\ inside' = [inside EXCEPT ![c] = "out"]
    /\ Unlinked

\* breakAbandonedLock: the lock's owner is found dead,
Judge(c) ==
    /\ inside[c] = "out" /\ breaking[c] = "no" /\ lock = Left
    /\ Cardinality({d \in Commands : breaking[d] # "no"}) < MaxBreakers
    /\ breaking' = [breaking EXCEPT ![c] = "judged"]
    /\ UNCHANGED <<disk, lock, inside, local, baseline>>

\* Fault: no lock is ever confirmed.
ConfirmsNone(c) ==
    /\ breaking[c] \in {"judged", "stale"}
    /\ breaking' = [breaking EXCEPT ![c] = "no"]
    /\ UNCHANGED <<disk, lock, inside, local, baseline>>

\* it is found to be the same file still, or left to whoever took it since,
Confirm(c) ==
    /\ breaking[c] \in {"judged", "stale"}
    /\ breaking' = [breaking EXCEPT ![c] = IF @ = "judged" THEN "confirmed" ELSE "no"]
    /\ UNCHANGED <<disk, lock, inside, local, baseline>>

\* and the path is unlinked.
Remove(c) ==
    /\ breaking[c] = "confirmed"
    /\ lock' = Free
    /\ breaking' = [d \in Commands |-> CASE d = c -> "no"
                                         [] d # c /\ breaking[d] = "judged" -> "stale"
                                         [] OTHER -> breaking[d]]
    /\ UNCHANGED <<disk, inside, local, baseline>>

\* The process is killed: its lock file stays.
Killed(c) ==
    /\ lock' = IF lock = c THEN Left ELSE lock
    /\ inside' = [inside EXCEPT ![c] = "out"]
    /\ breaking' = [breaking EXCEPT ![c] = "no"]
    /\ UNCHANGED <<disk, local, baseline>>
=============================================================================
