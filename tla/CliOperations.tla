--------------------------- MODULE CliOperations ---------------------------
(***************************************************************************)
(* One operation asked for by several runs of the same command               *)
(* (cli/src/context.ts): its record, with a token of its own, is written      *)
(* before it is sent, so that a lost answer is recovered by running the       *)
(* command again, and released once the result is printed.  The deployment    *)
(* (management/resource-operations.ts over the operation engine) does an       *)
(* operation's work once under its token and answers a repeat, with the key it *)
(* minted as long as it holds it sealed.  Every run here asks for the same     *)
(* thing, in under the 90 days records are recovered for, within one account.  *)
(***************************************************************************)
EXTENDS StateStore, Sequences

CONSTANTS Kinds,       \* "plain", "key" (mints an application key) and "bootstrap"
          MaxRuns,     \* bound: commands started
          MaxKills,    \* bound: commands killed
          MaxFaults    \* bound: requests or answers lost, first refusals of a token,
                       \* waits for the lock that time out

ASSUME CliAssumption ==
    /\ Kinds \subseteq {"plain", "key", "bootstrap"} /\ Kinds # {}
    /\ {MaxRuns, MaxKills, MaxFaults} \subseteq Nat

VARIABLES
    kind,    \* what the commands ask for
    at,      \* where each command is
    token,   \* the operation each command works on
    tied,    \* its record is still the object its state holds
    out,     \* the key file each command has open
    answer,  \* the deployment's answer to it
    file,    \* what each key file created so far holds
    minted,  \* tokens drawn
    works,   \* how often the deployment did the work of each token
    sealed,  \* tokens whose key the deployment can still hand out
    settled, \* observation: tokens whose result was printed or whose record was given up
    spent    \* what of the bounds was used

clientVars == <<kind, at, token, tied, out>>
serverVars == <<answer, works, sealed>>
cliVars == <<storeVars, clientVars, serverVars, file, minted, settled, spent>>

Fresh == [output |-> NoFile, done |-> FALSE]

\* A key file: never there or unlinked, reserved, or holding the key of a token.
Gone     == -1
Reserved == 0

\* The places where a command writes the state file.
Writing == {"reserving", "noting", "finishing", "selecting", "releasing", "forgetting"}

\* A command that has ended, "kept" if it could not release its record.
Ended == {"idle", "ended", "kept"}

CliInit ==
    /\ kind \in Kinds
    /\ StoreInit([e \in {Active} \cup Tokens |->
                     IF e = Active /\ kind # "bootstrap" THEN Connected ELSE Nothing])
    /\ at = [c \in Commands |-> "idle"]
    /\ token = [c \in Commands |-> 1]
    /\ tied = [c \in Commands |-> FALSE]
    /\ out = [c \in Commands |-> NoFile]
    /\ answer = [c \in Commands |-> "none"]
    /\ file = <<>>
    /\ minted = 0 /\ works = [t \in Tokens |-> 0] /\ sealed = {} /\ settled = {}
    /\ spent = [runs |-> 0, kills |-> 0, faults |-> 0]

Goes(c, place) == at' = [at EXCEPT ![c] = place]

Spend(what, max) ==
    spent[what] < max /\ spent' = [spent EXCEPT ![what] = @ + 1]
-----------------------------------------------------------------------------
\* main: the command reads the state.  A machine that has an account needs no
\* other.
Start(c) ==
    /\ at[c] \in Ended /\ Spend("runs", MaxRuns)
    /\ Read(c)
    /\ Goes(c, IF kind = "bootstrap" /\ disk[Active] # Nothing THEN "ended" ELSE "reserving")
    /\ tied' = [tied EXCEPT ![c] = FALSE]
    /\ out' = [out EXCEPT ![c] = NoFile]
    /\ answer' = [answer EXCEPT ![c] = "none"]
    /\ token' = [token EXCEPT ![c] = 1]
    /\ UNCHANGED <<kind, works, sealed, file, minted, settled>>

EnterLock(c) ==
    /\ at[c] \in Writing
    /\ Enter(c, at[c] = "reserving")
    /\ UNCHANGED <<clientVars, serverVars, file, minted, settled, spent>>

BreakLock(c) ==
    /\ at[c] \in Writing
    /\ Judge(c) \/ Confirm(c) \/ Remove(c)
    /\ UNCHANGED <<clientVars, serverVars, file, minted, settled, spent>>

Found(s) == {t \in Tokens : s[t] # Nothing}

\* reserveOperation, inside the lock: a record an identical command left,
Adopt(c) ==
    /\ at[c] = "reserving"
    /\ Kept(c)
    /\ \E t \in Found(local[c]) : token' = [token EXCEPT ![c] = t]
    /\ tied' = [tied EXCEPT ![c] = TRUE]
    /\ UNCHANGED <<kind, at, out, serverVars, file, minted, settled, spent>>

\* or a new one with a token of its own.
Claim(c) ==
    /\ at[c] = "reserving" /\ Found(local[c]) = {}
    /\ minted < MaxToken /\ minted' = minted + 1
    /\ Written(c, [local[c] EXCEPT ![minted'] = Fresh])
    /\ token' = [token EXCEPT ![c] = minted']
    /\ tied' = [tied EXCEPT ![c] = TRUE]
    /\ UNCHANGED <<kind, at, out, serverVars, file, settled, spent>>

\* save.  An entry only another command changed replaces the object.
Save(c) ==
    /\ at[c] \in Writing \ {"reserving"}
    /\ Written(c, local[c])
    /\ LET t == token[c] IN
       tied' = [tied EXCEPT ![c] = @ /\ (local[c][t] # baseline[c][t] \/ disk[t] = local[c][t])]
    /\ UNCHANGED <<kind, at, token, out, serverVars, file, minted, settled, spent>>

\* A bootstrap finds that another command has created an account.
Overtaken(c) == kind = "bootstrap" /\ local[c][Active] # Nothing

\* Where a write leads.
After(c) ==
    CASE at[c] = "reserving" /\ kind = "key" -> "opening"
      [] at[c] = "reserving" /\ kind # "key" /\ Overtaken(c) -> "ended"
      [] at[c] = "reserving" /\ kind # "key" /\ ~Overtaken(c) -> "sending"
      [] at[c] = "noting" -> "sending"
      [] at[c] \in {"finishing", "selecting"} -> "printing"
      [] at[c] \in {"releasing", "forgetting"} -> "ended"

\* Fault: the reservation is released whatever became of its record.
ClosesAlways(c) ==
    IF kind = "key" /\ out[c] # NoFile
    THEN file' = [file EXCEPT ![out[c]] = Gone]
    ELSE UNCHANGED file

\* The end of keyOperation: the reservation of an operation whose record is gone
\* is released, if it is still empty.
Closes(c) ==
    IF kind = "key" /\ out[c] # NoFile /\ local[c][token[c]] = Nothing /\ file[out[c]] = Reserved
    THEN file' = [file EXCEPT ![out[c]] = Gone]
    ELSE UNCHANGED file

\* The lock is let go.
LeaveLock(c) ==
    /\ Leave(c) /\ UNCHANGED <<disk, local, baseline>>
    /\ Goes(c, After(c))
    /\ IF at[c] = "forgetting" THEN Closes(c) ELSE UNCHANGED file
    /\ UNCHANGED <<kind, token, tied, out, serverVars, minted, settled, spent>>

\* Another command is still writing after ten seconds: the write is given up, and
\* with it the command, unless only its record was to be released.
TimeOut(c) ==
    /\ at[c] \in Writing /\ inside[c] = "out" /\ breaking[c] = "no"
    /\ lock \in Commands
    /\ Spend("faults", MaxFaults)
    /\ Goes(c, IF at[c] = "releasing" THEN "kept" ELSE "ended")
    /\ IF at[c] \in {"noting", "finishing", "forgetting"} THEN Closes(c) ELSE UNCHANGED file
    /\ UNCHANGED <<storeVars, kind, token, tied, out, serverVars, minted, settled>>
-----------------------------------------------------------------------------
\* The operation is over for this command: its result goes to stdout, and
\* acknowledgeOutput, or bootstrap itself, releases the record.
Settles(c, place, s) ==
    /\ settled' = settled \cup {token[c]}
    /\ Goes(c, place)
    /\ local' = [local EXCEPT ![c] = [s EXCEPT ![token[c]] = Nothing]]
    /\ UNCHANGED <<disk, lock, inside, breaking, baseline>>

\* keyOperation opens the file it reserved, or creates one.  A creation that was
\* completed before is only checked against its file.
OpenOutput(c) ==
    /\ at[c] = "opening"
    /\ LET t == token[c]
           r == local[c][t]
       IN  \/ /\ r.done /\ file[r.output] = t
              /\ Settles(c, "releasing", local[c])
              /\ out' = [out EXCEPT ![c] = r.output]
              /\ UNCHANGED file
           \/ /\ r.output # NoFile /\ IF r.done THEN file[r.output] # t ELSE file[r.output] = Gone
              /\ Goes(c, "ended")
              /\ UNCHANGED <<storeVars, out, file, settled>>
           \/ /\ ~r.done /\ r.output # NoFile /\ file[r.output] # Gone
              /\ out' = [out EXCEPT ![c] = r.output]
              /\ Goes(c, "noting")
              /\ UNCHANGED <<storeVars, file, settled>>
           \/ /\ ~r.done /\ r.output = NoFile /\ Len(file) < MaxFile
              /\ file' = Append(file, Reserved)
              /\ out' = [out EXCEPT ![c] = Len(file')]
              /\ local' = [local EXCEPT ![c][t].output = Len(file')]
              /\ Goes(c, "noting")
              /\ UNCHANGED <<disk, lock, inside, breaking, baseline, settled>>
    /\ UNCHANGED <<kind, token, tied, serverVars, minted, spent>>

Done == {t \in Tokens : works[t] > 0}

\* A request the deployment refuses for good it refuses whenever it is sent.
Refused(t) ==
    /\ t \notin Done
    /\ \/ t \in settled
       \/ \E c \in Commands : token[c] = t /\ at[c] = "answered" /\ answer[c] = "refused"

\* What a completed operation answers: the key only while it is held sealed.
Held(t, held) == IF kind = "key" /\ t \notin held THEN "redacted" ELSE "whole"

\* openResourceOperation: the token's operation is opened, and is pending, or is
\* complete and only answered.
Open(c) ==
    /\ at[c] = "sending" /\ ~Refused(token[c])
    /\ IF token[c] \in Done
       THEN Goes(c, "answered") /\ answer' = [answer EXCEPT ![c] = Held(token[c], sealed)]
       ELSE Goes(c, "running") /\ UNCHANGED answer
    /\ UNCHANGED <<storeVars, kind, token, tied, out, works, sealed, file, minted, settled, spent>>

\* Fault: the write does not hold to the operation's guard.
WritesAgain(t) ==
    /\ works' = [works EXCEPT ![t] = @ + 1]
    /\ sealed' = sealed \cup {t}

\* runResourceOperation: the write and the completion are one batch, guarded by the
\* operation being pending; a twin that comes later finds it settled.
WritesOnce(t) ==
    IF t \in Done THEN UNCHANGED <<works, sealed>>
    ELSE /\ works' = [works EXCEPT ![t] = @ + 1]
         /\ sealed' = sealed \cup {t}

Run(c) ==
    /\ at[c] = "running" /\ ~Refused(token[c])
    /\ WritesOnce(token[c])
    /\ answer' = [answer EXCEPT ![c] = Held(token[c], sealed')]
    /\ Goes(c, "answered")
    /\ UNCHANGED <<storeVars, kind, token, tied, out, file, minted, settled, spent>>

\* The operation is refused, and nothing was written.
Refuse(c) ==
    /\ at[c] \in {"sending", "running"} /\ token[c] \notin Done
    /\ IF Refused(token[c]) THEN UNCHANGED spent ELSE Spend("faults", MaxFaults)
    /\ answer' = [answer EXCEPT ![c] = "refused"]
    /\ Goes(c, "answered")
    /\ UNCHANGED <<storeVars, kind, token, tied, out, works, sealed, file, minted, settled>>

\* The key's recovery window ends, well after a command stored the key it was
\* answered with.
Unseal(t) ==
    /\ kind = "key" /\ t \in sealed
    /\ ~\E c \in Commands : token[c] = t /\ at[c] = "answered" /\ answer[c] = "whole"
    /\ sealed' = sealed \ {t}
    /\ UNCHANGED <<storeVars, clientVars, answer, works, file, minted, settled, spent>>

\* The request or its answer is lost, or the deployment is out of order.
Lose(c) ==
    /\ at[c] \in {"sending", "running", "answered"}
    /\ Spend("faults", MaxFaults)
    /\ Goes(c, "ended")
    /\ Closes(c)
    /\ UNCHANGED <<storeVars, kind, token, tied, out, serverVars, minted, settled>>

\* A refusal, and a key that can no longer be recovered, drop the record.
GiveUp(c) ==
    /\ at[c] = "answered" /\ answer[c] \in {"refused", "redacted"}
    /\ Settles(c, "forgetting", local[c])
    /\ UNCHANGED <<kind, token, tied, out, serverVars, file, minted, spent>>

\* An operation without a key goes straight to the output, a bootstrap's account
\* becomes the connection.
Answered(c) ==
    /\ at[c] = "answered" /\ answer[c] = "whole" /\ kind # "key"
    /\ IF kind = "plain"
       THEN Settles(c, "releasing", local[c])
       ELSE /\ local' = [local EXCEPT ![c][Active] = token[c]]
            /\ Goes(c, "selecting")
            /\ UNCHANGED <<disk, lock, inside, breaking, baseline, settled>>
    /\ UNCHANGED <<kind, token, tied, out, serverVars, file, minted, spent>>

\* storeKey: the key is in the file, if the file is still there, before the record
\* says so.
Store(c) ==
    /\ at[c] = "answered" /\ answer[c] = "whole" /\ kind = "key"
    /\ file' = IF file[out[c]] = Gone THEN file ELSE [file EXCEPT ![out[c]] = token[c]]
    /\ local' = IF tied[c] THEN [local EXCEPT ![c][token[c]].done = TRUE] ELSE local
    /\ Goes(c, "finishing")
    /\ UNCHANGED <<disk, lock, inside, breaking, baseline, kind, token, tied, out, serverVars, minted, settled, spent>>

\* The key's metadata is printed; a bootstrap releases its record right away.
Printed(c) ==
    /\ at[c] = "printing"
    /\ Settles(c, "releasing", local[c])
    /\ UNCHANGED <<kind, token, tied, out, serverVars, file, minted, spent>>

Kill(c) ==
    /\ at[c] \notin Ended
    /\ Spend("kills", MaxKills)
    /\ Killed(c)
    /\ Goes(c, "ended")
    /\ UNCHANGED <<kind, token, tied, out, serverVars, file, minted, settled>>

Works(c) ==
    \/ EnterLock(c) \/ BreakLock(c) \/ Adopt(c) \/ Claim(c) \/ Save(c) \/ LeaveLock(c)
    \/ OpenOutput(c) \/ Open(c) \/ Run(c) \/ (Refused(token[c]) /\ Refuse(c)) \/ GiveUp(c) \/ Answered(c) \/ Store(c) \/ Printed(c)

CliNext ==
    \/ \E c \in Commands : Start(c) \/ Works(c) \/ TimeOut(c) \/ Refuse(c) \/ Lose(c) \/ Kill(c)
    \/ \E t \in Tokens : Unseal(t)

\* A process that was not killed goes on, and the deployment answers.
CliFairness == \A c \in Commands : WF_cliVars(Works(c))

CliSpec == CliInit /\ [][CliNext]_cliVars /\ CliFairness
-----------------------------------------------------------------------------
(* Properties.                                                              *)

\* Identical commands share one token until its result was printed or it was given
\* up: none sends the work again under another ("two commands started side by
\* side must not create two accounts, or send one operation twice under two
\* tokens").
OneTokenAtATime == Cardinality((1 .. minted) \ settled) <= 1

\* Work the deployment did for an operation nobody was shown yet can be recovered:
\* its token is in the state file, whatever was lost or killed.
WorkIsRecoverable == \A t \in Done \ settled : disk[t] # Nothing

\* The deployment does an operation's work once, however often and from however many
\* commands its token is sent; and a machine without an account creates one, however
\* many first runs race.
WorkIsDoneOnce ==
    /\ \A t \in Tokens : works[t] <= 1
    /\ kind = "bootstrap" => Cardinality(Done) <= 1

\* A key whose metadata is printed can be found: a file holds it, whichever of the
\* commands that share the operation wrote it, and whatever reservation another
\* released.
KeyIsKept ==
    kind = "key" => \A c \in Commands : at[c] = "printing" => \E f \in DOMAIN file : file[f] = token[c]

\* No lock strands a command: every run ends, by itself or killed.
RunsEnd == \A c \in Commands : at[c] \notin Ended ~> at[c] \in Ended
=============================================================================
