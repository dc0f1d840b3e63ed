-------------------------- MODULE ManagementProofs --------------------------
(***************************************************************************)
(* Identical commands: what they share, for any number of them, of runs, of   *)
(* kills and of lost answers, as long as an abandoned lock is broken by one of *)
(* them at a time.  The account of a first run: which of its keys work, what    *)
(* is left of it, and what its applications' traffic is admitted by, for any    *)
(* number of requests.                                                       *)
(***************************************************************************)
EXTENDS CliOperations, UnclaimedAccounts, FiniteSetTheorems, SequenceTheorems, TLAPS

-----------------------------------------------------------------------------
(* Identical commands.                                                       *)

Entries == {Active} \cup Tokens
Content == {Gone, Reserved} \cup Tokens
Places  == Ended \cup Writing \cup {"opening", "sending", "running", "answered", "printing"}

StoreTypes ==
    /\ IsState(disk) /\ AreStates(local) /\ AreStates(baseline)
    /\ lock \in Commands \cup {Free, Left}
    /\ inside \in [Commands -> {"out", "in", "written"}]
    /\ breaking \in [Commands -> {"no", "judged", "stale", "confirmed"}]

CommandTypes ==
    /\ at \in [Commands -> Places]
    /\ token \in [Commands -> Tokens] /\ tied \in [Commands -> BOOLEAN]
    /\ out \in [Commands -> Files \cup {NoFile}]
    /\ file \in Seq(Content) /\ Len(file) <= MaxFile
    /\ minted \in 0 .. MaxToken /\ works \in [Tokens -> Nat]

\* A command in the lock owns it; one that breaks a lock is alone at it, and finds
\* it abandoned until it has removed it; and only a command that writes is in it.
LockInv ==
    /\ \A c \in Commands : inside[c] # "out" => lock = c /\ at[c] \in Writing
    /\ \A c \in Commands : breaking[c] \in {"judged", "confirmed"} => lock = Left
    /\ \A c, d \in Commands : breaking[c] # "no" /\ breaking[d] # "no" => c = d

\* A command about to reach the deployment, or out of the reservation's write, has
\* a token with a record, which is in its state as long as it is tied to it.
HasToken(c) ==
    \/ at[c] \in {"opening", "noting", "sending", "running"}
    \/ at[c] = "reserving" /\ inside[c] = "written"

TokenInv ==
    \A c \in Commands :
        /\ HasToken(c) => token[c] <= minted
        /\ at[c] = "opening" \/ (at[c] = "reserving" /\ inside[c] = "written") => tied[c]
        /\ tied[c] /\ (HasToken(c) \/ at[c] = "answered") => local[c][token[c]] # Nothing

\* A record leaves the file, or a state it was in, only once its operation is
\* settled; and a reservation sees every record that is not.
RecordInv ==
    /\ \A t \in Tokens : t <= minted /\ t \notin settled => disk[t] # Nothing
    /\ \A c \in Commands, t \in Tokens :
          baseline[c][t] # Nothing /\ local[c][t] = Nothing => t \in settled
    /\ \A c \in Commands, t \in Tokens :
          inside[c] = "in" /\ at[c] = "reserving" /\ disk[t] # Nothing => local[c][t] # Nothing \/ t \in settled
    /\ \A t \in Tokens : t > minted =>
          disk[t] = Nothing /\ \A c \in Commands : local[c][t] = Nothing /\ baseline[c][t] = Nothing
    /\ \A t \in Tokens : works[t] > 0 => t <= minted

CommandInv == StoreTypes /\ CommandTypes /\ LockInv /\ TokenInv /\ RecordInv

\* The work of identical commands is under one token.
Pending == (1 .. minted) \ settled
PendingInv == \A t, u \in Pending : t = u
-----------------------------------------------------------------------------
LEMMA Constants ==
    /\ MaxToken \in Nat \ {0} /\ MaxFile \in Nat /\ MaxBreakers \in Nat
    /\ Free \notin Commands /\ Left \notin Commands /\ Free # Left
    /\ Nothing \notin Records /\ Nothing \notin Tokens /\ Nothing # Connected
    /\ Fresh \in Records /\ Fresh # Nothing
    /\ Active \notin Tokens
<1>1. Fresh \in Records
  BY DEF Fresh, Records, NoFile
<1>2. Nothing \notin Records /\ Nothing \notin {Connected} \cup Tokens
  BY StoreAssumption
<1>3. Fresh # Nothing
  BY <1>1, <1>2
<1>4. Active \notin Tokens
  BY StoreAssumption DEF Active, Tokens
<1> QED BY <1>1, <1>2, <1>3, <1>4, StoreAssumption DEF Free, Left

LEMMA StateShape ==
    ASSUME NEW s
    PROVE  IsState(s) <=> /\ s \in [Entries -> Records \cup {Nothing, Connected} \cup Tokens]
                          /\ s[Active] \in {Connected, Nothing} \cup Tokens
                          /\ \A t \in Tokens : s[t] \in Records \cup {Nothing}
BY Zenon DEF IsState, Entries

LEMMA MergedShape ==
    ASSUME NEW b, NEW l, NEW d, IsState(b), IsState(l), IsState(d)
    PROVE  /\ IsState(Merged(b, l, d)) /\ IsState(Absorbed(l, Merged(b, l, d)))
           /\ \A t \in Tokens : /\ Merged(b, l, d)[t] = IF l[t] # b[t] THEN l[t] ELSE d[t]
                                /\ Absorbed(l, Merged(b, l, d))[t] = Merged(b, l, d)[t]
BY StateShape, Constants DEF Merged, Absorbed, Entries

LEMMA EntryShape ==
    ASSUME NEW s, IsState(s), NEW t \in Tokens, NEW r \in Records \cup {Nothing}
    PROVE  /\ IsState([s EXCEPT ![t] = r])
           /\ [s EXCEPT ![t] = r][t] = r
           /\ \A u \in Tokens \ {t} : [s EXCEPT ![t] = r][u] = s[u]
BY StateShape, Constants DEF Entries

LEMMA OneOfThem ==
    ASSUME NEW held, AreStates(held), NEW c \in Commands, NEW s, IsState(s)
    PROVE  AreStates([held EXCEPT ![c] = s])
BY DEF AreStates

LEMMA ContentChanged ==
    ASSUME NEW f \in Seq(Content), NEW i, NEW e \in Content
    PROVE  [f EXCEPT ![i] = e] \in Seq(Content) /\ Len([f EXCEPT ![i] = e]) = Len(f)
<1>1. f \in [1 .. Len(f) -> Content] /\ Len(f) \in Nat
  OBVIOUS
<1>2. [f EXCEPT ![i] = e] \in [1 .. Len(f) -> Content]
  BY <1>1
<1> QED BY <1>1, <1>2

LEMMA ClosesKeeps ==
    ASSUME CommandTypes, NEW c \in Commands, Closes(c)
    PROVE  file' \in Seq(Content) /\ Len(file') <= MaxFile
<1>1. Gone \in Content /\ file \in Seq(Content) /\ Len(file) <= MaxFile
  BY DEF Content, CommandTypes
<1>2. file' = file \/ file' = [file EXCEPT ![out[c]] = Gone]
  BY DEF Closes
<1>3. [file EXCEPT ![out[c]] = Gone] \in Seq(Content) /\ Len([file EXCEPT ![out[c]] = Gone]) = Len(file)
  BY <1>1, ContentChanged
<1> QED BY <1>1, <1>2, <1>3

\* What the invariant says of every variable, unfolded once.
LEMMA Shapes ==
    ASSUME CommandInv
    PROVE  /\ IsState(disk)
           /\ inside \in [Commands -> {"out", "in", "written"}]
           /\ breaking \in [Commands -> {"no", "judged", "stale", "confirmed"}]
           /\ local = [c \in Commands |-> local[c]] /\ baseline = [c \in Commands |-> baseline[c]]
           /\ \A c \in Commands : IsState(local[c]) /\ IsState(baseline[c])
           /\ at \in [Commands -> Places]
           /\ token \in [Commands -> Tokens] /\ tied \in [Commands -> BOOLEAN]
           /\ out \in [Commands -> Files \cup {NoFile}]
           /\ minted \in 0 .. MaxToken /\ works \in [Tokens -> Nat]
BY DEF CommandInv, StoreTypes, CommandTypes, AreStates

LEMMA PlaceNames ==
    /\ Writing \subseteq Places /\ Ended \subseteq Places
    /\ {"opening", "sending", "running", "answered", "printing"} \subseteq Places
    /\ \A p \in {"opening", "sending", "running", "answered", "printing"} : p \notin Writing
    /\ \A p \in Ended : p \notin Writing \cup {"opening", "sending", "running", "answered", "printing"}
    /\ {"idle", "ended", "kept"} = Ended
    /\ {"reserving", "noting", "finishing", "selecting", "releasing", "forgetting"} = Writing
BY DEF Places, Writing, Ended
-----------------------------------------------------------------------------
(* Outside the lock.  A command there goes to another place; its state loses   *)
(* the record of its token only with the operation settled, and gains none.    *)

LEMMA OutsideKeeps ==
    ASSUME CommandInv, NEW c \in Commands, inside[c] = "out",
           NEW p \in Places \ {"opening", "sending"}, at' = [at EXCEPT ![c] = p],
           UNCHANGED <<disk, lock, inside, breaking, baseline, token, tied, minted>>,
           \A d \in Commands \ {c} : local'[d] = local[d],
           \A t \in Tokens \ {token[c]} : local'[c][t] = local[c][t],
           local'[c][token[c]] # Nothing => local[c][token[c]] # Nothing,
           local'[c][token[c]] = Nothing => local[c][token[c]] = Nothing \/ token[c] \in settled',
           p \in {"noting", "running", "answered"} =>
               HasToken(c) /\ (local'[c][token[c]] = Nothing => local[c][token[c]] = Nothing),
           settled \subseteq settled',
           \A t \in Tokens : works'[t] > 0 => works[t] > 0 \/ (t = token[c] /\ HasToken(c))
    PROVE  LockInv' /\ TokenInv' /\ RecordInv'
<1> USE Shapes, Constants, PlaceNames
<1>1. LockInv'
  BY DEF CommandInv, LockInv
<1>2. TokenInv'
  BY DEF CommandInv, TokenInv, HasToken
<1>3. RecordInv'
  <2>1. \A d \in Commands, t \in Tokens : local'[d][t] = Nothing => local[d][t] = Nothing \/ t \in settled'
    OBVIOUS
  <2>2. \A d \in Commands, t \in Tokens : local[d][t] = Nothing => local'[d][t] = Nothing
    OBVIOUS
  <2>3. \A t \in Tokens : t > minted => disk[t] = Nothing /\ \A d \in Commands : local'[d][t] = Nothing /\ baseline[d][t] = Nothing
    BY <2>2 DEF CommandInv, RecordInv
  <2>4. \A t \in Tokens : works'[t] > 0 => t <= minted
    BY DEF CommandInv, RecordInv, TokenInv
  <2>5. \A d \in Commands, t \in Tokens :
          inside[d] = "in" /\ at'[d] = "reserving" /\ disk[t] # Nothing => local'[d][t] # Nothing \/ t \in settled'
    BY <2>1 DEF CommandInv, RecordInv
  <2> QED BY <2>1, <2>3, <2>4, <2>5 DEF CommandInv, RecordInv
<1> QED BY <1>1, <1>2, <1>3

LEMMA OpenKeeps ==
    ASSUME CommandInv, NEW c \in Commands, Open(c)
    PROVE  CommandInv'
<1> USE Shapes, PlaceNames
<1>1. PICK p \in {"answered", "running"} : at' = [at EXCEPT ![c] = p]
  BY DEF Open, Goes
<1>2. at[c] = "sending" /\ inside[c] = "out" /\ HasToken(c)
  BY DEF Open, CommandInv, LockInv, HasToken
<1>3. StoreTypes' /\ CommandTypes'
  BY <1>1 DEF CommandInv, StoreTypes, CommandTypes, Open, storeVars, AreStates
<1>4. LockInv' /\ TokenInv' /\ RecordInv'
  BY <1>1, <1>2, OutsideKeeps DEF Open, storeVars
<1> QED BY <1>3, <1>4 DEF CommandInv

LEMMA RunKeeps ==
    ASSUME CommandInv, NEW c \in Commands, Run(c)
    PROVE  CommandInv'
<1> USE Shapes, PlaceNames
<1>1. at' = [at EXCEPT ![c] = "answered"] /\ at[c] = "running"
  BY DEF Run, Goes
<1>2. inside[c] = "out" /\ HasToken(c)
  BY <1>1 DEF CommandInv, LockInv, HasToken
<1>3. works' = works \/ works' = [works EXCEPT ![token[c]] = @ + 1]
  BY DEF Run, WritesOnce
<1>4. StoreTypes' /\ CommandTypes'
  BY <1>1, <1>3 DEF CommandInv, StoreTypes, CommandTypes, Run, storeVars, AreStates
<1>5. LockInv' /\ TokenInv' /\ RecordInv'
  BY <1>1, <1>2, <1>3, OutsideKeeps DEF Run, storeVars
<1> QED BY <1>4, <1>5 DEF CommandInv

LEMMA RefuseKeeps ==
    ASSUME CommandInv, NEW c \in Commands, Refuse(c)
    PROVE  CommandInv'
<1> USE Shapes, PlaceNames
<1>1. at' = [at EXCEPT ![c] = "answered"] /\ at[c] \in {"sending", "running"}
  BY DEF Refuse, Goes
<1>2. inside[c] = "out" /\ HasToken(c)
  BY <1>1 DEF CommandInv, LockInv, HasToken
<1>3. StoreTypes' /\ CommandTypes'
  BY <1>1 DEF CommandInv, StoreTypes, CommandTypes, Refuse, storeVars, AreStates
<1>4. LockInv' /\ TokenInv' /\ RecordInv'
  BY <1>1, <1>2, OutsideKeeps DEF Refuse, storeVars
<1> QED BY <1>3, <1>4 DEF CommandInv

LEMMA LoseKeeps ==
    ASSUME CommandInv, NEW c \in Commands, Lose(c)
    PROVE  CommandInv'
<1> USE Shapes, PlaceNames
<1>1. at' = [at EXCEPT ![c] = "ended"] /\ at[c] \in {"sending", "running", "answered"} /\ "ended" \in Ended
  BY DEF Lose, Goes, Ended
<1>2. inside[c] = "out"
  BY <1>1 DEF CommandInv, LockInv
<1>3. StoreTypes' /\ CommandTypes'
  BY <1>1, ClosesKeeps DEF CommandInv, StoreTypes, CommandTypes, Lose, storeVars, serverVars, AreStates
<1>4. LockInv' /\ TokenInv' /\ RecordInv'
  BY <1>1, <1>2, OutsideKeeps DEF Lose, storeVars, serverVars
<1> QED BY <1>3, <1>4 DEF CommandInv

LEMMA TimeOutKeeps ==
    ASSUME CommandInv, NEW c \in Commands, TimeOut(c)
    PROVE  CommandInv'
<1> USE Shapes, PlaceNames
<1>1. PICK p \in Ended : at' = [at EXCEPT ![c] = p]
  BY DEF TimeOut, Goes, Ended
<1>2. inside[c] = "out"
  BY DEF TimeOut
<1>3. StoreTypes' /\ CommandTypes'
  BY <1>1, ClosesKeeps DEF CommandInv, StoreTypes, CommandTypes, TimeOut, storeVars, serverVars, AreStates
<1>4. LockInv' /\ TokenInv' /\ RecordInv'
  BY <1>1, <1>2, OutsideKeeps DEF TimeOut, storeVars, serverVars
<1> QED BY <1>3, <1>4 DEF CommandInv

LEMMA UnsealKeeps ==
    ASSUME CommandInv, NEW t \in Tokens, Unseal(t)
    PROVE  CommandInv'
BY DEF CommandInv, StoreTypes, CommandTypes, LockInv, TokenInv, HasToken, RecordInv, AreStates, Unseal, storeVars, clientVars

\* Settling drops the record of the command's token from its state.
LEMMA SettlesKeeps ==
    ASSUME CommandInv, NEW c \in Commands, inside[c] = "out", NEW p \in {"releasing", "forgetting"}, Settles(c, p, local[c]),
           UNCHANGED <<token, tied, minted, works>>
    PROVE  StoreTypes' /\ at' \in [Commands -> Places] /\ LockInv' /\ TokenInv' /\ RecordInv'
<1> USE Shapes, PlaceNames
<1> DEFINE s == [local[c] EXCEPT ![token[c]] = Nothing]
<1>1. IsState(s) /\ s[token[c]] = Nothing /\ \A u \in Tokens \ {token[c]} : s[u] = local[c][u]
  <2>1. IsState(local[c]) /\ token[c] \in Tokens /\ Nothing \in Records \cup {Nothing}
    OBVIOUS
  <2>2. \A q : IsState(q) => \A t \in Tokens : \A r \in Records \cup {Nothing} :
          /\ IsState([q EXCEPT ![t] = r])
          /\ [q EXCEPT ![t] = r][t] = r
          /\ \A u \in Tokens \ {t} : [q EXCEPT ![t] = r][u] = q[u]
    BY EntryShape
  <2> HIDE Shapes, PlaceNames
  <2> QED BY <2>1, <2>2
<1>2. local' = [local EXCEPT ![c] = s] /\ at' = [at EXCEPT ![c] = p]
      /\ settled' = settled \cup {token[c]} /\ UNCHANGED <<disk, lock, inside, breaking, baseline>>
  BY DEF Settles, Goes
<1> HIDE DEF s
<1>3. AreStates(local')
  BY <1>1, <1>2, OneOfThem DEF CommandInv, StoreTypes
<1>4. StoreTypes' /\ at' \in [Commands -> Places]
  BY <1>2, <1>3 DEF CommandInv, StoreTypes, AreStates
<1>5. local'[c] = s /\ \A d \in Commands \ {c} : local'[d] = local[d]
  BY <1>2
<1>6. p \notin {"opening", "sending", "running", "answered"} /\ p \in Places
  OBVIOUS
<1>7. LockInv' /\ TokenInv' /\ RecordInv'
  <2>1. p \in Places \ {"opening", "sending"} /\ settled \subseteq settled' /\ token[c] \in settled'
    BY <1>2, <1>6
  <2>2. local'[c][token[c]] = Nothing /\ \A t \in Tokens \ {token[c]} : local'[c][t] = local[c][t]
    BY <1>1, <1>5
  <2>3. p \notin {"noting", "running", "answered"}
    OBVIOUS
  <2> QED BY <1>2, <1>5, <2>1, <2>2, <2>3, OutsideKeeps
<1> QED BY <1>4, <1>7

LEMMA GiveUpKeeps ==
    ASSUME CommandInv, NEW c \in Commands, GiveUp(c)
    PROVE  CommandInv'
<1>1. at[c] = "answered" /\ Settles(c, "forgetting", local[c])
      /\ UNCHANGED <<token, tied, out, minted, works, file>>
  BY DEF GiveUp, serverVars
<1>2. inside[c] = "out"
  BY <1>1, PlaceNames, Shapes DEF CommandInv, LockInv
<1>3. StoreTypes' /\ at' \in [Commands -> Places] /\ LockInv' /\ TokenInv' /\ RecordInv'
  BY <1>1, <1>2, SettlesKeeps
<1> QED BY <1>1, <1>3 DEF CommandInv, CommandTypes

LEMMA PrintedKeeps ==
    ASSUME CommandInv, NEW c \in Commands, Printed(c)
    PROVE  CommandInv'
<1>1. at[c] = "printing" /\ Settles(c, "releasing", local[c])
      /\ UNCHANGED <<token, tied, out, minted, works, file>>
  BY DEF Printed, serverVars
<1>2. inside[c] = "out"
  BY <1>1, PlaceNames, Shapes DEF CommandInv, LockInv
<1>3. StoreTypes' /\ at' \in [Commands -> Places] /\ LockInv' /\ TokenInv' /\ RecordInv'
  BY <1>1, <1>2, SettlesKeeps
<1> QED BY <1>1, <1>3 DEF CommandInv, CommandTypes

LEMMA AnsweredKeeps ==
    ASSUME CommandInv, NEW c \in Commands, Answered(c)
    PROVE  CommandInv'
<1>1. at[c] = "answered" /\ UNCHANGED <<token, tied, out, minted, works, file>>
  BY DEF Answered, serverVars
<1>2. inside[c] = "out"
  BY <1>1, PlaceNames, Shapes DEF CommandInv, LockInv
<1>3. CASE kind = "plain"
  <2>1. Settles(c, "releasing", local[c])
    BY <1>3 DEF Answered
  <2>2. StoreTypes' /\ at' \in [Commands -> Places] /\ LockInv' /\ TokenInv' /\ RecordInv'
    BY <1>1, <1>2, <2>1, SettlesKeeps
  <2> QED BY <1>1, <2>2 DEF CommandInv, CommandTypes
<1>4. CASE kind # "plain"
  <2> DEFINE s == [local[c] EXCEPT ![Active] = token[c]]
  <2>1. /\ local' = [local EXCEPT ![c] = s] /\ at' = [at EXCEPT ![c] = "selecting"]
        /\ UNCHANGED <<disk, lock, inside, breaking, baseline, settled>>
    BY <1>4 DEF Answered, Goes
  <2>2. IsState(s) /\ \A t \in Tokens : s[t] = local[c][t]
    <3>1. IsState(local[c]) /\ token[c] \in Tokens
      BY Shapes
    <3> QED BY <3>1, StateShape, Constants DEF Entries
  <2> HIDE DEF s
  <2>3. AreStates(local')
    BY <2>1, <2>2, OneOfThem DEF CommandInv, StoreTypes
  <2>4. "selecting" \in Places \ {"opening", "sending"}
    BY DEF Places, Writing
  <2>5. StoreTypes' /\ CommandTypes'
    BY <1>1, <2>1, <2>3, <2>4 DEF CommandInv, StoreTypes, CommandTypes, AreStates
  <2>6. local'[c] = s /\ \A d \in Commands \ {c} : local'[d] = local[d]
    BY <2>1, Shapes
  <2>7. token[c] \in Tokens
    BY Shapes
  <2>8. LockInv' /\ TokenInv' /\ RecordInv'
    BY <1>1, <1>2, <2>1, <2>2, <2>4, <2>6, <2>7, OutsideKeeps, ZenonT(30)
  <2> QED BY <2>5, <2>8 DEF CommandInv
<1> QED BY <1>3, <1>4

\* A command that has a record in its state changes it.
LEMMA RecordKeeps ==
    ASSUME CommandInv, NEW c \in Commands, inside[c] = "out", NEW p \in {"noting", "finishing"},
           p = "noting" => HasToken(c),
           NEW r \in Records, local[c][token[c]] # Nothing,
           local' = [local EXCEPT ![c] = [@ EXCEPT ![token[c]] = r]], at' = [at EXCEPT ![c] = p],
           UNCHANGED <<disk, lock, inside, breaking, baseline, token, tied, minted, works, settled>>
    PROVE  StoreTypes' /\ at' \in [Commands -> Places] /\ LockInv' /\ TokenInv' /\ RecordInv'
<1> DEFINE s == [local[c] EXCEPT ![token[c]] = r]
<1>1. token[c] \in Tokens /\ IsState(local[c]) /\ local' = [local EXCEPT ![c] = s] /\ local'[c] = s
  BY Shapes
<1>2. IsState(s) /\ s[token[c]] = r /\ \A t \in Tokens \ {token[c]} : s[t] = local[c][t]
  <2>1. \A q : IsState(q) => \A t \in Tokens : 
          /\ IsState([q EXCEPT ![t] = r])
          /\ [q EXCEPT ![t] = r][t] = r
          /\ \A u \in Tokens \ {t} : [q EXCEPT ![t] = r][u] = q[u]
    BY EntryShape
  <2> QED BY <1>1, <2>1
<1> HIDE DEF s
<1>3. AreStates(local') /\ p \in Places
  <2>1. AreStates(local)
    BY DEF CommandInv, StoreTypes
  <2>2. \A d \in Commands : IsState(local'[d])
    BY <1>1, <1>2, Shapes
  <2>3. local' = [d \in Commands |-> local'[d]]
    BY <1>1, Shapes
  <2>4. AreStates(local')
    BY Zenon, <2>2, <2>3 DEF AreStates
  <2> QED BY <2>4 DEF Places, Writing
<1>4. StoreTypes' /\ at' \in [Commands -> Places]
  BY <1>3, Shapes DEF CommandInv, StoreTypes, AreStates
<1>5. r # Nothing
  BY Constants
<1>6. \A d \in Commands \ {c} : local'[d] = local[d]
  BY <1>1, Shapes
<1>7. LockInv' /\ TokenInv' /\ RecordInv'
  BY <1>1, <1>2, <1>3, <1>5, <1>6, OutsideKeeps
<1> QED BY <1>4, <1>7

LEMMA StoreKeeps ==
    ASSUME CommandInv, NEW c \in Commands, Store(c)
    PROVE  CommandInv'
<1>1. /\ at[c] = "answered" /\ at' = [at EXCEPT ![c] = "finishing"]
      /\ UNCHANGED <<disk, lock, inside, breaking, baseline, token, tied, out, minted, works, settled>>
  BY DEF Store, Goes, serverVars
<1>2. inside[c] = "out" /\ token[c] \in Tokens /\ IsState(local[c])
  BY <1>1, PlaceNames, Shapes DEF CommandInv, LockInv
<1>3. file' \in Seq(Content) /\ Len(file') <= MaxFile
  <2>1. file' = file \/ file' = [file EXCEPT ![out[c]] = token[c]]
    BY DEF Store
  <2>2. file \in Seq(Content) /\ token[c] \in Content /\ Len(file) <= MaxFile
    BY <1>2 DEF CommandInv, CommandTypes, Content
  <2>3. [file EXCEPT ![out[c]] = token[c]] \in Seq(Content) /\ Len([file EXCEPT ![out[c]] = token[c]]) = Len(file)
    BY <2>2, ContentChanged
  <2> QED BY <2>1, <2>2, <2>3
<1>4. CASE tied[c]
  <2> DEFINE r == [local[c][token[c]] EXCEPT !.done = TRUE]
  <2>1. local[c][token[c]] # Nothing
    BY <1>1, <1>4 DEF CommandInv, TokenInv
  <2>2. r \in Records
    BY <1>2, <2>1, StateShape DEF Records
  <2>3. local' = [local EXCEPT ![c] = [@ EXCEPT ![token[c]] = r]]
    BY <1>4 DEF Store
  <2> HIDE DEF r
  <2>4. StoreTypes' /\ at' \in [Commands -> Places] /\ LockInv' /\ TokenInv' /\ RecordInv'
    BY <1>1, <1>2, <2>1, <2>2, <2>3, RecordKeeps
  <2> QED BY <1>1, <1>3, <2>4 DEF CommandInv, CommandTypes
<1>5. CASE ~tied[c]
  <2>1. local' = local
    BY <1>5 DEF Store
  <2>2. "finishing" \in Places \ {"opening", "sending"}
    BY DEF Places, Writing
  <2>3. StoreTypes' /\ CommandTypes'
    BY <1>1, <1>3, <2>1, <2>2 DEF CommandInv, StoreTypes, CommandTypes, AreStates
  <2>4. LockInv' /\ TokenInv' /\ RecordInv'
    BY <1>1, <1>2, <2>1, <2>2, OutsideKeeps
  <2> QED BY <2>3, <2>4 DEF CommandInv
<1>6. tied[c] \in BOOLEAN
  BY Shapes
<1> QED BY <1>4, <1>5, <1>6

LEMMA OpenOutputKeeps ==
    ASSUME CommandInv, NEW c \in Commands, OpenOutput(c)
    PROVE  CommandInv'
<1> DEFINE t == token[c]
           r == local[c][t]
<1>1. at[c] = "opening" /\ HasToken(c) /\ UNCHANGED <<token, tied, minted, works>>
  BY DEF OpenOutput, HasToken, serverVars
<1>2. inside[c] = "out"
  BY <1>1, PlaceNames, Shapes DEF CommandInv, LockInv
<1>3. r \in Records /\ r # Nothing /\ t \in Tokens
  BY <1>1, Shapes, StateShape, Constants DEF CommandInv, TokenInv
<1>4. r.output \in Files \cup {NoFile}
  BY <1>3 DEF Records
<1>5. file \in Seq(Content) /\ Len(file) <= MaxFile /\ out \in [Commands -> Files \cup {NoFile}]
  BY DEF CommandInv, CommandTypes
<1>6. CASE Settles(c, "releasing", local[c]) /\ out' = [out EXCEPT ![c] = r.output] /\ UNCHANGED file
  <2>1. StoreTypes' /\ at' \in [Commands -> Places] /\ LockInv' /\ TokenInv' /\ RecordInv'
    BY <1>1, <1>2, <1>6, SettlesKeeps
  <2> QED BY <1>1, <1>4, <1>6, <2>1 DEF CommandInv, CommandTypes
<1>7. CASE Goes(c, "ended") /\ UNCHANGED <<storeVars, out, file, settled>>
  <2>1. "ended" \in Places \ {"opening", "sending"}
    BY DEF Places, Ended
  <2>2. StoreTypes' /\ CommandTypes'
    BY <1>1, <1>7, <2>1 DEF CommandInv, StoreTypes, CommandTypes, storeVars, AreStates, Goes
  <2>3. LockInv' /\ TokenInv' /\ RecordInv'
    BY <1>1, <1>2, <1>7, <2>1, OutsideKeeps DEF storeVars, Goes
  <2> QED BY <2>2, <2>3 DEF CommandInv
<1>8. CASE Goes(c, "noting") /\ UNCHANGED <<storeVars, file, settled>> /\ out' = [out EXCEPT ![c] = r.output]
  <2>1. "noting" \in Places \ {"opening", "sending"}
    BY DEF Places, Writing
  <2>2. StoreTypes' /\ CommandTypes'
    BY <1>1, <1>4, <1>8, <2>1 DEF CommandInv, StoreTypes, CommandTypes, storeVars, AreStates, Goes
  <2>3. LockInv' /\ TokenInv' /\ RecordInv'
    BY <1>1, <1>2, <1>8, <2>1, OutsideKeeps DEF storeVars, Goes
  <2> QED BY <2>2, <2>3 DEF CommandInv
<1>9. CASE /\ Len(file) < MaxFile /\ file' = Append(file, Reserved)
           /\ out' = [out EXCEPT ![c] = Len(file')] /\ local' = [local EXCEPT ![c][t].output = Len(file')]
           /\ Goes(c, "noting") /\ UNCHANGED <<disk, lock, inside, breaking, baseline, settled>>
  <2>1. file' \in Seq(Content) /\ Len(file') = Len(file) + 1 /\ Len(file') \in Files
    BY <1>5, <1>9, Constants DEF Content, Reserved, Files
  <2> DEFINE q == [r EXCEPT !.output = Len(file')]
  <2>2. q \in Records
    BY <1>3, <2>1 DEF Records
  <2>3. local' = [local EXCEPT ![c] = [@ EXCEPT ![token[c]] = q]]
    BY <1>9
  <2> HIDE DEF q
  <2>4. at' = [at EXCEPT ![c] = "noting"] /\ UNCHANGED <<disk, lock, inside, breaking, baseline, settled>>
    BY <1>9 DEF Goes
  <2>5. StoreTypes' /\ at' \in [Commands -> Places] /\ LockInv' /\ TokenInv' /\ RecordInv'
    BY <1>1, <1>2, <1>3, <2>2, <2>3, <2>4, RecordKeeps
  <2>6. out' \in [Commands -> Files \cup {NoFile}]
    BY <1>5, <1>9, <2>1
  <2>7. Len(file') <= MaxFile
    BY <1>5, <1>9, <2>1, Constants
  <2> QED BY <1>1, <2>1, <2>5, <2>6, <2>7 DEF CommandInv, CommandTypes
<1> QED BY <1>6, <1>7, <1>8, <1>9 DEF OpenOutput
-----------------------------------------------------------------------------
(* At the lock.                                                              *)

LEMMA StartKeeps ==
    ASSUME CommandInv, NEW c \in Commands, Start(c)
    PROVE  CommandInv'
<1>1. IsState(disk) /\ local' = [local EXCEPT ![c] = disk] /\ baseline' = [baseline EXCEPT ![c] = disk]
      /\ AreStates(local) /\ AreStates(baseline) /\ UNCHANGED <<disk, lock, inside, breaking, works, file, minted, settled>>
  BY DEF Start, Read, CommandInv, StoreTypes
<1>2. StoreTypes'
  <2>1. AreStates(local') /\ AreStates(baseline')
    BY <1>1, OneOfThem
  <2> QED BY <1>1, <2>1 DEF CommandInv, StoreTypes
<1>3. PICK p \in {"ended", "reserving"} : at' = [at EXCEPT ![c] = p]
  BY DEF Start, Goes
<1>4. CommandTypes'
  <2>1. p \in Places
    BY DEF Places, Ended, Writing
  <2>2. 1 \in Tokens /\ NoFile \in Files \cup {NoFile}
    BY Constants DEF Tokens
  <2> QED BY <1>1, <1>3, <2>1, <2>2 DEF CommandInv, CommandTypes, Start
<1>5. inside[c] = "out" /\ at[c] \in Ended
  BY PlaceNames DEF Start, CommandInv, LockInv
<1>6. LockInv'
  BY <1>1, <1>3, <1>5, Shapes DEF CommandInv, LockInv
<1>7. token' = [token EXCEPT ![c] = 1] /\ tied' = [tied EXCEPT ![c] = FALSE]
  BY DEF Start
<1>8. TokenInv'
  BY <1>1, <1>3, <1>5, <1>7, Shapes DEF CommandInv, TokenInv, HasToken
<1>9. RecordInv'
  BY <1>1, <1>3, <1>5, Shapes DEF CommandInv, RecordInv
<1> QED BY <1>2, <1>4, <1>6, <1>8, <1>9 DEF CommandInv

LEMMA EnterLockKeeps ==
    ASSUME CommandInv, NEW c \in Commands, EnterLock(c)
    PROVE  CommandInv'
<1> USE Shapes, Constants
<1> DEFINE merged == Absorbed(local[c], Merged(baseline[c], local[c], disk))
<1>1. IsState(merged) /\ \A t \in Tokens : merged[t] = IF local[c][t] # baseline[c][t] THEN local[c][t] ELSE disk[t]
  BY MergedShape
<1>2. local' = IF at[c] = "reserving" THEN [local EXCEPT ![c] = merged] ELSE local
  BY DEF EnterLock, Enter
<1> HIDE DEF merged
<1>3. StoreTypes' /\ CommandTypes'
  <2>1. AreStates(local')
    BY <1>1, <1>2, OneOfThem DEF CommandInv, StoreTypes
  <2> QED BY <2>1 DEF CommandInv, StoreTypes, CommandTypes, AreStates, EnterLock, Enter, clientVars, serverVars
<1>4. LockInv'
  BY DEF CommandInv, LockInv, EnterLock, Enter, clientVars
<1>5. TokenInv'
  BY <1>2 DEF CommandInv, TokenInv, HasToken, EnterLock, Enter, clientVars, Writing
<1>6. RecordInv'
  <2> USE DEF EnterLock, Enter, clientVars, serverVars
  <2>1. UNCHANGED <<disk, baseline, minted, settled, works, at>> /\ \A d \in Commands \ {c} : local'[d] = local[d]
    BY <1>2
  <2>2. \A t \in Tokens : baseline[c][t] # Nothing /\ disk[t] = Nothing => t \in settled
    BY DEF CommandInv, RecordInv, Tokens
  <2>3. ASSUME NEW t \in Tokens, baseline[c][t] # Nothing, local'[c][t] = Nothing PROVE t \in settled
    BY <1>1, <1>2, <2>2, <2>3 DEF CommandInv, RecordInv
  <2>4. ASSUME NEW d \in Commands, NEW t \in Tokens, inside'[d] = "in", at[d] = "reserving", disk[t] # Nothing
        PROVE  local'[d][t] # Nothing \/ t \in settled
    <3>1. CASE d = c
      BY <1>1, <1>2, <2>4, <3>1 DEF CommandInv, RecordInv
    <3>2. CASE d # c
      BY <2>1, <2>4, <3>2 DEF CommandInv, RecordInv
    <3> QED BY <3>1, <3>2
  <2>5. ASSUME NEW t \in Tokens, t > minted, NEW d \in Commands PROVE local'[d][t] = Nothing
    BY <1>1, <1>2, <2>1, <2>5 DEF CommandInv, RecordInv
  <2> QED BY <2>1, <2>3, <2>4, <2>5 DEF CommandInv, RecordInv
<1> QED BY <1>3, <1>4, <1>5, <1>6 DEF CommandInv

\* With one breaker at a time, what was judged is what is unlinked.
LEMMA BreakLockKeeps ==
    ASSUME CommandInv, NEW c \in Commands, BreakLock(c), MaxBreakers <= 1
    PROVE  CommandInv'
<1> USE Shapes, Constants
<1>1. UNCHANGED <<disk, inside, local, baseline, clientVars, serverVars, file, minted, settled>>
  BY Zenon DEF BreakLock, Judge, Confirm, Remove
<1>2. CASE Judge(c)
  <2> DEFINE S == {d \in Commands : breaking[d] # "no"}
  <2>1. Cardinality(S) < MaxBreakers
    BY <1>2 DEF Judge
  <2>2. IsFiniteSet(S)
    BY StoreAssumption, FS_Subset
  <2>3. Cardinality(S) \in Nat /\ (Cardinality(S) = 0 <=> S = {})
    BY <2>2, FS_CardinalityType, FS_EmptySet
  <2>4. Cardinality(S) = 0
    <3> HIDE DEF S
    <3> QED BY <2>1, <2>3
  <2>5. \A d \in Commands : breaking[d] = "no"
    BY <2>3, <2>4
  <2>6. lock = Left /\ lock' = lock /\ breaking' = [breaking EXCEPT ![c] = "judged"]
    BY <1>2 DEF Judge
  <2>7. StoreTypes'
    BY <1>1, <2>6 DEF CommandInv, StoreTypes, AreStates
  <2>8. LockInv'
    BY <1>1, <2>5, <2>6 DEF CommandInv, LockInv, clientVars
  <2> QED BY <1>1, <2>7, <2>8 DEF CommandInv, CommandTypes, TokenInv, HasToken, RecordInv, clientVars, serverVars
<1>3. CASE Confirm(c)
  <2>1. /\ lock' = lock /\ breaking[c] \in {"judged", "stale"}
        /\ breaking' = [breaking EXCEPT ![c] = IF @ = "judged" THEN "confirmed" ELSE "no"]
    BY <1>3 DEF Confirm
  <2>2. StoreTypes'
    BY <1>1, <2>1 DEF CommandInv, StoreTypes, AreStates
  <2>3. LockInv'
    BY <1>1, <2>1 DEF CommandInv, LockInv, clientVars
  <2> QED BY <1>1, <2>2, <2>3 DEF CommandInv, CommandTypes, TokenInv, HasToken, RecordInv, clientVars, serverVars
<1>4. CASE Remove(c)
  <2>1. /\ lock' = Free /\ breaking[c] = "confirmed"
        /\ breaking' = [d \in Commands |-> CASE d = c -> "no"
                                             [] d # c /\ breaking[d] = "judged" -> "stale"
                                             [] OTHER -> breaking[d]]
    BY <1>4 DEF Remove
  <2>2. \A d \in Commands : breaking[d] = "no" \/ d = c
    BY <2>1 DEF CommandInv, LockInv
  <2>3. \A d \in Commands : breaking'[d] = "no"
    BY <2>1, <2>2
  <2>4. breaking' \in [Commands -> {"no", "judged", "stale", "confirmed"}]
    BY <2>1, <2>3
  <2>5. \A d \in Commands : inside[d] = "out"
    BY <2>1 DEF CommandInv, LockInv
  <2>6. StoreTypes'
    BY <1>1, <2>1, <2>4 DEF CommandInv, StoreTypes, AreStates
  <2>7. LockInv'
    BY <1>1, <2>3, <2>5 DEF CommandInv, LockInv, clientVars
  <2> QED BY <1>1, <2>6, <2>7 DEF CommandInv, CommandTypes, TokenInv, HasToken, RecordInv, clientVars, serverVars
<1> QED BY <1>2, <1>3, <1>4 DEF BreakLock

LEMMA AdoptKeeps ==
    ASSUME CommandInv, NEW c \in Commands, Adopt(c)
    PROVE  CommandInv'
<1> USE Shapes, Constants
<1>1. PICK t \in Found(local[c]) : token' = [token EXCEPT ![c] = t]
  BY DEF Adopt
<1>2. t \in Tokens /\ local[c][t] # Nothing /\ t <= minted
  BY <1>1 DEF Found, CommandInv, RecordInv, Tokens
<1>3. /\ at[c] = "reserving" /\ inside[c] = "in" /\ inside' = [inside EXCEPT ![c] = "written"]
      /\ tied' = [tied EXCEPT ![c] = TRUE]
      /\ UNCHANGED <<disk, lock, breaking, local, baseline, at, out, works, file, minted, settled>>
  BY DEF Adopt, Kept, serverVars
<1>4. StoreTypes'
  BY <1>3 DEF CommandInv, StoreTypes, AreStates
<1>5. CommandTypes'
  BY <1>1, <1>2, <1>3 DEF CommandInv, CommandTypes
<1>6. LockInv'
  BY <1>3 DEF CommandInv, LockInv
<1>7. TokenInv'
  BY <1>1, <1>2, <1>3 DEF CommandInv, TokenInv, HasToken
<1>8. RecordInv'
  BY <1>3 DEF CommandInv, RecordInv
<1> QED BY <1>4, <1>5, <1>6, <1>7, <1>8 DEF CommandInv

\* A write keeps what only others changed, and drops what this command dropped.
LEMMA WrittenKeeps ==
    ASSUME CommandInv, NEW c \in Commands, NEW held, IsState(held), Written(c, held),
           \A t \in Tokens : baseline[c][t] # Nothing /\ held[t] = Nothing => t \in settled
    PROVE  /\ StoreTypes'
           /\ inside[c] = "in" /\ inside' = [inside EXCEPT ![c] = "written"] /\ UNCHANGED <<lock, breaking>>
           /\ \A d \in Commands \ {c} : local'[d] = local[d] /\ baseline'[d] = baseline[d]
           /\ \A t \in Tokens : /\ disk'[t] = IF held[t] # baseline[c][t] THEN held[t] ELSE disk[t]
                                /\ local'[c][t] = disk'[t] /\ baseline'[c][t] = disk'[t]
           /\ \A t \in Tokens : disk'[t] = Nothing => disk[t] = Nothing \/ t \in settled
<1> USE Shapes, Constants
<1> DEFINE m == Merged(baseline[c], held, disk)
           a == Absorbed(held, m)
<1>1. /\ IsState(m) /\ IsState(a)
      /\ \A t \in Tokens : m[t] = (IF held[t] # baseline[c][t] THEN held[t] ELSE disk[t]) /\ a[t] = m[t]
  BY MergedShape
<1>2. /\ disk' = m /\ local' = [local EXCEPT ![c] = a] /\ baseline' = [baseline EXCEPT ![c] = a]
      /\ inside[c] = "in" /\ inside' = [inside EXCEPT ![c] = "written"] /\ UNCHANGED <<lock, breaking>>
  BY DEF Written, Persist
<1> HIDE DEF m, a
<1>3. AreStates(local) /\ AreStates(baseline)
  BY DEF CommandInv, StoreTypes
<1>4. AreStates(local') /\ AreStates(baseline')
  BY <1>1, <1>2, <1>3, OneOfThem
<1>5. StoreTypes'
  BY <1>1, <1>2, <1>4 DEF CommandInv, StoreTypes
<1>6. /\ \A d \in Commands \ {c} : local'[d] = local[d] /\ baseline'[d] = baseline[d]
      /\ local'[c] = a /\ baseline'[c] = a
  BY <1>2
<1> QED BY <1>1, <1>2, <1>5, <1>6

LEMMA ClaimKeeps ==
    ASSUME CommandInv, NEW c \in Commands, Claim(c)
    PROVE  CommandInv'
<1> USE Shapes, Constants
<1> DEFINE held == [local[c] EXCEPT ![minted'] = Fresh]
<1>1. /\ at[c] = "reserving" /\ Found(local[c]) = {} /\ minted < MaxToken /\ minted' = minted + 1
      /\ Written(c, held)
      /\ token' = [token EXCEPT ![c] = minted'] /\ tied' = [tied EXCEPT ![c] = TRUE]
      /\ UNCHANGED <<at, out, works, file, settled>>
  BY DEF Claim, serverVars
<1>2. minted' \in Tokens /\ minted \in 0 .. MaxToken
  BY <1>1 DEF Tokens
<1>3. IsState(held) /\ held[minted'] = Fresh /\ \A t \in Tokens \ {minted'} : held[t] = local[c][t]
  <2>1. \A q : IsState(q) => \A t \in Tokens :
          /\ IsState([q EXCEPT ![t] = Fresh])
          /\ [q EXCEPT ![t] = Fresh][t] = Fresh
          /\ \A u \in Tokens \ {t} : [q EXCEPT ![t] = Fresh][u] = q[u]
    BY EntryShape
  <2>2. IsState(local[c])
    OBVIOUS
  <2> HIDE Shapes, Constants
  <2> QED BY <1>2, <2>1, <2>2
<1> HIDE DEF held
<1>4. \A t \in Tokens : baseline[c][t] # Nothing /\ held[t] = Nothing => t \in settled
  BY <1>3 DEF CommandInv, RecordInv
<1>5. /\ StoreTypes'
      /\ inside[c] = "in" /\ inside' = [inside EXCEPT ![c] = "written"] /\ UNCHANGED <<lock, breaking>>
      /\ \A d \in Commands \ {c} : local'[d] = local[d] /\ baseline'[d] = baseline[d]
      /\ \A t \in Tokens : /\ disk'[t] = IF held[t] # baseline[c][t] THEN held[t] ELSE disk[t]
                           /\ local'[c][t] = disk'[t] /\ baseline'[c][t] = disk'[t]
      /\ \A t \in Tokens : disk'[t] = Nothing => disk[t] = Nothing \/ t \in settled
  BY <1>1, <1>3, <1>4, WrittenKeeps
<1>6. baseline[c][minted'] = Nothing /\ disk'[minted'] = Fresh
  BY <1>1, <1>2, <1>3, <1>5 DEF CommandInv, RecordInv, Tokens
<1>7. CommandTypes'
  BY <1>1, <1>2 DEF CommandInv, CommandTypes
<1>8. LockInv'
  BY <1>1, <1>5 DEF CommandInv, LockInv
<1>9. TokenInv'
  BY <1>1, <1>2, <1>5, <1>6 DEF CommandInv, TokenInv, HasToken, Tokens
<1>10. RecordInv'
  <2>1. \A t \in Tokens : t <= minted' /\ t \notin settled => disk'[t] # Nothing
    <3>1. \A t \in Tokens : t <= minted' => t <= minted \/ t = minted'
      BY <1>1, <1>2 DEF Tokens
    <3>2. \A t \in Tokens : t <= minted /\ t \notin settled => disk'[t] # Nothing
      BY <1>5 DEF CommandInv, RecordInv
    <3> QED BY <1>6, <3>1, <3>2
  <2>2. \A d \in Commands, t \in Tokens : baseline'[d][t] # Nothing /\ local'[d][t] = Nothing => t \in settled
    BY <1>5 DEF CommandInv, RecordInv
  <2>3. \A d \in Commands : inside'[d] # "in"
    BY <1>5 DEF CommandInv, LockInv
  <2>4. \A t \in Tokens : t > minted' => t > minted /\ t # minted'
    BY <1>1, <1>2 DEF Tokens
  <2>5. \A t \in Tokens : t > minted' => disk'[t] = Nothing
    BY <1>3, <1>5, <2>4 DEF CommandInv, RecordInv
  <2>6. \A t \in Tokens : t > minted' => \A d \in Commands : local'[d][t] = Nothing /\ baseline'[d][t] = Nothing
    BY <1>5, <2>4, <2>5 DEF CommandInv, RecordInv
  <2>7. \A t \in Tokens : works'[t] > 0 => t <= minted'
    BY <1>1, <1>2 DEF CommandInv, RecordInv, Tokens
  <2> QED BY <1>1, <2>1, <2>2, <2>3, <2>5, <2>6, <2>7 DEF RecordInv
<1> QED BY <1>5, <1>7, <1>8, <1>9, <1>10 DEF CommandInv

LEMMA SaveKeeps ==
    ASSUME CommandInv, NEW c \in Commands, Save(c)
    PROVE  CommandInv'
<1> USE Shapes, Constants
<1>1. /\ at[c] \in Writing \ {"reserving"} /\ Written(c, local[c])
      /\ tied' = [tied EXCEPT ![c] = @ /\ (local[c][token[c]] # baseline[c][token[c]]
                                           \/ disk[token[c]] = local[c][token[c]])]
      /\ UNCHANGED <<at, token, out, works, file, minted, settled>>
  BY DEF Save, serverVars
<1>2. /\ StoreTypes'
      /\ inside[c] = "in" /\ inside' = [inside EXCEPT ![c] = "written"] /\ UNCHANGED <<lock, breaking>>
      /\ \A d \in Commands \ {c} : local'[d] = local[d] /\ baseline'[d] = baseline[d]
      /\ \A t \in Tokens : /\ disk'[t] = IF local[c][t] # baseline[c][t] THEN local[c][t] ELSE disk[t]
                           /\ local'[c][t] = disk'[t] /\ baseline'[c][t] = disk'[t]
      /\ \A t \in Tokens : disk'[t] = Nothing => disk[t] = Nothing \/ t \in settled
  <2>1. \A t \in Tokens : baseline[c][t] # Nothing /\ local[c][t] = Nothing => t \in settled
    BY DEF CommandInv, RecordInv
  <2> QED BY <1>1, <2>1, WrittenKeeps
<1>3. CommandTypes'
  <2>1. tied' \in [Commands -> BOOLEAN]
    BY Zenon, <1>1, Shapes
  <2> QED BY <1>1, <2>1 DEF CommandInv, CommandTypes
<1>4. LockInv'
  BY <1>1, <1>2 DEF CommandInv, LockInv
<1>5. TokenInv'
  <2>1. tied'[c] => tied[c] /\ local'[c][token[c]] = local[c][token[c]]
    BY <1>1, <1>2
  <2>2. \A d \in Commands \ {c} : tied'[d] = tied[d]
    BY <1>1
  <2>3. ASSUME NEW d \in Commands, d # c
        PROVE  /\ HasToken(d)' = HasToken(d)
               /\ local'[d][token'[d]] = local[d][token[d]] /\ at'[d] = at[d] /\ inside'[d] = inside[d]
    BY <1>1, <1>2, <2>3 DEF HasToken
  <2>4. at[c] \notin {"reserving", "opening", "answered"}
    BY <1>1 DEF Writing
  <2>5. HasToken(c)' => HasToken(c)
    BY <1>1, <2>4 DEF HasToken
  <2>6. token' = token /\ minted' = minted
    BY <1>1
  <2>7. ASSUME NEW d \in Commands
        PROVE  /\ HasToken(d)' => token'[d] <= minted'
               /\ at'[d] = "opening" \/ (at'[d] = "reserving" /\ inside'[d] = "written") => tied'[d]
               /\ tied'[d] /\ (HasToken(d)' \/ at'[d] = "answered") => local'[d][token'[d]] # Nothing
    <3>1. CASE d = c
      BY <1>1, <2>1, <2>4, <2>5, <2>6, <3>1 DEF CommandInv, TokenInv
    <3>2. CASE d # c
      BY <2>2, <2>3, <2>6, <3>2 DEF CommandInv, TokenInv
    <3> QED BY <3>1, <3>2
  <2> QED BY <2>7 DEF TokenInv, HasToken
<1>6. RecordInv'
  <2>1. \A t \in Tokens : t > minted => disk'[t] = Nothing
    BY <1>2 DEF CommandInv, RecordInv
  <2>2. \A d \in Commands : inside'[d] # "in"
    BY <1>2 DEF CommandInv, LockInv
  <2> QED BY <1>1, <1>2, <2>1, <2>2, SMTT(30) DEF CommandInv, RecordInv
<1> QED BY <1>2, <1>3, <1>4, <1>5, <1>6 DEF CommandInv

LEMMA LeaveLockKeeps ==
    ASSUME CommandInv, NEW c \in Commands, LeaveLock(c)
    PROVE  CommandInv'
<1> USE Shapes, Constants
<1>1. /\ inside[c] = "written" /\ inside' = [inside EXCEPT ![c] = "out"]
      /\ lock' = Free /\ breaking' = [d \in Commands |-> CASE breaking[d] = "judged" -> "stale"
                                                           [] OTHER -> breaking[d]]
      /\ at' = [at EXCEPT ![c] = After(c)]
      /\ UNCHANGED <<disk, local, baseline, token, tied, out, works, minted, settled>>
  BY DEF LeaveLock, Leave, Unlinked, Goes, serverVars
<1>2. lock = c /\ at[c] \in Writing
  BY <1>1 DEF CommandInv, LockInv
<1>3. /\ After(c) \in {"opening", "sending", "printing", "ended"}
      /\ After(c) \in {"opening", "sending"} => at[c] \in {"reserving", "noting"}
      /\ After(c) = "opening" => at[c] = "reserving"
  BY <1>2 DEF After, Writing
<1>4. StoreTypes'
  <2>1. breaking' \in [Commands -> {"no", "judged", "stale", "confirmed"}]
    BY <1>1
  <2> QED BY <1>1, <2>1 DEF CommandInv, StoreTypes, AreStates
<1>5. file' \in Seq(Content) /\ Len(file') <= MaxFile
  BY ClosesKeeps DEF LeaveLock, CommandInv, CommandTypes
<1>6. CommandTypes'
  <2>1. After(c) \in Places
    BY <1>3 DEF Places, Ended
  <2> QED BY <1>1, <1>5, <2>1 DEF CommandInv, CommandTypes
<1>7. LockInv'
  <2>1. \A d \in Commands : d # c => inside[d] = "out"
    BY <1>2 DEF CommandInv, LockInv
  <2>2. \A d \in Commands : inside'[d] = "out"
    BY <1>1, <2>1
  <2>3. lock # Left /\ \A d \in Commands : breaking[d] \notin {"judged", "confirmed"}
    BY <1>2 DEF CommandInv, LockInv
  <2>4. \A d \in Commands : breaking'[d] = breaking[d]
    BY <1>1, <2>3
  <2> QED BY <2>2, <2>3, <2>4 DEF CommandInv, LockInv
<1>8. HasToken(c)' => HasToken(c)
  BY <1>1, <1>3 DEF HasToken
<1>9. TokenInv'
  <2>1. \A d \in Commands \ {c} : at'[d] = at[d] /\ inside'[d] = inside[d]
    BY <1>1
  <2>2. at'[c] = After(c) /\ at'[c] # "answered" /\ at'[c] # "reserving"
    BY <1>1, <1>3
  <2>3. at'[c] = "opening" => tied[c]
    BY <1>1, <1>3, <2>2 DEF CommandInv, TokenInv
  <2>4. ASSUME NEW d \in Commands
        PROVE  /\ HasToken(d)' => token'[d] <= minted'
               /\ at'[d] = "opening" \/ (at'[d] = "reserving" /\ inside'[d] = "written") => tied'[d]
               /\ tied'[d] /\ (HasToken(d)' \/ at'[d] = "answered") => local'[d][token'[d]] # Nothing
    <3>1. CASE d = c
      BY <1>1, <1>8, <2>2, <2>3, <3>1 DEF CommandInv, TokenInv
    <3>2. CASE d # c
      BY <1>1, <2>1, <3>2 DEF CommandInv, TokenInv, HasToken
    <3> QED BY <3>1, <3>2
  <2> QED BY <2>4 DEF TokenInv, HasToken
<1>10. RecordInv'
  BY <1>1, <1>3 DEF CommandInv, RecordInv
<1> QED BY <1>4, <1>6, <1>7, <1>9, <1>10 DEF CommandInv

LEMMA KillKeeps ==
    ASSUME CommandInv, NEW c \in Commands, Kill(c)
    PROVE  CommandInv'
<1> USE Shapes, Constants
<1>1. /\ lock' = (IF lock = c THEN Left ELSE lock) /\ inside' = [inside EXCEPT ![c] = "out"]
      /\ breaking' = [breaking EXCEPT ![c] = "no"] /\ at' = [at EXCEPT ![c] = "ended"]
      /\ UNCHANGED <<disk, local, baseline, token, tied, out, works, file, minted, settled>>
  BY DEF Kill, Killed, Goes, serverVars
<1>2. StoreTypes'
  BY <1>1 DEF CommandInv, StoreTypes, AreStates
<1>3. CommandTypes'
  BY <1>1, PlaceNames DEF CommandInv, CommandTypes
<1>4. LockInv'
  BY <1>1 DEF CommandInv, LockInv
<1>5. TokenInv'
  BY <1>1 DEF CommandInv, TokenInv, HasToken
<1>6. RecordInv'
  BY <1>1 DEF CommandInv, RecordInv
<1> QED BY <1>2, <1>3, <1>4, <1>5, <1>6 DEF CommandInv

LEMMA CommandsBegin ==
    ASSUME CliInit
    PROVE  CommandInv /\ PendingInv
<1> USE Constants
<1> DEFINE s == [e \in {Active} \cup Tokens |-> IF e = Active /\ kind # "bootstrap" THEN Connected ELSE Nothing]
<1>1. IsState(s) /\ \A t \in Tokens : s[t] = Nothing
  BY DEF IsState
<1>2. /\ disk = s /\ lock = Free
      /\ inside = [c \in Commands |-> "out"] /\ breaking = [c \in Commands |-> "no"]
      /\ local = [c \in Commands |-> s] /\ baseline = [c \in Commands |-> s]
      /\ at = [c \in Commands |-> "idle"] /\ token = [c \in Commands |-> 1]
      /\ tied = [c \in Commands |-> FALSE] /\ out = [c \in Commands |-> NoFile]
      /\ file = <<>> /\ minted = 0 /\ works = [t \in Tokens |-> 0]
  BY DEF CliInit, StoreInit
<1> HIDE DEF s
<1>3. StoreTypes
  BY <1>1, <1>2 DEF StoreTypes, AreStates
<1>4. CommandTypes
  <2>1. "idle" \in Places /\ 1 \in Tokens
    BY DEF Places, Ended, Tokens
  <2> QED BY <1>2, <2>1 DEF CommandTypes
<1>5. LockInv /\ TokenInv
  BY <1>2 DEF LockInv, TokenInv, HasToken
<1>6. RecordInv
  BY <1>1, <1>2 DEF RecordInv, Tokens
<1>7. PendingInv
  BY <1>2 DEF PendingInv, Pending
<1> QED BY <1>3, <1>4, <1>5, <1>6, <1>7 DEF CommandInv

\* Only a reservation that found no record draws a token, and then nothing is pending.
LEMMA PendingKept ==
    ASSUME CommandInv, PendingInv, NEW c \in Commands,
           Claim(c) \/ (minted' = minted /\ settled \subseteq settled')
    PROVE  PendingInv'
<1>1. CASE Claim(c)
  <2>1. /\ at[c] = "reserving" /\ inside[c] = "in" /\ \A t \in Tokens : local[c][t] = Nothing
        /\ minted' = minted + 1 /\ settled' = settled /\ minted \in 0 .. MaxToken
    BY <1>1, Shapes DEF Claim, Written, Found
  <2>2. \A t \in Tokens : t <= minted => t \in settled
    BY <2>1 DEF CommandInv, RecordInv
  <2>3. \A t \in 1 .. minted : t \in settled
    BY <2>1, <2>2, Constants DEF Tokens
  <2> QED BY <2>1, <2>3 DEF PendingInv, Pending
<1>2. CASE minted' = minted /\ settled \subseteq settled'
  BY <1>2 DEF PendingInv, Pending
<1> QED BY <1>1, <1>2
-----------------------------------------------------------------------------
LEMMA CommandsStep ==
    ASSUME MaxBreakers <= 1, CommandInv, PendingInv, [CliNext]_cliVars
    PROVE  CommandInv' /\ PendingInv'
<1>1. CASE UNCHANGED cliVars
  BY <1>1 DEF cliVars, storeVars, clientVars, serverVars, CommandInv, StoreTypes, CommandTypes, AreStates,
              LockInv, TokenInv, HasToken, RecordInv, PendingInv, Pending
<1>2. ASSUME NEW t \in Tokens, Unseal(t) PROVE CommandInv' /\ PendingInv'
  <2>1. UNCHANGED <<minted, settled>>
    BY <1>2 DEF Unseal
  <2> QED BY <1>2, <2>1, UnsealKeeps DEF PendingInv, Pending
<1>3. ASSUME NEW c \in Commands, Start(c) \/ Works(c) \/ TimeOut(c) \/ Refuse(c) \/ Lose(c) \/ Kill(c)
      PROVE  CommandInv' /\ PendingInv'
  <2>1. CommandInv'
    BY <1>3, StartKeeps, EnterLockKeeps, BreakLockKeeps, AdoptKeeps, ClaimKeeps, SaveKeeps, LeaveLockKeeps, TimeOutKeeps,
       OpenOutputKeeps, OpenKeeps, RunKeeps, RefuseKeeps, LoseKeeps, GiveUpKeeps, AnsweredKeeps, StoreKeeps, PrintedKeeps,
       KillKeeps DEF Works
  <2>2. Claim(c) \/ (minted' = minted /\ settled \subseteq settled')
    BY <1>3 DEF Works, Start, EnterLock, BreakLock, Adopt, Save, LeaveLock, TimeOut, OpenOutput, Settles, Open, Run,
       Refuse, Lose, GiveUp, Answered, Store, Printed, Kill
  <2>3. PendingInv'
    BY <2>2, PendingKept
  <2> QED BY <2>1, <2>3
<1> QED BY <1>1, <1>2, <1>3 DEF CliNext

LEMMA CommandsHold ==
    ASSUME MaxBreakers <= 1
    PROVE  CliSpec => [](CommandInv /\ PendingInv)
<1>1. CliInit => CommandInv /\ PendingInv
  BY CommandsBegin
<1>2. CommandInv /\ PendingInv /\ [CliNext]_cliVars => (CommandInv /\ PendingInv)'
  BY CommandsStep
<1> QED BY <1>1, <1>2, PTL DEF CliSpec

\* However many identical commands are started side by side, killed, or left
\* without an answer, and however often, none sends the work again under another
\* token, as long as one command at a time breaks an abandoned lock.
THEOREM IdenticalCommandsShareAToken ==
    ASSUME MaxBreakers <= 1
    PROVE  CliSpec => []OneTokenAtATime
<1>1. CommandInv /\ PendingInv => OneTokenAtATime
  <2> SUFFICES ASSUME CommandInv, PendingInv PROVE Cardinality(Pending) <= 1
    BY DEF OneTokenAtATime, Pending
  <2>1. CASE Pending = {}
    BY <2>1, FS_EmptySet
  <2>2. CASE Pending # {}
    <3>1. PICK t \in Pending : Pending = {t}
      BY <2>2 DEF PendingInv
    <3>2. Cardinality({t}) = 1
      BY FS_Singleton
    <3> HIDE DEF Pending
    <3> QED BY <3>1, <3>2
  <2> QED BY <2>1, <2>2
<1> QED BY <1>1, CommandsHold, PTL

\* Under the same assumption, what the deployment did and nobody was shown is
\* recovered by running the command again: its token is still in the state file.
THEOREM DoneWorkIsRecoverable ==
    ASSUME MaxBreakers <= 1
    PROVE  CliSpec => []WorkIsRecoverable
<1>1. CommandInv => WorkIsRecoverable
  BY DEF CommandInv, RecordInv, WorkIsRecoverable, Done
<1> QED BY <1>1, CommandsHold, PTL
-----------------------------------------------------------------------------
(* What is done for identical commands, and where its key goes.              *)

Underway == Places \ (Ended \cup {"reserving"})

\* A command past its reservation holds a token that was drawn, and its state loses
\* that token's record only with the operation settled; a place has its kind; and a
\* key's file is opened before the operation is sent.
WellPlaced(c) ==
    /\ at[c] \in Underway => token[c] <= minted /\ (local[c][token[c]] = Nothing => token[c] \in settled)
    /\ at[c] \in {"opening", "noting", "finishing"} => kind = "key"
    /\ at[c] = "selecting" => kind # "key"
    /\ at[c] = "reserving" => out[c] = NoFile
    /\ kind = "key" /\ at[c] \in {"noting", "sending", "running", "answered"} => out[c] # NoFile

PlaceInv == \A c \in Commands : WellPlaced(c)

\* Work is done once under a token, and not under one that is refused; a command is
\* answered with what the deployment holds.
RightlyAnswered(c) ==
    at[c] = "answered" =>
        \/ answer[c] = "refused" /\ token[c] \notin Done
        \/ answer[c] = "whole" /\ token[c] \in Done /\ (kind = "key" => token[c] \in sealed)
        \/ answer[c] = "redacted" /\ token[c] \in Done /\ kind = "key" /\ token[c] \notin sealed

AnswerInv ==
    /\ \A t \in Tokens : works[t] <= 1
    /\ \A c \in Commands : RightlyAnswered(c)

\* The connection is never lost: not from a state, nor from the file, and a
\* reservation sees it.
Connects(c) ==
    /\ local[c][Active] = Nothing => baseline[c][Active] = Nothing
    /\ baseline[c][Active] # Nothing => disk[Active] # Nothing
    /\ at[c] = "reserving" /\ inside[c] = "in" /\ local[c][Active] = Nothing => disk[Active] = Nothing
    /\ at[c] = "selecting" => local[c][Active] # Nothing
    /\ (at[c] = "selecting" /\ inside[c] = "written") \/ (at[c] = "printing" /\ kind = "bootstrap") =>
          disk[Active] # Nothing

ConnectionInv == \A c \in Commands : Connects(c)

\* A bootstrap about to be sent, or that may be.
MaySend(c) ==
    \/ at[c] \in {"sending", "running"}
    \/ at[c] = "reserving" /\ inside[c] = "written" /\ local[c][Active] = Nothing

\* An account that was created and shown is the connection; and a bootstrap that may
\* still be sent is the first.
OneAccountInv ==
    kind = "bootstrap" =>
        /\ \A t \in Done \cap settled : disk[Active] # Nothing
        /\ \A c \in Commands : MaySend(c) /\ token[c] \notin settled => Done \subseteq {token[c]}
        /\ \A t, u \in Done : t = u

\* A file is of the token of whoever has it open, of the records that name it and of
\* the key it holds.
Names(s, f, t) == s[t] # Nothing /\ s[t].output = f

IsOf(f, t) ==
    \/ \E c \in Commands : (out[c] = f /\ token[c] = t) \/ Names(local[c], f, t) \/ Names(baseline[c], f, t)
    \/ Names(disk, f, t)
    \/ f \in DOMAIN file /\ file[f] = t

OwnerInv ==
    \A f \in Files, t \in Tokens :
        IsOf(f, t) => f <= Len(file) /\ \A u \in Tokens : IsOf(f, u) => u = t

KeyIn(t) == \E f \in DOMAIN file : file[f] = t

\* An operation whose key was made is settled only with the key in a file, or out of
\* reach; a reservation is released only with its operation settled; and a key is in a
\* file before a record says so, or its metadata is printed.
Says(s, t) == s[t] # Nothing /\ s[t].done

FileInv ==
    kind = "key" =>
        /\ \A t \in Tokens \cap settled : KeyIn(t) \/ t \notin Done \/ t \notin sealed
        /\ \A c \in Commands : out[c] # NoFile /\ file[out[c]] = Gone => token[c] \in settled
        /\ \A t \in Tokens : Says(disk, t) => KeyIn(t)
        /\ \A c \in Commands, t \in Tokens : Says(local[c], t) \/ Says(baseline[c], t) => KeyIn(t)
        /\ \A c \in Commands : at[c] \in {"finishing", "printing"} => KeyIn(token[c])
-----------------------------------------------------------------------------
\* The entries of a state that a command changes one of.
LEMMA OneEntry ==
    ASSUME CommandInv, NEW c \in Commands, NEW e \in Entries, NEW v,
           local' = [local EXCEPT ![c] = [@ EXCEPT ![e] = v]]
    PROVE  /\ local'[c][e] = v /\ \A u \in Entries \ {e} : local'[c][u] = local[c][u]
           /\ \A d \in Commands \ {c} : local'[d] = local[d]
<1>1. IsState(local[c])
  BY Shapes
<1>2. local[c] \in [Entries -> Records \cup {Nothing, Connected} \cup Tokens]
  BY <1>1, StateShape
<1>3. local'[c] = [local[c] EXCEPT ![e] = v]
  BY Shapes
<1> QED BY <1>2, <1>3, Shapes

LEMMA EntryNames == Active \in Entries /\ Tokens \subseteq Entries /\ Active \notin Tokens
BY Constants DEF Entries

LEMMA SettlesState ==
    ASSUME CommandInv, NEW c \in Commands, NEW p, Settles(c, p, local[c])
    PROVE  /\ local'[c][token[c]] = Nothing /\ local'[c][Active] = local[c][Active]
           /\ \A t \in Tokens \ {token[c]} : local'[c][t] = local[c][t]
           /\ \A d \in Commands \ {c} : local'[d] = local[d]
           /\ UNCHANGED <<disk, lock, inside, breaking, baseline>>
           /\ settled' = settled \cup {token[c]} /\ at' = [at EXCEPT ![c] = p]
<1>1. token[c] \in Entries /\ token[c] # Active
  BY Shapes, EntryNames
<1>2. local' = [local EXCEPT ![c] = [@ EXCEPT ![token[c]] = Nothing]]
  BY DEF Settles
<1>3. PICK e \in Entries : e = token[c]
  BY <1>1
<1>6. local' = [local EXCEPT ![c] = [@ EXCEPT ![e] = Nothing]]
  BY <1>2, <1>3
<1>4. /\ local'[c][e] = Nothing /\ \A u \in Entries \ {e} : local'[c][u] = local[c][u]
      /\ \A d \in Commands \ {c} : local'[d] = local[d]
  BY <1>6, OneEntry
<1>5. Active \in Entries \ {e} /\ \A t \in Tokens \ {e} : t \in Entries \ {e}
  BY <1>1, <1>3, EntryNames
<1> QED BY <1>3, <1>4, <1>5 DEF Settles, Goes

LEMMA StartState ==
    ASSUME CommandInv, NEW c \in Commands, Read(c)
    PROVE  /\ local'[c] = disk /\ baseline'[c] = disk
           /\ \A d \in Commands \ {c} : local'[d] = local[d] /\ baseline'[d] = baseline[d]
BY Shapes DEF Read

\* What the merge makes of the connection, and of a record.
LEMMA EnterState ==
    ASSUME CommandInv, NEW c \in Commands, EnterLock(c)
    PROVE  /\ at[c] # "reserving" => local' = local
           /\ \A d \in Commands \ {c} : local'[d] = local[d]
           /\ \A t \in Tokens : local'[c][t] = local[c][t] \/ local'[c][t] = disk[t]
           /\ at[c] = "reserving" =>
                local'[c][Active] = IF local[c][Active] # Nothing THEN local[c][Active]
                                    ELSE IF baseline[c][Active] # Nothing THEN Nothing ELSE disk[Active]
<1> DEFINE m == Merged(baseline[c], local[c], disk)
           a == Absorbed(local[c], m)
<1>1. local' = IF at[c] = "reserving" THEN [local EXCEPT ![c] = a] ELSE local
  BY DEF EnterLock, Enter
<1>2. /\ IsState(local[c]) /\ IsState(baseline[c]) /\ IsState(disk)
      /\ local = [d \in Commands |-> local[d]]
  BY Shapes
<1>3. \A t \in Tokens : a[t] = IF local[c][t] # baseline[c][t] THEN local[c][t] ELSE disk[t]
  BY <1>2, MergedShape
<1>4. m[Active] = IF local[c][Active] # baseline[c][Active] THEN local[c][Active] ELSE disk[Active]
  BY DEF Merged
<1>5. a[Active] = IF local[c][Active] = Nothing THEN m[Active] ELSE local[c][Active]
  BY DEF Absorbed, Merged
<1> HIDE DEF m, a
<1>6. \A d \in Commands \ {c} : local'[d] = local[d]
  BY <1>1, <1>2
<1>7. at[c] = "reserving" => local'[c] = a
  BY <1>1, <1>2
<1> QED BY <1>1, <1>3, <1>4, <1>5, <1>6, <1>7

LEMMA WrittenState ==
    ASSUME CommandInv, NEW c \in Commands, NEW held, IsState(held), Written(c, held)
    PROVE  /\ \A d \in Commands \ {c} : local'[d] = local[d] /\ baseline'[d] = baseline[d]
           /\ \A t \in Tokens : disk'[t] = IF held[t] # baseline[c][t] THEN held[t] ELSE disk[t]
           /\ \A t \in Tokens : local'[c][t] = disk'[t] /\ baseline'[c][t] = disk'[t]
           /\ disk'[Active] = IF held[Active] # baseline[c][Active] THEN held[Active] ELSE disk[Active]
           /\ local'[c][Active] = IF held[Active] = Nothing THEN disk'[Active] ELSE held[Active]
           /\ baseline'[c][Active] = local'[c][Active]
           /\ inside[c] = "in" /\ inside' = [inside EXCEPT ![c] = "written"]
<1> DEFINE m == Merged(baseline[c], held, disk)
           a == Absorbed(held, m)
<1>1. /\ disk' = m /\ local' = [local EXCEPT ![c] = a] /\ baseline' = [baseline EXCEPT ![c] = a]
      /\ inside[c] = "in" /\ inside' = [inside EXCEPT ![c] = "written"]
  BY DEF Written, Persist
<1>2. /\ IsState(baseline[c]) /\ IsState(disk) /\ local = [d \in Commands |-> local[d]]
      /\ baseline = [d \in Commands |-> baseline[d]]
  BY Shapes
<1>3. \A t \in Tokens : m[t] = (IF held[t] # baseline[c][t] THEN held[t] ELSE disk[t]) /\ a[t] = m[t]
  BY <1>2, MergedShape
<1>4. m[Active] = IF held[Active] # baseline[c][Active] THEN held[Active] ELSE disk[Active]
  BY DEF Merged
<1>5. a[Active] = IF held[Active] = Nothing THEN m[Active] ELSE held[Active]
  BY DEF Absorbed, Merged
<1> HIDE DEF m, a
<1>6. /\ \A d \in Commands \ {c} : local'[d] = local[d] /\ baseline'[d] = baseline[d]
      /\ local'[c] = a /\ baseline'[c] = a
  BY <1>1, <1>2
<1> QED BY <1>1, <1>3, <1>4, <1>5, <1>6

LEMMA ClaimDraws ==
    ASSUME CommandInv, NEW c \in Commands, Claim(c)
    PROVE  \E held : /\ IsState(held) /\ Written(c, held) /\ held[minted'] = Fresh
                     /\ \A t \in Tokens \ {minted'} : held[t] = local[c][t]
                     /\ held[Active] = local[c][Active]
                     /\ minted' \in Tokens /\ minted' = minted + 1
<1>1. minted' = minted + 1 /\ minted' \in Tokens /\ IsState(local[c]) /\ Fresh \in Records
  BY Shapes, Constants DEF Claim, Tokens
<1>2. PICK n : n = minted'
  OBVIOUS
<1>3. PICK held : held = [local[c] EXCEPT ![n] = Fresh]
  OBVIOUS
<1>4. PICK s : s = local[c]
  OBVIOUS
<1>5. n \in Tokens /\ IsState(s) /\ held = [s EXCEPT ![n] = Fresh]
  BY <1>1, <1>2, <1>3, <1>4
<1>6. IsState(held) /\ held[n] = Fresh /\ \A t \in Tokens \ {n} : held[t] = s[t]
  <2>1. \A q : IsState(q) => \A t \in Tokens :
          /\ IsState([q EXCEPT ![t] = Fresh])
          /\ [q EXCEPT ![t] = Fresh][t] = Fresh
          /\ \A u \in Tokens \ {t} : [q EXCEPT ![t] = Fresh][u] = q[u]
    BY <1>1, EntryShape
  <2>2. /\ IsState([s EXCEPT ![n] = Fresh]) /\ [s EXCEPT ![n] = Fresh][n] = Fresh
        /\ \A u \in Tokens \ {n} : [s EXCEPT ![n] = Fresh][u] = s[u]
    BY Zenon, <1>5, <2>1
  <2> QED BY Zenon, <1>5, <2>2
<1>7. held[Active] = s[Active]
  <2>1. s \in [Entries -> Records \cup {Nothing, Connected} \cup Tokens] /\ n # Active
    BY <1>5, StateShape, EntryNames
  <2> QED BY <1>5, <2>1, EntryNames
<1>8. Written(c, held)
  BY <1>2, <1>3 DEF Claim
<1> QED BY <1>1, <1>2, <1>4, <1>6, <1>7, <1>8

\* keyOperation on a record that names a file, and on one that does not.
OpensAgain(c) ==
    LET r == local[c][token[c]] IN
    /\ UNCHANGED file
    /\ \/ /\ r.done /\ Settles(c, "releasing", local[c])
          /\ out' = [out EXCEPT ![c] = r.output]
       \/ Goes(c, "ended") /\ UNCHANGED <<storeVars, out, settled>>
       \/ /\ r.output # NoFile /\ file[r.output] # Gone
          /\ out' = [out EXCEPT ![c] = r.output] /\ Goes(c, "noting") /\ UNCHANGED <<storeVars, settled>>

Creates(c) ==
    /\ Len(file) < MaxFile /\ file' = Append(file, Reserved)
    /\ out' = [out EXCEPT ![c] = Len(file')]
    /\ local' = [local EXCEPT ![c] = [@ EXCEPT ![token[c]].output = Len(file')]]
    /\ ~local[c][token[c]].done
    /\ Goes(c, "noting")
    /\ UNCHANGED <<disk, lock, inside, breaking, baseline, settled>>

LEMMA OpensOrCreates ==
    ASSUME NEW c \in Commands, OpenOutput(c)
    PROVE  OpensAgain(c) \/ Creates(c)
BY DEF OpenOutput, OpensAgain, Creates

LEMMA HeldRecord ==
    ASSUME CommandInv, NEW c \in Commands, local[c][token[c]] # Nothing
    PROVE  local[c][token[c]] \in Records /\ token[c] \in Tokens /\ token[c] \in Entries
<1>1. IsState(local[c]) /\ token[c] \in Tokens
  BY Shapes
<1>2. local[c][token[c]] \in Records \cup {Nothing}
  BY <1>1, StateShape
<1> QED BY <1>1, <1>2, EntryNames

LEMMA CreatesState ==
    ASSUME CommandInv, NEW c \in Commands, at[c] = "opening", Creates(c)
    PROVE  /\ file' = Append(file, Reserved) /\ Len(file') = Len(file) + 1 /\ Len(file') \in Files
           /\ out' = [out EXCEPT ![c] = Len(file')] /\ at' = [at EXCEPT ![c] = "noting"]
           /\ Len(file') # NoFile
           /\ local'[c][token[c]] # Nothing /\ local'[c][token[c]].output = Len(file')
           /\ ~local'[c][token[c]].done
           /\ \A t \in Tokens \ {token[c]} : local'[c][t] = local[c][t]
           /\ local'[c][Active] = local[c][Active]
           /\ \A d \in Commands \ {c} : local'[d] = local[d]
           /\ UNCHANGED <<disk, inside, baseline, settled>>
<1>1. local[c][token[c]] # Nothing
  BY DEF CommandInv, TokenInv, HasToken
<1>2. local[c][token[c]] \in Records /\ token[c] \in Entries
  BY <1>1, HeldRecord
<1>3. Len(file) \in Nat /\ Len(file') = Len(file) + 1 /\ Len(file') \in Files /\ Len(file') # NoFile
  <2>1. file \in Seq(Content) /\ Reserved \in Content /\ Len(file) < MaxFile
    BY DEF Creates, CommandInv, CommandTypes, Content
  <2> QED BY <2>1, Constants DEF Creates, Files, NoFile
<1>4. PICK f, e, r : f = Len(file') /\ e = token[c] /\ r = [local[c][token[c]] EXCEPT !.output = f]
  OBVIOUS
<1>5. r \in Records /\ r.output = f /\ (r.done <=> local[c][token[c]].done)
  BY <1>2, <1>3, <1>4 DEF Records
<1>6. e \in Entries /\ local' = [local EXCEPT ![c] = [@ EXCEPT ![e] = r]]
  BY <1>2, <1>4 DEF Creates
<1>7. /\ local'[c][e] = r /\ \A u \in Entries \ {e} : local'[c][u] = local[c][u]
      /\ \A d \in Commands \ {c} : local'[d] = local[d]
  BY <1>6, OneEntry
<1>8. r # Nothing
  BY <1>5, Constants
<1>9. Active \in Entries \ {e} /\ \A t \in Tokens \ {e} : t \in Entries \ {e}
  BY <1>1, <1>4, HeldRecord, EntryNames
<1>10. ~r.done
  BY <1>2, <1>5 DEF Creates, Records
<1>11. /\ file' = Append(file, Reserved) /\ out' = [out EXCEPT ![c] = Len(file')] /\ at' = [at EXCEPT ![c] = "noting"]
       /\ UNCHANGED <<disk, inside, baseline, settled>>
  BY DEF Creates, Goes
<1> QED BY <1>3, <1>4, <1>5, <1>7, <1>8, <1>9, <1>10, <1>11

LEMMA StoreState ==
    ASSUME CommandInv, NEW c \in Commands, Store(c)
    PROVE  /\ \A t \in Tokens \ {token[c]} : local'[c][t] = local[c][t]
           /\ local'[c][token[c]] = Nothing => local[c][token[c]] = Nothing
           /\ local'[c][token[c]] # Nothing =>
                local[c][token[c]] # Nothing /\ local'[c][token[c]].output = local[c][token[c]].output
           /\ local'[c][Active] = local[c][Active]
           /\ \A d \in Commands \ {c} : local'[d] = local[d]
           /\ UNCHANGED <<disk, inside, baseline>>
<1>0. UNCHANGED <<disk, inside, baseline>>
  BY DEF Store
<1>1. CASE tied[c]
  <2>1. local[c][token[c]] # Nothing
    BY <1>1 DEF Store, CommandInv, TokenInv
  <2>2. local[c][token[c]] \in Records /\ token[c] \in Entries
    BY <2>1, HeldRecord
  <2>3. PICK e, r : e = token[c] /\ r = [local[c][token[c]] EXCEPT !.done = TRUE]
    OBVIOUS
  <2>4. r \in Records /\ r.output = local[c][token[c]].output
    BY <2>2, <2>3 DEF Records
  <2>5. e \in Entries /\ local' = [local EXCEPT ![c] = [@ EXCEPT ![e] = r]]
    BY <1>1, <2>2, <2>3 DEF Store
  <2>6. /\ local'[c][e] = r /\ \A u \in Entries \ {e} : local'[c][u] = local[c][u]
        /\ \A d \in Commands \ {c} : local'[d] = local[d]
    BY <2>5, OneEntry
  <2>7. Active \in Entries \ {e} /\ \A t \in Tokens \ {e} : t \in Entries \ {e}
    BY <2>1, <2>3, HeldRecord, EntryNames
  <2>8. r # Nothing
    BY <2>4, Constants
  <2> QED BY <1>0, <2>1, <2>3, <2>4, <2>6, <2>7, <2>8
<1>2. CASE ~tied[c]
  BY <1>0, <1>2 DEF Store
<1>3. tied[c] \in BOOLEAN
  BY Shapes
<1> QED BY <1>1, <1>2, <1>3

LEMMA SelectsState ==
    ASSUME CommandInv, NEW c \in Commands, Answered(c), kind # "plain"
    PROVE  /\ local'[c][Active] = token[c] /\ \A d \in Commands \ {c} : local'[d] = local[d]
           /\ \A t \in Tokens : local'[c][t] = local[c][t]
<1>1. PICK e, v : e = Active /\ v = token[c]
  OBVIOUS
<1>2. e \in Entries /\ local' = [local EXCEPT ![c] = [@ EXCEPT ![e] = v]]
  BY <1>1, EntryNames DEF Answered
<1>3. /\ local'[c][e] = v /\ \A u \in Entries \ {e} : local'[c][u] = local[c][u]
      /\ \A d \in Commands \ {c} : local'[d] = local[d]
  BY <1>2, OneEntry
<1>4. \A t \in Tokens : t \in Entries \ {e}
  BY <1>1, EntryNames
<1> QED BY <1>1, <1>3, <1>4

LEMMA OthersPlaced ==
    ASSUME CommandInv, PlaceInv, minted' = minted \/ minted' = minted + 1, settled \subseteq settled', kind' = kind,
           NEW d \in Commands,
           at'[d] = at[d], token'[d] = token[d], out'[d] = out[d], local'[d] = local[d]
    PROVE  WellPlaced(d)'
<1>1. minted \in Int /\ token[d] \in Int
  BY Shapes, Constants DEF Tokens
<1> QED BY <1>1 DEF PlaceInv, WellPlaced

\* A command that goes on with its token outside the lock, where the file is its own.
LEMMA GoesOnPlaced ==
    ASSUME CommandInv, PlaceInv, NEW c \in Commands, NEW p \in Places, at' = [at EXCEPT ![c] = p],
           UNCHANGED <<kind, token, minted>>, settled \subseteq settled',
           \A d \in Commands \ {c} : out'[d] = out[d] /\ local'[d] = local[d],
           p \in Underway => at[c] \in Underway,
           local'[c][token[c]] = Nothing => local[c][token[c]] = Nothing \/ token[c] \in settled',
           p \in {"opening", "noting", "finishing"} => kind = "key",
           p = "selecting" => kind # "key",
           p # "reserving",
           kind = "key" /\ p \in {"noting", "sending", "running", "answered"} => out'[c] # NoFile
    PROVE  PlaceInv'
<1>1. ASSUME NEW d \in Commands \ {c} PROVE WellPlaced(d)'
  <2>1. at'[d] = at[d]
    BY Shapes
  <2> QED BY <2>1, OthersPlaced
<1>2. WellPlaced(c)'
  <2>1. at'[c] = p /\ WellPlaced(c)
    BY Shapes DEF PlaceInv
  <2> QED BY <2>1 DEF WellPlaced
<1> QED BY <1>1, <1>2 DEF PlaceInv

LEMMA UnderwayPlaces ==
    /\ Underway = {"noting", "finishing", "selecting", "releasing", "forgetting", "opening", "sending", "running",
                   "answered", "printing"}
    /\ Ended = {"idle", "ended", "kept"}
    /\ Places = Ended \cup Underway \cup {"reserving"}
    /\ Writing = {"reserving", "noting", "finishing", "selecting", "releasing", "forgetting"}
BY DEF Underway, Places, Ended, Writing

LEMMA PlacesStep ==
    ASSUME CommandInv, CommandInv', PlaceInv, NEW c \in Commands,
           Start(c) \/ Works(c) \/ TimeOut(c) \/ Refuse(c) \/ Lose(c) \/ Kill(c)
    PROVE  PlaceInv'
<1> USE UnderwayPlaces
<1>1. CASE Start(c)
  <2>1. /\ at'[c] \in {"ended", "reserving"} /\ out'[c] = NoFile
        /\ \A d \in Commands \ {c} : /\ at'[d] = at[d] /\ token'[d] = token[d] /\ out'[d] = out[d]
                                     /\ local'[d] = local[d]
        /\ minted' = minted /\ settled' = settled /\ kind' = kind
    BY <1>1, Shapes, StartState DEF Start, Goes
  <2>2. \A d \in Commands \ {c} : WellPlaced(d)'
    BY <2>1, OthersPlaced
  <2>3. WellPlaced(c)'
    BY <2>1 DEF WellPlaced
  <2> QED BY <2>2, <2>3 DEF PlaceInv
<1>2. CASE EnterLock(c)
  <2>1. UNCHANGED <<kind, at, token, out, minted, settled>>
    BY <1>2 DEF EnterLock, clientVars
  <2>2. \A d \in Commands \ {c} : WellPlaced(d)'
    BY <1>2, <2>1, EnterState, OthersPlaced
  <2>3. CASE at[c] = "reserving"
    <3>1. WellPlaced(c)'
      BY <2>1, <2>3 DEF PlaceInv, WellPlaced
    <3> QED BY <2>2, <3>1 DEF PlaceInv
  <2>4. CASE at[c] # "reserving"
    <3>1. local' = local
      BY <1>2, <2>4, EnterState
    <3> QED BY <2>1, <3>1, OthersPlaced DEF PlaceInv
  <2> QED BY <2>3, <2>4
<1>3. CASE BreakLock(c)
  <2>1. UNCHANGED <<kind, at, token, out, minted, settled, local>>
    BY <1>3, Zenon DEF BreakLock, Judge, Confirm, Remove, clientVars
  <2> QED BY <2>1, OthersPlaced DEF PlaceInv
<1>4. CASE Adopt(c) \/ Claim(c)
  <2>1. /\ UNCHANGED <<kind, at, out, settled>> /\ at[c] = "reserving"
        /\ minted' = minted \/ minted' = minted + 1
        /\ \A d \in Commands \ {c} : token'[d] = token[d]
    BY <1>4, Shapes DEF Adopt, Claim
  <2>2. \A d \in Commands \ {c} : local'[d] = local[d]
    <3>1. CASE Adopt(c)
      BY <3>1 DEF Adopt, Kept
    <3>2. CASE Claim(c)
      BY <3>2, ClaimDraws, WrittenState
    <3> QED BY <1>4, <3>1, <3>2
  <2>3. \A d \in Commands \ {c} : WellPlaced(d)'
    BY <2>1, <2>2, OthersPlaced
  <2>4. WellPlaced(c)'
    BY <2>1 DEF PlaceInv, WellPlaced
  <2> QED BY <2>3, <2>4 DEF PlaceInv
<1>5. CASE Save(c)
  <2>1. UNCHANGED <<kind, at, token, out, minted, settled>> /\ Written(c, local[c]) /\ IsState(local[c])
    BY <1>5, Shapes DEF Save
  <2>2. /\ \A d \in Commands \ {c} : local'[d] = local[d]
        /\ \A t \in Tokens : local'[c][t] = disk'[t]
    BY <2>1, WrittenState
  <2>3. \A d \in Commands \ {c} : WellPlaced(d)'
    BY <2>1, <2>2, OthersPlaced
  <2>4. at[c] \in Underway => (local'[c][token[c]] = Nothing => token[c] \in settled)
    <3>1. token[c] \in Tokens /\ (at[c] \in Underway => token[c] <= minted)
      BY Shapes DEF PlaceInv, WellPlaced
    <3>2. \A t \in Tokens : t <= minted /\ t \notin settled => disk'[t] # Nothing
      BY <2>1 DEF CommandInv, RecordInv
    <3> QED BY <2>2, <3>1, <3>2
  <2>5. WellPlaced(c)'
    BY <2>1, <2>4 DEF PlaceInv, WellPlaced
  <2> QED BY <2>3, <2>5 DEF PlaceInv
<1>6. CASE LeaveLock(c)
  <2>1. /\ UNCHANGED <<kind, token, out, minted, settled, local>> /\ inside[c] = "written"
        /\ at' = [at EXCEPT ![c] = After(c)]
    BY <1>6 DEF LeaveLock, Leave, Goes
  <2>2. at[c] \in Writing /\ WellPlaced(c)
    BY <2>1 DEF CommandInv, LockInv, PlaceInv
  <2>3. CASE at[c] = "reserving"
    <3>1. After(c) \in {"opening", "ended", "sending"} /\ (After(c) = "opening" <=> kind = "key")
      BY <2>3 DEF After
    <3>2. token[c] <= minted /\ local[c][token[c]] # Nothing
      BY <2>1, <2>3 DEF CommandInv, TokenInv, HasToken
    <3>3. at'[c] = After(c) /\ \A d \in Commands \ {c} : at'[d] = at[d]
      BY <2>1, Shapes
    <3>4. WellPlaced(c)'
      BY <2>1, <3>1, <3>2, <3>3 DEF WellPlaced
    <3> QED BY <2>1, <3>3, <3>4, OthersPlaced DEF PlaceInv
  <2>4. CASE at[c] # "reserving"
    <3>1. /\ After(c) \in {"sending", "printing", "ended"}
          /\ After(c) = "sending" => at[c] = "noting"
      BY <2>2, <2>4 DEF After
    <3>2. kind = "key" /\ After(c) = "sending" => out[c] # NoFile
      BY <2>2, <3>1 DEF WellPlaced
    <3> QED BY <2>1, <2>2, <2>4, <3>1, <3>2, GoesOnPlaced
  <2> QED BY <2>3, <2>4
<1>7. CASE OpenOutput(c)
  <2>1. /\ at[c] = "opening" /\ UNCHANGED <<kind, token, minted>> /\ kind = "key"
        /\ local[c][token[c]] # Nothing /\ token[c] \in Tokens
    BY <1>7, Shapes DEF OpenOutput, PlaceInv, WellPlaced, CommandInv, TokenInv, HasToken
  <2>2. CASE OpensAgain(c)
    <3>1. PICK p \in {"releasing", "ended", "noting"} : at' = [at EXCEPT ![c] = p]
      BY <2>2 DEF OpensAgain, Settles, Goes
    <3>2. /\ settled \subseteq settled' /\ \A d \in Commands \ {c} : local'[d] = local[d] /\ out'[d] = out[d]
          /\ local'[c][token[c]] = Nothing => local[c][token[c]] = Nothing \/ token[c] \in settled'
      BY <2>2, Shapes, SettlesState DEF OpensAgain, storeVars
    <3>3. p = "noting" => out'[c] # NoFile
      BY <2>2, <3>1, Shapes DEF OpensAgain, Settles, Goes
    <3> QED BY <2>1, <3>1, <3>2, <3>3, GoesOnPlaced
  <2>5. CASE Creates(c)
    <3>1. out'[c] # NoFile /\ \A d \in Commands \ {c} : out'[d] = out[d]
      BY <2>1, <2>5, Shapes, CreatesState
    <3> QED BY <2>1, <2>5, <3>1, CreatesState, GoesOnPlaced
  <2>6. Creates(c) \/ OpensAgain(c)
    BY <1>7, OpensOrCreates
  <2> QED BY <2>2, <2>5, <2>6
<1>8. CASE Open(c) \/ Run(c) \/ Refuse(c)
  <2>1. PICK p \in {"answered", "running"} : at' = [at EXCEPT ![c] = p]
    BY <1>8 DEF Open, Run, Refuse, Goes
  <2>2. /\ UNCHANGED <<kind, token, out, minted, settled, local>> /\ at[c] \in {"sending", "running"}
    BY <1>8 DEF Open, Run, Refuse, storeVars
  <2>3. kind = "key" => out[c] # NoFile
    BY <2>2 DEF PlaceInv, WellPlaced
  <2> QED BY <2>1, <2>2, <2>3, GoesOnPlaced
<1>9. CASE GiveUp(c) \/ Printed(c)
  <2>1. PICK p \in {"forgetting", "releasing"} : Settles(c, p, local[c])
    BY <1>9 DEF GiveUp, Printed
  <2>2. UNCHANGED <<kind, token, out, minted>> /\ at[c] \in {"answered", "printing"}
    BY <1>9 DEF GiveUp, Printed
  <2>3. /\ settled \subseteq settled' /\ token[c] \in settled' /\ at' = [at EXCEPT ![c] = p]
        /\ \A d \in Commands \ {c} : local'[d] = local[d]
    BY <2>1, SettlesState
  <2>4. p \in Places /\ at[c] \in Underway
    BY <2>2
  <2> QED BY <2>2, <2>3, <2>4, GoesOnPlaced
<1>10. CASE Answered(c)
  <2>1. UNCHANGED <<kind, token, out, minted>> /\ at[c] = "answered"
    BY <1>10 DEF Answered
  <2>2. CASE kind = "plain"
    BY <1>10, <2>1, <2>2, SettlesState, GoesOnPlaced DEF Answered
  <2>3. CASE kind # "plain"
    <3>1. kind # "key" /\ UNCHANGED settled /\ Goes(c, "selecting")
          /\ local' = [local EXCEPT ![c] = [@ EXCEPT ![Active] = token[c]]]
      BY <1>10, <2>3 DEF Answered
    <3>2. token[c] \in Entries \ {Active}
      BY Shapes, EntryNames
    <3>3. local'[c][token[c]] = local[c][token[c]] /\ \A d \in Commands \ {c} : local'[d] = local[d]
      BY <3>1, <3>2, EntryNames, OneEntry
    <3> QED BY <2>1, <3>1, <3>3, GoesOnPlaced DEF Goes
  <2> QED BY <2>2, <2>3
<1>11. CASE Store(c)
  <2>1. UNCHANGED <<kind, token, out, minted, settled>> /\ at' = [at EXCEPT ![c] = "finishing"] /\ kind = "key"
        /\ at[c] = "answered"
    BY <1>11 DEF Store, Goes
  <2> QED BY <1>11, <2>1, StoreState, GoesOnPlaced
<1>12. CASE TimeOut(c) \/ Lose(c) \/ Kill(c)
  <2>1. PICK p \in Ended : at' = [at EXCEPT ![c] = p]
    BY <1>12 DEF TimeOut, Lose, Kill, Goes
  <2>2. UNCHANGED <<kind, token, out, minted, settled, local>>
    BY <1>12 DEF TimeOut, Lose, Kill, Killed, storeVars
  <2> QED BY <2>1, <2>2, GoesOnPlaced
<1> QED BY <1>1, <1>2, <1>3, <1>4, <1>5, <1>6, <1>7, <1>8, <1>9, <1>10, <1>11, <1>12 DEF Works

-----------------------------------------------------------------------------
LEMMA WorksIsNat ==
    ASSUME CommandInv, NEW t \in Tokens
    PROVE  works[t] \in Nat /\ (t \in Done <=> works[t] > 0)
BY DEF Done, CommandInv, CommandTypes

\* What running an operation does: its work, if it was not done and not refused.
LEMMA RunState ==
    ASSUME CommandInv, AnswerInv, NEW c \in Commands, Run(c)
    PROVE  /\ token[c] \notin settled \/ token[c] \in Done
           /\ \A d \in Commands : token[d] = token[c] /\ at[d] = "answered" /\ answer[d] = "refused" => token[c] \in Done
           /\ Done' = Done \cup {token[c]}
           /\ \A t \in Tokens : works'[t] <= 1
           /\ sealed' = IF token[c] \in Done THEN sealed ELSE sealed \cup {token[c]}
           /\ answer' = [answer EXCEPT ![c] = Held(token[c], sealed')]
           /\ at[c] = "running" /\ at' = [at EXCEPT ![c] = "answered"]
           /\ UNCHANGED <<storeVars, kind, token, tied, out, file, minted, settled>>
<1>1. token[c] \in Tokens /\ works \in [Tokens -> Nat]
  BY Shapes
<1>2. ~Refused(token[c]) /\ WritesOnce(token[c])
  BY DEF Run
<1>3. CASE token[c] \in Done
  BY <1>2, <1>3 DEF Run, Refused, WritesOnce, Goes, AnswerInv, Done
<1>4. CASE token[c] \notin Done
  <2>1. works' = [works EXCEPT ![token[c]] = @ + 1] /\ sealed' = sealed \cup {token[c]}
    BY <1>2, <1>4 DEF WritesOnce
  <2>2. works[token[c]] = 0
    BY <1>1, <1>4, WorksIsNat
  <2>3. \A t \in Tokens : works'[t] = IF t = token[c] THEN 1 ELSE works[t]
    BY <1>1, <2>1, <2>2
  <2>4. Done' = Done \cup {token[c]}
    BY <1>1, <2>3 DEF Done
  <2>5. \A t \in Tokens : works'[t] <= 1
    BY <2>3 DEF AnswerInv
  <2> QED BY <1>2, <1>4, <2>1, <2>4, <2>5 DEF Run, Refused, Goes
<1> QED BY <1>3, <1>4

\* A command that is, or was, somewhere else, or that stays as it was.
LEMMA OthersAnswered ==
    ASSUME AnswerInv, NEW d \in Commands, UNCHANGED <<kind, works, sealed>>,
           at'[d] # "answered" \/ (at'[d] = at[d] /\ answer'[d] = answer[d] /\ token'[d] = token[d])
    PROVE  RightlyAnswered(d)'
BY DEF AnswerInv, RightlyAnswered, Done

LEMMA NobodyAnswers ==
    ASSUME CommandInv, AnswerInv, NEW c \in Commands, UNCHANGED <<kind, works, sealed>>,
           at'[c] # "answered", \A d \in Commands \ {c} : at'[d] = at[d] /\ answer'[d] = answer[d] /\ token'[d] = token[d]
    PROVE  AnswerInv'
<1>1. \A d \in Commands : RightlyAnswered(d)'
  BY OthersAnswered
<1>2. \A t \in Tokens : works'[t] <= 1
  BY DEF AnswerInv
<1> QED BY <1>1, <1>2 DEF AnswerInv

LEMMA AnswersStep ==
    ASSUME CommandInv, AnswerInv, PlaceInv, answer = [c \in Commands |-> answer[c]], NEW c \in Commands,
           Start(c) \/ Works(c) \/ TimeOut(c) \/ Refuse(c) \/ Lose(c) \/ Kill(c)
    PROVE  AnswerInv'
<1> USE UnderwayPlaces
<1>1. CASE Start(c)
  BY <1>1, Shapes, NobodyAnswers DEF Start, Goes
<1>2. CASE EnterLock(c) \/ BreakLock(c) \/ Save(c)
  <2>1. UNCHANGED <<clientVars, serverVars>> \/ UNCHANGED <<kind, at, token, serverVars>>
    BY <1>2 DEF EnterLock, BreakLock, Save
  <2>2. UNCHANGED <<kind, works, sealed, at, answer, token>>
    BY <2>1 DEF clientVars, serverVars
  <2> QED BY <2>2, OthersAnswered DEF AnswerInv
<1>3. CASE Adopt(c) \/ Claim(c)
  BY <1>3, Shapes, NobodyAnswers DEF Adopt, Claim, serverVars
<1>4. CASE LeaveLock(c)
  <2>1. at'[c] = After(c) /\ at[c] \in Writing
    BY <1>4, Shapes DEF LeaveLock, Leave, Goes, CommandInv, LockInv
  <2>2. After(c) # "answered"
    BY <2>1 DEF After
  <2> QED BY <1>4, <2>1, <2>2, Shapes, NobodyAnswers DEF LeaveLock, Goes, serverVars
<1>5. CASE OpenOutput(c)
  <2>1. PICK p \in {"releasing", "ended", "noting"} : at' = [at EXCEPT ![c] = p]
    BY <1>5, OpensOrCreates DEF OpensAgain, Creates, Settles, Goes
  <2> QED BY <1>5, <2>1, Shapes, NobodyAnswers DEF OpenOutput, serverVars
<1>6. CASE Open(c)
  <2>1. /\ UNCHANGED <<kind, works, sealed, token>>
        /\ \A d \in Commands \ {c} : at'[d] = at[d] /\ answer'[d] = answer[d]
    BY <1>6, Shapes DEF Open, Goes
  <2>2. CASE token[c] \in Done
    <3>1. at'[c] = "answered" /\ answer'[c] = Held(token[c], sealed)
      BY <1>6, <2>2, Shapes DEF Open, Goes
    <3>2. RightlyAnswered(c)'
      BY <2>1, <2>2, <3>1 DEF RightlyAnswered, Held, Done
    <3> QED BY <2>1, <3>2, OthersAnswered DEF AnswerInv
  <2>3. CASE token[c] \notin Done
    BY <1>6, <2>1, <2>3, Shapes, NobodyAnswers DEF Open, Goes
  <2> QED BY <2>2, <2>3
<1>7. CASE Run(c)
  <2>1. /\ at'[c] = "answered" /\ answer'[c] = Held(token[c], sealed')
        /\ \A d \in Commands \ {c} : at'[d] = at[d] /\ answer'[d] = answer[d]
        /\ kind' = kind /\ token' = token
        /\ Done' = Done \cup {token[c]} /\ \A t \in Tokens : works'[t] <= 1
        /\ sealed' = IF token[c] \in Done THEN sealed ELSE sealed \cup {token[c]}
    BY <1>7, RunState, Shapes
  <2>2. RightlyAnswered(c)'
    BY <2>1 DEF RightlyAnswered, Held
  <2>3. ASSUME NEW d \in Commands \ {c} PROVE RightlyAnswered(d)'
    <3>1. RightlyAnswered(d) /\ (token[d] = token[c] /\ at[d] = "answered" /\ answer[d] = "refused" => token[c] \in Done)
      BY <1>7, RunState DEF AnswerInv
    <3> QED BY <2>1, <3>1 DEF RightlyAnswered
  <2> QED BY <2>1, <2>2, <2>3 DEF AnswerInv
<1>8. CASE Refuse(c)
  <2>1. /\ UNCHANGED <<kind, works, sealed, token>> /\ at'[c] = "answered" /\ answer'[c] = "refused"
        /\ \A d \in Commands \ {c} : at'[d] = at[d] /\ answer'[d] = answer[d]
        /\ token[c] \notin Done
    BY <1>8, Shapes DEF Refuse, Goes
  <2>2. RightlyAnswered(c)'
    BY <2>1 DEF RightlyAnswered, Done
  <2> QED BY <2>1, <2>2, OthersAnswered DEF AnswerInv
<1>9. CASE GiveUp(c) \/ Printed(c) \/ Answered(c) \/ Store(c)
  <2>1. PICK p \in {"forgetting", "releasing", "selecting", "finishing"} : at' = [at EXCEPT ![c] = p]
    BY <1>9 DEF GiveUp, Printed, Answered, Store, Settles, Goes
  <2>2. UNCHANGED <<kind, works, sealed, answer, token>>
    BY <1>9 DEF GiveUp, Printed, Answered, Store, serverVars
  <2> QED BY <2>1, <2>2, Shapes, NobodyAnswers
<1>10. CASE TimeOut(c) \/ Lose(c) \/ Kill(c)
  <2>1. PICK p \in Ended : at' = [at EXCEPT ![c] = p]
    BY <1>10 DEF TimeOut, Lose, Kill, Goes
  <2>2. UNCHANGED <<kind, works, sealed, answer, token>>
    BY <1>10 DEF TimeOut, Lose, Kill, serverVars
  <2> QED BY <2>1, <2>2, Shapes, NobodyAnswers
<1> QED BY <1>1, <1>2, <1>3, <1>4, <1>5, <1>6, <1>7, <1>8, <1>9, <1>10 DEF Works

LEMMA AnswersUnsealed ==
    ASSUME AnswerInv, NEW t \in Tokens, Unseal(t)
    PROVE  AnswerInv'
<1>1. ASSUME NEW c \in Commands PROVE RightlyAnswered(c)'
  <2>1. RightlyAnswered(c) /\ ~(token[c] = t /\ at[c] = "answered" /\ answer[c] = "whole")
    BY DEF AnswerInv, Unseal
  <2>2. /\ UNCHANGED <<kind, at, token, answer, works>> /\ sealed' = sealed \ {t}
    BY DEF Unseal, clientVars
  <2> QED BY <2>1, <2>2 DEF RightlyAnswered, Done
<1> QED BY <1>1 DEF AnswerInv, Unseal

LEMMA AnswersAreEach ==
    ASSUME answer = [c \in Commands |-> answer[c]], NEW c \in Commands,
           Start(c) \/ Works(c) \/ TimeOut(c) \/ Refuse(c) \/ Lose(c) \/ Kill(c)
    PROVE  answer' = [d \in Commands |-> answer'[d]]
<1>1. answer' = answer \/ \E a : answer' = [answer EXCEPT ![c] = a]
  BY DEF Works, Start, EnterLock, BreakLock, Adopt, Claim, Save, LeaveLock, TimeOut, OpenOutput, Open, Run, Refuse,
         Lose, GiveUp, Answered, Store, Printed, Kill, serverVars
<1> QED BY <1>1

-----------------------------------------------------------------------------
\* The file never loses the connection, to a command that writes what it holds.
LEMMA ConnectionStays ==
    ASSUME ConnectionInv, CommandInv, NEW c \in Commands, NEW held,
           held[Active] = local[c][Active], IsState(held), Written(c, held)
    PROVE  /\ disk[Active] # Nothing => disk'[Active] # Nothing
           /\ local[c][Active] # Nothing => disk'[Active] # Nothing
           /\ baseline'[c][Active] = local'[c][Active]
           /\ local'[c][Active] # Nothing => disk'[Active] # Nothing
           /\ local'[c][Active] = Nothing => disk'[Active] = Nothing
           /\ local[c][Active] # Nothing => local'[c][Active] # Nothing
<1>1. Connects(c)
  BY DEF ConnectionInv
<1>2. /\ disk'[Active] = IF held[Active] # baseline[c][Active] THEN held[Active] ELSE disk[Active]
      /\ local'[c][Active] = IF held[Active] = Nothing THEN disk'[Active] ELSE held[Active]
      /\ baseline'[c][Active] = local'[c][Active]
  BY WrittenState
<1> QED BY <1>1, <1>2 DEF Connects

LEMMA OthersConnect ==
    ASSUME ConnectionInv, kind' = kind, NEW d \in Commands,
           disk'[Active] = disk[Active] \/ (inside[d] = "out" /\ inside'[d] = "out"),
           disk[Active] # Nothing => disk'[Active] # Nothing,
           local'[d][Active] = local[d][Active], baseline'[d] = baseline[d],
           inside'[d] = inside[d] \/ inside'[d] = "out",
           at'[d] = at[d] \/ (at'[d] \notin {"reserving", "selecting"} /\ (at'[d] = "printing" => kind # "bootstrap"))
    PROVE  Connects(d)'
BY DEF ConnectionInv, Connects

\* A write: the others are not in the lock.
LEMMA WriteConnects ==
    ASSUME CommandInv, ConnectionInv, NEW c \in Commands, NEW held,
           held[Active] = local[c][Active], IsState(held), Written(c, held), UNCHANGED <<kind, at>>,
           at[c] \in Writing
    PROVE  ConnectionInv'
<1>1. /\ inside[c] = "in" /\ inside' = [inside EXCEPT ![c] = "written"]
      /\ \A d \in Commands \ {c} : local'[d] = local[d] /\ baseline'[d] = baseline[d]
  BY WrittenState
<1>2. ASSUME NEW d \in Commands \ {c} PROVE Connects(d)'
  <2>1. inside[d] = "out" /\ inside'[d] = "out"
    BY <1>1, Shapes DEF CommandInv, LockInv
  <2> QED BY <1>1, <2>1, ConnectionStays, OthersConnect
<1>3. Connects(c)'
  <2>1. at'[c] = at[c] /\ inside'[c] = "written" /\ Connects(c)
    BY <1>1, Shapes DEF ConnectionInv
  <2>2. at[c] # "printing"
    BY UnderwayPlaces
  <2> QED BY <2>1, <2>2, ConnectionStays DEF Connects
<1> QED BY <1>2, <1>3 DEF ConnectionInv

LEMMA ConnectionsStep ==
    ASSUME CommandInv, ConnectionInv, PlaceInv, NEW c \in Commands,
           Start(c) \/ Works(c) \/ TimeOut(c) \/ Refuse(c) \/ Lose(c) \/ Kill(c)
    PROVE  ConnectionInv' /\ (disk[Active] # Nothing => disk'[Active] # Nothing)
<1> USE UnderwayPlaces
<1>1. CASE Start(c)
  <2>1. /\ at'[c] \in {"ended", "reserving"} /\ inside[c] = "out" /\ UNCHANGED <<disk, inside, kind>>
        /\ local'[c] = disk /\ baseline'[c] = disk
        /\ \A d \in Commands \ {c} : at'[d] = at[d] /\ local'[d] = local[d] /\ baseline'[d] = baseline[d]
    BY <1>1, Shapes, StartState DEF Start, Read, Goes, CommandInv, LockInv
  <2>2. Connects(c)'
    BY <2>1 DEF Connects
  <2> QED BY <2>1, <2>2, OthersConnect DEF ConnectionInv
<1>2. CASE EnterLock(c)
  <2>1. UNCHANGED <<kind, at, disk, baseline>> /\ inside' = [inside EXCEPT ![c] = "in"]
    BY <1>2 DEF EnterLock, Enter, clientVars
  <2>2. \A d \in Commands \ {c} : local'[d] = local[d] /\ inside'[d] = inside[d]
    BY <1>2, <2>1, EnterState, Shapes
  <2>3. Connects(c)'
    <3>1. inside'[c] = "in" /\ Connects(c)
      BY <2>1, Shapes DEF ConnectionInv
    <3>2. CASE at[c] = "reserving"
      BY <1>2, <2>1, <3>1, <3>2, EnterState DEF Connects
    <3>3. CASE at[c] # "reserving"
      BY <1>2, <2>1, <3>1, <3>3, EnterState DEF Connects
    <3> QED BY <3>2, <3>3
  <2> QED BY <2>1, <2>2, <2>3, OthersConnect DEF ConnectionInv
<1>3. CASE BreakLock(c)
  <2>1. UNCHANGED <<kind, at, disk, inside, local, baseline>>
    BY <1>3, Zenon DEF BreakLock, Judge, Confirm, Remove, clientVars
  <2> QED BY <2>1, OthersConnect DEF ConnectionInv
<1>4. CASE Adopt(c)
  <2>1. UNCHANGED <<kind, at, disk, local, baseline>> /\ inside' = [inside EXCEPT ![c] = "written"] /\ at[c] = "reserving"
    BY <1>4 DEF Adopt, Kept
  <2>2. \A d \in Commands \ {c} : inside'[d] = inside[d]
    BY <2>1, Shapes
  <2>3. Connects(c)'
    BY <2>1, Shapes DEF ConnectionInv, Connects
  <2> QED BY <2>1, <2>2, <2>3, OthersConnect DEF ConnectionInv
<1>5. CASE Claim(c)
  <2>1. PICK held : IsState(held) /\ Written(c, held) /\ held[Active] = local[c][Active]
    BY <1>5, ClaimDraws
  <2>2. UNCHANGED <<kind, at>> /\ at[c] = "reserving"
    BY <1>5 DEF Claim
  <2> QED BY <2>1, <2>2, WriteConnects, ConnectionStays
<1>6. CASE Save(c)
  <2>1. UNCHANGED <<kind, at>> /\ at[c] \in Writing /\ Written(c, local[c]) /\ IsState(local[c])
    BY <1>6, Shapes DEF Save
  <2>2. PICK held : held = local[c]
    OBVIOUS
  <2>3. held[Active] = local[c][Active] /\ Written(c, held) /\ IsState(held)
    BY <2>1, <2>2
  <2> QED BY <2>1, <2>3, WriteConnects, ConnectionStays
<1>7. CASE LeaveLock(c)
  <2>1. /\ UNCHANGED <<kind, disk, local, baseline>> /\ inside' = [inside EXCEPT ![c] = "out"]
        /\ inside[c] = "written" /\ at'[c] = After(c) /\ at[c] \in Writing
        /\ \A d \in Commands \ {c} : at'[d] = at[d]
    BY <1>7, Shapes DEF LeaveLock, Leave, Goes, CommandInv, LockInv
  <2>2. \A d \in Commands \ {c} : inside'[d] = inside[d]
    BY <2>1, Shapes
  <2>3. After(c) \notin {"reserving", "selecting"} /\ (After(c) = "printing" => at[c] \in {"finishing", "selecting"})
    BY <2>1 DEF After
  <2>4. Connects(c)'
    <3>1. Connects(c) /\ WellPlaced(c)
      BY DEF ConnectionInv, PlaceInv
    <3> QED BY <2>1, <2>3, <3>1 DEF Connects, WellPlaced
  <2> QED BY <2>1, <2>2, <2>4, OthersConnect DEF ConnectionInv
<1>8. CASE OpenOutput(c)
  <2>1. UNCHANGED <<kind, disk, inside, baseline>> /\ at[c] = "opening"
    BY <1>8 DEF OpenOutput, Settles, storeVars
  <2>2. PICK p \in {"releasing", "ended", "noting"} : at' = [at EXCEPT ![c] = p]
    BY <1>8, OpensOrCreates DEF OpensAgain, Creates, Settles, Goes
  <2>3. \A d \in Commands : local'[d][Active] = local[d][Active]
    BY <1>8, <2>1, OpensOrCreates, CreatesState, SettlesState DEF OpensAgain, storeVars
  <2>4. \A d \in Commands : at'[d] = at[d] \/ at'[d] \notin {"reserving", "selecting", "printing"}
    BY <2>2, Shapes
  <2> QED BY <2>1, <2>3, <2>4, OthersConnect DEF ConnectionInv
<1>9. CASE Open(c) \/ Run(c) \/ Refuse(c) \/ Lose(c) \/ TimeOut(c)
  <2>1. PICK p \in {"answered", "running", "ended", "kept"} : at' = [at EXCEPT ![c] = p]
    BY <1>9 DEF Open, Run, Refuse, Lose, TimeOut, Goes
  <2>2. UNCHANGED <<kind, disk, inside, local, baseline>>
    BY <1>9 DEF Open, Run, Refuse, Lose, TimeOut, storeVars
  <2>3. \A d \in Commands : at'[d] = at[d] \/ at'[d] \notin {"reserving", "selecting", "printing"}
    BY <2>1, Shapes
  <2> QED BY <2>2, <2>3, OthersConnect DEF ConnectionInv
<1>10. CASE Kill(c)
  <2>1. UNCHANGED <<kind, disk, local, baseline>> /\ at' = [at EXCEPT ![c] = "ended"]
        /\ inside' = [inside EXCEPT ![c] = "out"]
    BY <1>10 DEF Kill, Killed, Goes
  <2>2. \A d \in Commands : /\ at'[d] = at[d] \/ at'[d] \notin {"reserving", "selecting", "printing"}
                            /\ inside'[d] = inside[d] \/ inside'[d] = "out"
    BY <2>1, Shapes
  <2> QED BY <2>1, <2>2, OthersConnect DEF ConnectionInv
<1>11. CASE GiveUp(c) \/ Printed(c) \/ (Answered(c) /\ kind = "plain")
  <2>1. PICK p \in {"forgetting", "releasing"} : Settles(c, p, local[c])
    BY <1>11 DEF GiveUp, Printed, Answered
  <2>2. /\ UNCHANGED <<disk, inside, baseline>> /\ \A d \in Commands : local'[d][Active] = local[d][Active]
        /\ at' = [at EXCEPT ![c] = p]
    BY <2>1, SettlesState
  <2>3. kind' = kind
    BY <1>11 DEF GiveUp, Printed, Answered
  <2>4. \A d \in Commands : at'[d] = at[d] \/ at'[d] \notin {"reserving", "selecting", "printing"}
    BY <2>2, Shapes
  <2> QED BY <2>2, <2>3, <2>4, OthersConnect DEF ConnectionInv
<1>12. CASE Answered(c) /\ kind # "plain"
  <2>1. /\ UNCHANGED <<kind, disk, inside, baseline>> /\ at[c] = "answered"
        /\ local' = [local EXCEPT ![c] = [@ EXCEPT ![Active] = token[c]]]
        /\ at' = [at EXCEPT ![c] = "selecting"]
    BY <1>12 DEF Answered, Goes
  <2>2. /\ local'[c][Active] = token[c] /\ \A d \in Commands \ {c} : local'[d] = local[d] /\ at'[d] = at[d]
        /\ at'[c] = "selecting"
    BY <1>12, <2>1, SelectsState, Shapes
  <2>3. token[c] # Nothing /\ inside[c] = "out"
    BY <2>1, Shapes, Constants DEF CommandInv, LockInv
  <2>4. Connects(c)'
    BY <2>1, <2>2, <2>3 DEF ConnectionInv, Connects
  <2> QED BY <2>1, <2>2, <2>4, OthersConnect DEF ConnectionInv
<1>13. CASE Store(c)
  <2>1. UNCHANGED <<kind, disk, inside, baseline>> /\ at' = [at EXCEPT ![c] = "finishing"]
    BY <1>13 DEF Store, Goes
  <2>2. \A d \in Commands : local'[d][Active] = local[d][Active]
    BY <1>13, StoreState
  <2>3. \A d \in Commands : at'[d] = at[d] \/ at'[d] \notin {"reserving", "selecting", "printing"}
    BY <2>1, Shapes
  <2> QED BY <2>1, <2>2, <2>3, OthersConnect DEF ConnectionInv
<1> QED
  BY <1>1, <1>2, <1>3, <1>4, <1>5, <1>6, <1>7, <1>8, <1>9, <1>10, <1>11, <1>12, <1>13 DEF Works

-----------------------------------------------------------------------------
\* Where no work is done, nothing is settled, and no more may be sent.
LEMMA AccountStays ==
    ASSUME OneAccountInv, UNCHANGED <<kind, works, settled>>, disk[Active] # Nothing => disk'[Active] # Nothing,
           \A c \in Commands : MaySend(c)' => MaySend(c) /\ token'[c] = token[c]
    PROVE  OneAccountInv'
BY DEF OneAccountInv, Done

\* A reservation of a bootstrap may be sent only if there is no account, and of those
\* that were created all but its own would be shown.
LEMMA ReservedIsFirst ==
    ASSUME CommandInv, CommandInv', PendingInv', ConnectionInv, OneAccountInv, kind = "bootstrap",
           NEW c \in Commands, at[c] = "reserving", inside[c] = "in",
           local[c][Active] = Nothing, UNCHANGED <<works, settled>>,
           NEW t \in Tokens, t <= minted', t \notin settled, minted' >= minted
    PROVE  Done \subseteq {t}
<1>1. disk[Active] = Nothing
  BY DEF ConnectionInv, Connects
<1>2. SUFFICES ASSUME NEW u \in Done PROVE u = t
  OBVIOUS
<1>3. u \notin settled
  BY <1>1, <1>2 DEF OneAccountInv
<1>4. u \in Tokens /\ u <= minted
  BY <1>2 DEF Done, CommandInv, RecordInv
<1>5. u \in Pending' /\ t \in Pending'
  <2>1. minted \in Nat /\ minted' \in Nat
    BY Constants DEF CommandInv, CommandTypes
  <2> QED BY <1>3, <1>4, <2>1 DEF Pending, Tokens
<1> QED BY <1>5 DEF PendingInv

LEMMA OneAccountStep ==
    ASSUME CommandInv, CommandInv', PendingInv, PendingInv', PlaceInv, AnswerInv, ConnectionInv, OneAccountInv,
           disk[Active] # Nothing => disk'[Active] # Nothing, NEW c \in Commands,
           Start(c) \/ Works(c) \/ TimeOut(c) \/ Refuse(c) \/ Lose(c) \/ Kill(c)
    PROVE  OneAccountInv'
<1> USE UnderwayPlaces
<1>1. CASE Start(c)
  <2>1. /\ at'[c] \in {"ended", "reserving"} /\ inside'[c] = "out" /\ UNCHANGED <<kind, works, settled>>
        /\ \A d \in Commands \ {c} : at'[d] = at[d] /\ local'[d] = local[d] /\ token'[d] = token[d] /\ inside'[d] = inside[d]
    BY <1>1, Shapes, StartState DEF Start, Read, Goes, CommandInv, LockInv
  <2> QED BY <2>1, AccountStays DEF MaySend
<1>2. CASE EnterLock(c)
  <2>1. UNCHANGED <<kind, at, token, works, settled>> /\ inside' = [inside EXCEPT ![c] = "in"]
    BY <1>2 DEF EnterLock, Enter, clientVars, serverVars
  <2>2. inside'[c] = "in" /\ \A d \in Commands \ {c} : local'[d] = local[d] /\ inside'[d] = inside[d]
    BY <1>2, <2>1, EnterState, Shapes
  <2> QED BY <2>1, <2>2, AccountStays DEF MaySend
<1>3. CASE BreakLock(c)
  <2>1. UNCHANGED <<kind, at, token, works, settled, inside, local>>
    BY <1>3, Zenon DEF BreakLock, Judge, Confirm, Remove, clientVars, serverVars
  <2> QED BY <2>1, AccountStays DEF MaySend
<1>4. CASE Adopt(c) \/ Claim(c)
  <2>1. /\ UNCHANGED <<kind, at, works, settled>> /\ at[c] = "reserving" /\ inside[c] = "in"
        /\ inside' = [inside EXCEPT ![c] = "written"]
        /\ minted' = minted \/ minted' = minted + 1
    BY <1>4 DEF Adopt, Claim, Kept, Written, serverVars
  <2>2. \A d \in Commands \ {c} : local'[d] = local[d]
    <3>1. CASE Adopt(c)
      BY <3>1 DEF Adopt, Kept
    <3>2. CASE Claim(c)
      BY <3>2, ClaimDraws, WrittenState
    <3> QED BY <1>4, <3>1, <3>2
  <2>3. inside'[c] = "written" /\ \A d \in Commands \ {c} : token'[d] = token[d] /\ inside'[d] = inside[d]
    <3>1. inside \in [Commands -> {"out", "in", "written"}] /\ token \in [Commands -> Tokens]
      BY Shapes
    <3>2. PICK t : token' = [token EXCEPT ![c] = t]
      BY <1>4 DEF Adopt, Claim
    <3>3. \A d \in Commands \ {c} : token'[d] = token[d]
      BY <3>1, <3>2
    <3>4. inside'[c] = "written" /\ \A d \in Commands \ {c} : inside'[d] = inside[d]
      BY <2>1, <3>1
    <3> QED BY <3>3, <3>4
  <2>4. local'[c][Active] = Nothing => local[c][Active] = Nothing
    <3>1. CASE Adopt(c)
      BY <3>1 DEF Adopt, Kept
    <3>2. CASE Claim(c)
      <4>1. PICK held : IsState(held) /\ Written(c, held) /\ held[Active] = local[c][Active]
        BY <3>2, ClaimDraws
      <4> QED BY <4>1, ConnectionStays
    <3> QED BY <1>4, <3>1, <3>2
  <2>5. /\ token'[c] \in Tokens /\ token'[c] <= minted'
    <3>1. token'[c] \in Tokens
      BY DEF CommandInv, CommandTypes
    <3>3. HasToken(c)'
      BY <2>1, <2>3 DEF HasToken
    <3> QED BY <3>1, <3>3 DEF CommandInv, TokenInv
  <2>6. ASSUME kind = "bootstrap" PROVE OneAccountInv'
    <3>1. \A t \in Done' \cap settled' : disk'[Active] # Nothing
      BY <2>1, <2>6 DEF OneAccountInv, Done
    <3>2. \A t, u \in Done' : t = u
      BY <2>1, <2>6 DEF OneAccountInv, Done
    <3>3. ASSUME NEW d \in Commands, MaySend(d)', token'[d] \notin settled' PROVE Done' \subseteq {token'[d]}
      <4>1. CASE d = c
        <5>1. local[c][Active] = Nothing
          BY <2>1, <2>4, <3>3, <4>1 DEF MaySend
        <5>2. minted' >= minted
          BY <2>1, Shapes, Constants
        <5>3. PICK t \in Tokens : t = token'[c]
          BY <2>5
        <5>4. Done \subseteq {t}
          BY <2>1, <2>5, <2>6, <3>3, <4>1, <5>1, <5>2, <5>3, ReservedIsFirst
        <5> QED BY <2>1, <4>1, <5>3, <5>4 DEF Done
      <4>2. CASE d # c
        BY <2>1, <2>2, <2>3, <2>6, <3>3, <4>2 DEF OneAccountInv, MaySend, Done
      <4> QED BY <4>1, <4>2
    <3> QED BY <3>1, <3>2, <3>3 DEF OneAccountInv
  <2> QED BY <2>1, <2>6 DEF OneAccountInv
<1>5. CASE Save(c)
  <2>1. /\ UNCHANGED <<kind, at, token, works, settled>> /\ at[c] \in Writing \ {"reserving"}
        /\ Written(c, local[c]) /\ IsState(local[c])
    BY <1>5, Shapes DEF Save, serverVars
  <2>2. \A d \in Commands \ {c} : local'[d] = local[d] /\ inside'[d] = inside[d]
    BY <2>1, WrittenState, Shapes
  <2> QED BY <2>1, <2>2, AccountStays DEF MaySend
<1>6. CASE LeaveLock(c)
  <2>1. /\ UNCHANGED <<kind, token, works, settled, local>> /\ inside[c] = "written"
        /\ at'[c] = After(c) /\ at[c] \in Writing
        /\ \A d \in Commands \ {c} : at'[d] = at[d] /\ inside'[d] = inside[d]
    BY <1>6, Shapes DEF LeaveLock, Leave, Goes, CommandInv, LockInv, serverVars
  <2>2. WellPlaced(c)
    BY DEF PlaceInv
  <2>3. After(c) # "reserving" /\ After(c) # "running"
    BY <2>1 DEF After
  <2>4. After(c) = "sending" /\ kind = "bootstrap" => at[c] = "reserving" /\ local[c][Active] = Nothing
    BY <2>1, <2>2 DEF After, Overtaken, WellPlaced
  <2>5. kind = "bootstrap" => \A d \in Commands : MaySend(d)' => MaySend(d)
    BY <2>1, <2>3, <2>4 DEF MaySend
  <2>6. CASE kind = "bootstrap"
    BY <2>1, <2>5, <2>6, AccountStays
  <2>7. CASE kind # "bootstrap"
    BY <2>1, <2>7 DEF OneAccountInv
  <2> QED BY <2>6, <2>7
<1>7. CASE OpenOutput(c) \/ Store(c)
  <2>1. kind' = kind /\ at[c] \in {"opening", "answered"} /\ (at[c] = "opening" \/ kind = "key")
    BY <1>7 DEF OpenOutput, Store
  <2>2. kind = "key"
    BY <2>1 DEF PlaceInv, WellPlaced
  <2> QED BY <2>1, <2>2 DEF OneAccountInv
<1>8. CASE Open(c)
  <2>1. PICK p \in {"answered", "running"} : at' = [at EXCEPT ![c] = p]
    BY <1>8 DEF Open, Goes
  <2>2. UNCHANGED <<kind, token, works, settled, local, inside>> /\ at[c] = "sending"
    BY <1>8 DEF Open, storeVars
  <2>3. at'[c] = p /\ \A d \in Commands \ {c} : at'[d] = at[d]
    BY <2>1, Shapes
  <2> QED BY <2>2, <2>3, AccountStays DEF MaySend
<1>9. CASE Run(c)
  <2>1. /\ token[c] \notin settled \/ token[c] \in Done
        /\ Done' = Done \cup {token[c]} /\ UNCHANGED <<kind, token, settled, local, inside, disk>>
        /\ at[c] = "running" /\ at'[c] = "answered" /\ \A d \in Commands \ {c} : at'[d] = at[d]
    BY <1>9, RunState, Shapes DEF storeVars
  <2>2. MaySend(c) /\ \A d \in Commands : MaySend(d)' => MaySend(d)
    BY <2>1 DEF MaySend
  <2>3. ASSUME kind = "bootstrap" PROVE OneAccountInv'
    <3>1. CASE token[c] \in Done
      <4>1. Done' = Done
        BY <2>1, <3>1
      <4> QED BY <2>1, <2>2, <2>3, <4>1 DEF OneAccountInv
    <3>2. CASE token[c] \notin Done
      <4>1. token[c] \notin settled /\ Done = {}
        BY <2>1, <2>2, <2>3, <3>2 DEF OneAccountInv
      <4>2. Done' = {token[c]}
        BY <2>1, <4>1
      <4>3. ASSUME NEW d \in Commands, MaySend(d)', token[d] \notin settled PROVE token[c] = token[d]
        <5>1. HasToken(c) /\ HasToken(d)
          BY <2>2, <4>3 DEF MaySend, HasToken
        <5>2. token[c] \in Pending /\ token[d] \in Pending
          BY <4>1, <4>3, <5>1, Shapes, Constants DEF CommandInv, TokenInv, Pending, Tokens
        <5> QED BY <5>2 DEF PendingInv
      <4>4. Done' \cap settled' = {}
        BY <2>1, <4>1, <4>2
      <4> QED BY <2>1, <2>3, <4>2, <4>3, <4>4 DEF OneAccountInv
    <3> QED BY <3>1, <3>2
  <2> QED BY <2>1, <2>3 DEF OneAccountInv
<1>10. CASE Refuse(c) \/ Lose(c) \/ TimeOut(c) \/ Kill(c)
  <2>1. PICK p \in {"answered", "ended", "kept"} : at' = [at EXCEPT ![c] = p]
    BY <1>10 DEF Refuse, Lose, TimeOut, Kill, Goes
  <2>2. UNCHANGED <<kind, token, works, settled, local>> /\ (inside' = inside \/ inside' = [inside EXCEPT ![c] = "out"])
    BY <1>10 DEF Refuse, Lose, TimeOut, Kill, Killed, storeVars, serverVars
  <2>3. at'[c] = p /\ \A d \in Commands \ {c} : at'[d] = at[d] /\ inside'[d] = inside[d]
    BY <2>1, <2>2, Shapes
  <2> QED BY <2>2, <2>3, AccountStays DEF MaySend
<1>11. CASE GiveUp(c) \/ Printed(c) \/ (Answered(c) /\ kind = "plain")
  <2>1. PICK p \in {"forgetting", "releasing"} : Settles(c, p, local[c])
    BY <1>11 DEF GiveUp, Printed, Answered
  <2>2. /\ settled' = settled \cup {token[c]} /\ at'[c] = p /\ UNCHANGED <<disk, inside>>
        /\ \A d \in Commands \ {c} : local'[d] = local[d] /\ at'[d] = at[d]
    BY <2>1, SettlesState, Shapes
  <2>3. UNCHANGED <<kind, token, works>>
    BY <1>11 DEF GiveUp, Printed, Answered, serverVars
  <2>4. kind = "bootstrap" => (token[c] \in Done => disk[Active] # Nothing)
    <3>1. CASE GiveUp(c)
      BY <3>1 DEF GiveUp, AnswerInv, RightlyAnswered
    <3>2. CASE Printed(c)
      BY <3>2 DEF Printed, ConnectionInv, Connects
    <3> QED BY <1>11, <3>1, <3>2
  <2>5. \A d \in Commands : MaySend(d)' => MaySend(d)
    BY <2>2 DEF MaySend
  <2> QED BY <2>2, <2>3, <2>4, <2>5 DEF OneAccountInv, Done
<1>12. CASE Answered(c) /\ kind # "plain"
  <2>1. /\ UNCHANGED <<kind, inside, works, token, settled>> /\ at' = [at EXCEPT ![c] = "selecting"]
        /\ \A d \in Commands \ {c} : local'[d] = local[d]
    BY <1>12, Shapes DEF Answered, Goes, serverVars
  <2>2. at'[c] = "selecting" /\ \A d \in Commands \ {c} : at'[d] = at[d]
    BY <2>1, Shapes
  <2> QED BY <2>1, <2>2, AccountStays DEF MaySend
<1> QED
  BY <1>1, <1>2, <1>3, <1>4, <1>5, <1>6, <1>7, <1>8, <1>9, <1>10, <1>11, <1>12 DEF Works

-----------------------------------------------------------------------------
\* Where the records of a step come from: a file, a state, or a reservation.
Sources(t) ==
    {Nothing, Fresh, disk[t]} \cup {local[d][t] : d \in Commands} \cup {baseline[d][t] : d \in Commands}

\* The steps that neither create a file nor put a key into one.
Elsewhere(c) ==
    \/ Start(c) \/ EnterLock(c) \/ BreakLock(c) \/ Adopt(c) \/ Claim(c) \/ Save(c) \/ LeaveLock(c)
    \/ TimeOut(c) \/ (OpenOutput(c) /\ OpensAgain(c)) \/ Open(c) \/ Run(c) \/ Refuse(c) \/ Lose(c)
    \/ GiveUp(c) \/ Answered(c) \/ Printed(c) \/ Kill(c)

LEMMA StepKinds ==
    ASSUME NEW c \in Commands,
           Start(c) \/ Works(c) \/ TimeOut(c) \/ Refuse(c) \/ Lose(c) \/ Kill(c)
    PROVE  Elsewhere(c) \/ (OpenOutput(c) /\ Creates(c)) \/ Store(c)
BY OpensOrCreates DEF Works, Elsewhere

LEMMA SourcesAre ==
    ASSUME NEW t
    PROVE  /\ Nothing \in Sources(t) /\ Fresh \in Sources(t) /\ disk[t] \in Sources(t)
           /\ \A d \in Commands : local[d][t] \in Sources(t) /\ baseline[d][t] \in Sources(t)
BY DEF Sources

LEMMA RecordsCome ==
    ASSUME CommandInv, NEW c \in Commands, Elsewhere(c), NEW t \in Tokens
    PROVE  /\ disk'[t] \in Sources(t)
           /\ \A d \in Commands : local'[d][t] \in Sources(t) /\ baseline'[d][t] \in Sources(t)
<1> USE SourcesAre
<1>1. CASE Start(c)
  <2>1. /\ disk' = disk /\ local'[c] = disk /\ baseline'[c] = disk
        /\ \A d \in Commands \ {c} : local'[d] = local[d] /\ baseline'[d] = baseline[d]
    BY <1>1, StartState DEF Start, Read
  <2> QED BY <2>1
<1>2. CASE EnterLock(c)
  <2>1. UNCHANGED <<disk, baseline>>
    BY <1>2 DEF EnterLock, Enter
  <2>2. /\ \A d \in Commands \ {c} : local'[d] = local[d]
        /\ local'[c][t] = local[c][t] \/ local'[c][t] = disk[t]
    BY <1>2, EnterState
  <2> QED BY <2>1, <2>2
<1>3. CASE Claim(c)
  <2>1. PICK held : /\ IsState(held) /\ Written(c, held) /\ held[minted'] = Fresh
                    /\ \A u \in Tokens \ {minted'} : held[u] = local[c][u]
    BY <1>3, ClaimDraws
  <2>2. /\ \A d \in Commands \ {c} : local'[d] = local[d] /\ baseline'[d] = baseline[d]
        /\ disk'[t] = (IF held[t] # baseline[c][t] THEN held[t] ELSE disk[t])
        /\ local'[c][t] = disk'[t] /\ baseline'[c][t] = disk'[t]
    BY <2>1, WrittenState
  <2>3. held[t] = Fresh \/ held[t] = local[c][t]
    BY <2>1
  <2> QED BY <2>2, <2>3
<1>4. CASE Save(c)
  <2>1. Written(c, local[c]) /\ IsState(local[c])
    BY <1>4, Shapes DEF Save
  <2>2. /\ \A d \in Commands \ {c} : local'[d] = local[d] /\ baseline'[d] = baseline[d]
        /\ disk'[t] = (IF local[c][t] # baseline[c][t] THEN local[c][t] ELSE disk[t])
        /\ local'[c][t] = disk'[t] /\ baseline'[c][t] = disk'[t]
    BY <2>1, WrittenState
  <2> QED BY <2>2
<1>5. CASE UNCHANGED <<disk, local, baseline>>
  BY <1>5
<1>6. CASE Settles(c, "releasing", local[c]) \/ Settles(c, "forgetting", local[c])
  <2>1. PICK p : Settles(c, p, local[c])
    BY <1>6
  <2>2. /\ UNCHANGED <<disk, baseline>> /\ local'[c][token[c]] = Nothing
        /\ \A u \in Tokens \ {token[c]} : local'[c][u] = local[c][u]
        /\ \A d \in Commands \ {c} : local'[d] = local[d]
    BY <2>1, SettlesState
  <2> QED BY <2>2
<1>7. CASE Answered(c) /\ kind # "plain"
  <2>1. UNCHANGED <<disk, baseline>>
    BY <1>7 DEF Answered
  <2>2. local'[c][t] = local[c][t] /\ \A d \in Commands \ {c} : local'[d] = local[d]
    BY <1>7, SelectsState
  <2> QED BY <2>1, <2>2
<1>8. BreakLock(c) \/ Adopt(c) \/ LeaveLock(c) \/ TimeOut(c) \/ Open(c) \/ Run(c) \/ Refuse(c) \/ Lose(c) \/ Kill(c) =>
         UNCHANGED <<disk, local, baseline>>
  BY Zenon DEF BreakLock, Judge, Confirm, Remove, Adopt, Kept, LeaveLock, TimeOut, Open, Run, Refuse, Lose, Kill,
               Killed, storeVars
<1>9. OpensAgain(c) => UNCHANGED <<disk, local, baseline>> \/ Settles(c, "releasing", local[c])
  BY DEF OpensAgain, storeVars
<1>10. (Answered(c) /\ kind = "plain") \/ GiveUp(c) \/ Printed(c) =>
         Settles(c, "releasing", local[c]) \/ Settles(c, "forgetting", local[c])
  BY DEF Answered, GiveUp, Printed
<1> QED BY <1>1, <1>2, <1>3, <1>4, <1>5, <1>6, <1>7, <1>8, <1>9, <1>10 DEF Elsewhere

\* The only change to a key file there is that one still empty is released, with its
\* operation settled.
Releases(c, f) ==
    /\ f = out[c] /\ file[f] = Reserved /\ file'[f] = Gone /\ token[c] \in settled
    /\ UNCHANGED <<token, out, settled>>

LEMMA ReleasedFile ==
    ASSUME CommandInv, PlaceInv, NEW c \in Commands, at[c] \in Underway, Closes(c), UNCHANGED <<token, out, settled>>
    PROVE  /\ Len(file') = Len(file)
           /\ \A f \in DOMAIN file : file'[f] = file[f] \/ Releases(c, f)
<1>1. file \in Seq(Content) /\ Gone \in Content
  BY DEF CommandInv, CommandTypes, Content
<1>2. CASE file' = file
  BY <1>2
<1>3. CASE file' # file
  <2>1. /\ local[c][token[c]] = Nothing /\ file[out[c]] = Reserved
        /\ file' = [file EXCEPT ![out[c]] = Gone]
    BY <1>3 DEF Closes
  <2>2. token[c] \in settled
    BY <2>1 DEF PlaceInv, WellPlaced
  <2>3. Len(file') = Len(file)
    BY <1>1, <2>1
  <2>4. \A f \in DOMAIN file : file'[f] = IF f = out[c] THEN Gone ELSE file[f]
    BY <1>1, <2>1
  <2> QED BY <2>1, <2>2, <2>3, <2>4 DEF Releases
<1> QED BY <1>2, <1>3

LEMMA FilesElsewhere ==
    ASSUME CommandInv, PlaceInv, NEW c \in Commands, Elsewhere(c)
    PROVE  /\ Len(file') = Len(file) /\ DOMAIN file' = DOMAIN file
           /\ \A f \in DOMAIN file : file'[f] = file[f] \/ Releases(c, f)
<1> USE UnderwayPlaces
<1>1. file' = file \/ (Closes(c) /\ at[c] \in Underway /\ UNCHANGED <<token, out, settled>>)
  <2>1. LeaveLock(c) \/ TimeOut(c) \/ Lose(c) =>
           file' = file \/ (Closes(c) /\ at[c] \in Underway /\ UNCHANGED <<token, out, settled>>)
    BY DEF LeaveLock, TimeOut, Lose
  <2>2. Start(c) \/ EnterLock(c) \/ BreakLock(c) \/ Adopt(c) \/ Claim(c) \/ Save(c) \/ OpensAgain(c) \/ Open(c) \/ Run(c)
        \/ Refuse(c) \/ GiveUp(c) \/ Answered(c) \/ Printed(c) \/ Kill(c) => file' = file
    BY DEF Start, EnterLock, BreakLock, Adopt, Claim, Save, OpensAgain, Open, Run, Refuse, GiveUp, Answered, Printed, Kill
  <2> QED BY <2>1, <2>2 DEF Elsewhere
<1>2. CASE file' = file
  BY <1>2
<1>3. CASE Closes(c) /\ at[c] \in Underway /\ UNCHANGED <<token, out, settled>>
  <2>1. /\ Len(file') = Len(file)
        /\ \A f \in DOMAIN file : file'[f] = file[f] \/ Releases(c, f)
    BY <1>3, ReleasedFile
  <2>2. DOMAIN file' = DOMAIN file
    BY <1>3 DEF Closes
  <2> QED BY <2>1, <2>2
<1> QED BY <1>1, <1>2, <1>3

LEMMA SourcesNamed ==
    ASSUME NEW t \in Tokens, NEW r \in Sources(t), r # Nothing, NEW f \in Files, r.output = f
    PROVE  IsOf(f, t)
<1>1. Fresh.output \notin Files
  BY DEF Fresh, Files, NoFile
<1>2. CASE r = disk[t]
  BY <1>2 DEF IsOf, Names
<1>3. CASE \E d \in Commands : r = local[d][t] \/ r = baseline[d][t]
  BY <1>3 DEF IsOf, Names
<1> QED BY <1>1, <1>2, <1>3 DEF Sources

LEMMA OutsElsewhere ==
    ASSUME CommandInv, PlaceInv, NEW c \in Commands, Elsewhere(c), NEW d \in Commands, out'[d] \in Files
    PROVE  IsOf(out'[d], token'[d])
<1>0. NoFile \notin Files /\ (d # c => token'[d] = token[d] /\ out'[d] = out[d])
  <2>1. NoFile \notin Files
    BY DEF NoFile, Files
  <2>2. (token' = token \/ \E t : token' = [token EXCEPT ![c] = t]) /\ (out' = out \/ \E f : out' = [out EXCEPT ![c] = f])
    BY Zenon DEF Elsewhere, Start, EnterLock, BreakLock, Adopt, Claim, Save, LeaveLock, TimeOut, OpenOutput, OpensAgain, Open,
       Run, Refuse, Lose, GiveUp, Answered, Printed, Kill, clientVars
  <2> QED BY <2>1, <2>2, Shapes
<1>1. CASE UNCHANGED <<token, out>>
  BY <1>1 DEF IsOf
<1>2. CASE d # c
  BY <1>0, <1>2 DEF IsOf
<1>3. CASE d = c /\ (Start(c) \/ Adopt(c) \/ Claim(c))
  <2>1. out'[c] = NoFile
    BY <1>3, Shapes DEF Start, Adopt, Claim, PlaceInv, WellPlaced
  <2> QED BY <1>0, <1>3, <2>1
<1>4. CASE d = c /\ OpenOutput(c) /\ OpensAgain(c)
  <2>1. token' = token /\ (out' = out \/ out' = [out EXCEPT ![c] = local[c][token[c]].output])
    BY <1>4, Zenon DEF OpenOutput, OpensAgain
  <2>2. local[c][token[c]] # Nothing
    BY <1>4 DEF OpenOutput, CommandInv, TokenInv, HasToken
  <2>3. out'[c] = out[c] \/ out'[c] = local[c][token[c]].output
    BY <2>1, Shapes
  <2> QED BY <1>4, <2>1, <2>2, <2>3 DEF IsOf, Names
<1>5. EnterLock(c) \/ BreakLock(c) \/ Save(c) \/ LeaveLock(c) \/ TimeOut(c) \/ Open(c) \/ Run(c) \/ Refuse(c) \/ Lose(c)
      \/ GiveUp(c) \/ Answered(c) \/ Printed(c) \/ Kill(c) => UNCHANGED <<token, out>>
  BY Zenon DEF EnterLock, BreakLock, Save, LeaveLock, TimeOut, Open, Run, Refuse, Lose, GiveUp, Answered, Printed, Kill,
     clientVars
<1> QED BY <1>1, <1>2, <1>3, <1>4, <1>5 DEF Elsewhere

\* A step that gives no file to another operation.
LEMMA OwnersShrink ==
    ASSUME OwnerInv, Len(file') = Len(file), \A f \in Files, t \in Tokens : IsOf(f, t)' => IsOf(f, t)
    PROVE  OwnerInv'
BY DEF OwnerInv

LEMMA OwnersElsewhere ==
    ASSUME CommandInv, PlaceInv, OwnerInv, NEW c \in Commands, Elsewhere(c)
    PROVE  OwnerInv'
<1>1. Len(file') = Len(file) /\ DOMAIN file' = DOMAIN file
      /\ \A f \in DOMAIN file : file'[f] = file[f] \/ Releases(c, f)
  BY FilesElsewhere
<1>2. ASSUME NEW f \in Files, NEW t \in Tokens, IsOf(f, t)' PROVE IsOf(f, t)
  <2>1. ASSUME NEW d \in Commands, out'[d] = f, token'[d] = t PROVE IsOf(f, t)
    BY <2>1, OutsElsewhere
  <2>2. ASSUME NEW d \in Commands, local'[d][t] # Nothing, local'[d][t].output = f PROVE IsOf(f, t)
    BY <2>2, RecordsCome, SourcesNamed
  <2>3. ASSUME NEW d \in Commands, baseline'[d][t] # Nothing, baseline'[d][t].output = f PROVE IsOf(f, t)
    BY <2>3, RecordsCome, SourcesNamed
  <2>4. ASSUME disk'[t] # Nothing, disk'[t].output = f PROVE IsOf(f, t)
    BY <2>4, RecordsCome, SourcesNamed
  <2>5. ASSUME f \in DOMAIN file', file'[f] = t PROVE IsOf(f, t)
    <3>1. Gone \notin Tokens
      BY DEF Gone, Tokens
    <3>2. f \in DOMAIN file /\ file[f] = t
      BY <1>1, <2>5, <3>1 DEF Releases
    <3> QED BY <3>2 DEF IsOf
  <2> QED BY <1>2, <2>1, <2>2, <2>3, <2>4, <2>5 DEF IsOf, Names
<1> QED BY <1>1, <1>2, OwnersShrink

\* A key goes into its own command's file.
LEMMA StoredFile ==
    ASSUME CommandInv, PlaceInv, OwnerInv, NEW c \in Commands, Store(c)
    PROVE  /\ out[c] \in DOMAIN file /\ DOMAIN file' = DOMAIN file /\ Len(file') = Len(file)
           /\ \A f \in DOMAIN file : file'[f] = IF f = out[c] /\ file[f] # Gone THEN token[c] ELSE file[f]
           /\ UNCHANGED <<token, out, disk, baseline>>
<1>1. /\ file \in Seq(Content) /\ token[c] \in Tokens /\ out[c] \in Files \cup {NoFile} /\ out[c] # NoFile
  BY Shapes DEF CommandInv, CommandTypes, Store, PlaceInv, WellPlaced
<1>2. out[c] <= Len(file)
  <2>1. IsOf(out[c], token[c])
    BY DEF IsOf
  <2> QED BY <1>1, <2>1 DEF OwnerInv
<1>3. out[c] \in DOMAIN file
  BY <1>1, <1>2, Constants DEF Files
<1>4. file' = IF file[out[c]] = Gone THEN file ELSE [file EXCEPT ![out[c]] = token[c]]
  BY DEF Store
<1>5. Len(file') = Len(file) /\ DOMAIN file' = DOMAIN file
  BY <1>1, <1>4
<1>6. \A f \in DOMAIN file : file'[f] = IF f = out[c] /\ file[f] # Gone THEN token[c] ELSE file[f]
  BY <1>1, <1>3, <1>4
<1> QED BY <1>3, <1>5, <1>6 DEF Store

LEMMA OwnersOfStored ==
    ASSUME CommandInv, PlaceInv, OwnerInv, NEW c \in Commands, Store(c)
    PROVE  OwnerInv'
<1>1. /\ out[c] \in DOMAIN file /\ DOMAIN file' = DOMAIN file /\ Len(file') = Len(file)
      /\ \A f \in DOMAIN file : file'[f] = IF f = out[c] /\ file[f] # Gone THEN token[c] ELSE file[f]
      /\ UNCHANGED <<token, out, disk, baseline>>
  BY StoredFile
<1>2. ASSUME NEW f \in Files, NEW t \in Tokens, IsOf(f, t)' PROVE IsOf(f, t)
  <2>1. ASSUME NEW d \in Commands, local'[d][t] # Nothing, local'[d][t].output = f
        PROVE  local[d][t] # Nothing /\ local[d][t].output = f
    BY <2>1, StoreState
  <2>2. ASSUME f \in DOMAIN file', file'[f] = t PROVE IsOf(f, t)
    BY <1>1, <2>2 DEF IsOf
  <2> QED BY <1>1, <1>2, <2>1, <2>2 DEF IsOf, Names
<1> QED BY <1>1, <1>2, OwnersShrink

LEMMA OwnersOfCreated ==
    ASSUME CommandInv, OwnerInv, NEW c \in Commands, OpenOutput(c), Creates(c)
    PROVE  OwnerInv'
<1> DEFINE n == Len(file) + 1
<1>0. at[c] = "opening" /\ UNCHANGED token
  BY DEF OpenOutput
<1>1. /\ file' = Append(file, Reserved) /\ Len(file') = n /\ n \in Files
      /\ out' = [out EXCEPT ![c] = n] /\ n # NoFile
      /\ local'[c][token[c]] # Nothing /\ local'[c][token[c]].output = n
      /\ \A t \in Tokens \ {token[c]} : local'[c][t] = local[c][t]
      /\ \A d \in Commands \ {c} : local'[d] = local[d]
      /\ UNCHANGED <<disk, inside, baseline, settled>>
  BY <1>0, CreatesState
<1>2. file \in Seq(Content) /\ Reserved \notin Tokens /\ Len(file) \in Nat
  BY DEF CommandInv, CommandTypes, Reserved, Tokens
<1>3. \A f \in Files, t \in Tokens : IsOf(f, t) => f <= Len(file)
  BY DEF OwnerInv
<1>4. out'[c] = n /\ \A d \in Commands \ {c} : out'[d] = out[d]
  BY <1>1, Shapes
<1>5. DOMAIN file' = 1 .. n /\ file'[n] = Reserved /\ \A f \in 1 .. Len(file) : file'[f] = file[f]
  BY <1>1, <1>2
<1>6. ASSUME NEW f \in Files, NEW t \in Tokens, IsOf(f, t)' PROVE IsOf(f, t) \/ (f = n /\ t = token[c])
  <2>1. ASSUME NEW d \in Commands, out'[d] = f, token'[d] = t PROVE IsOf(f, t) \/ (f = n /\ t = token[c])
    BY <1>0, <1>4, <2>1 DEF IsOf
  <2>2. ASSUME NEW d \in Commands, local'[d][t] # Nothing, local'[d][t].output = f
        PROVE  IsOf(f, t) \/ (f = n /\ t = token[c])
    BY <1>1, <2>2 DEF IsOf, Names
  <2>3. ASSUME f \in DOMAIN file', file'[f] = t PROVE IsOf(f, t)
    <3>1. f \in 1 .. Len(file) /\ file[f] = t
      BY <1>1, <1>2, <1>5, <2>3
    <3>2. f \in DOMAIN file
      BY <1>2, <3>1
    <3> QED BY <3>1, <3>2 DEF IsOf
  <2> QED BY <1>1, <1>6, <2>1, <2>2, <2>3 DEF IsOf, Names
<1>7. \A f \in Files, t \in Tokens : IsOf(f, t) => f <= Len(file) /\ f # n
  <2>1. \A f \in Files : f <= Len(file) => f # n
    BY <1>2 DEF Files
  <2> QED BY <1>3, <2>1
<1> HIDE DEF n
<1>8. ASSUME NEW f \in Files, NEW t \in Tokens, IsOf(f, t)' PROVE f <= n /\ \A u \in Tokens : IsOf(f, u)' => u = t
  <2>1. f <= n
    <3>1. f \in Int /\ (f <= Len(file) \/ f = n)
      BY <1>3, <1>6, <1>8 DEF Files
    <3> QED BY <1>2, <3>1 DEF n
  <2>2. ASSUME NEW u \in Tokens, IsOf(f, u)' PROVE u = t
    <3>1. (IsOf(f, t) \/ (f = n /\ t = token[c])) /\ (IsOf(f, u) \/ (f = n /\ u = token[c]))
      BY <1>6, <1>8, <2>2
    <3> QED BY <1>7, <3>1 DEF OwnerInv
  <2> QED BY <2>1, <2>2
<1> QED BY <1>1, <1>8 DEF OwnerInv

LEMMA OwnersStep ==
    ASSUME CommandInv, PlaceInv, OwnerInv, NEW c \in Commands,
           Start(c) \/ Works(c) \/ TimeOut(c) \/ Refuse(c) \/ Lose(c) \/ Kill(c)
    PROVE  OwnerInv'
BY StepKinds, OwnersElsewhere, OwnersOfStored, OwnersOfCreated

-----------------------------------------------------------------------------
\* A key stays in the file that holds it.
LEMMA KeysStay ==
    ASSUME CommandInv, PlaceInv, OwnerInv, NEW c \in Commands,
           Start(c) \/ Works(c) \/ TimeOut(c) \/ Refuse(c) \/ Lose(c) \/ Kill(c), NEW t \in Tokens, KeyIn(t)
    PROVE  KeyIn(t)'
<1>1. PICK f \in DOMAIN file : file[f] = t
  BY DEF KeyIn
<1>2. file \in Seq(Content) /\ t # Reserved /\ Len(file) <= MaxFile
  BY DEF CommandInv, CommandTypes, Reserved, Tokens
<1>3. CASE Elsewhere(c)
  <2>1. DOMAIN file' = DOMAIN file /\ (file'[f] = file[f] \/ Releases(c, f))
    BY <1>1, <1>3, FilesElsewhere
  <2> QED BY <1>1, <1>2, <2>1 DEF Releases, KeyIn
<1>4. CASE OpenOutput(c) /\ Creates(c)
  <2>1. file' = Append(file, Reserved)
    BY <1>4 DEF Creates
  <2>2. f \in DOMAIN file' /\ file'[f] = file[f]
    BY <1>1, <1>2, <2>1 DEF Content
  <2> QED BY <1>1, <2>2 DEF KeyIn
<1>5. CASE Store(c)
  <2>1. /\ out[c] \in DOMAIN file /\ DOMAIN file' = DOMAIN file
        /\ \A g \in DOMAIN file : file'[g] = IF g = out[c] /\ file[g] # Gone THEN token[c] ELSE file[g]
    BY <1>5, StoredFile
  <2>2. f = out[c] => token[c] = t
    <3>1. SUFFICES ASSUME f = out[c] PROVE token[c] = t
      OBVIOUS
    <3>2. f \in Files /\ token[c] \in Tokens
      BY <1>1, <1>2, Shapes, Constants DEF Files
    <3>3. IsOf(f, t) /\ IsOf(f, token[c])
      BY <1>1, <3>1 DEF IsOf
    <3> QED BY <3>2, <3>3 DEF OwnerInv
  <2> QED BY <1>1, <2>1, <2>2 DEF KeyIn
<1> QED BY <1>3, <1>4, <1>5, StepKinds

LEMMA SourcesSay ==
    ASSUME FileInv, kind = "key", NEW t \in Tokens, NEW r \in Sources(t), r # Nothing, r.done
    PROVE  KeyIn(t)
<1>1. ~Fresh.done
  BY DEF Fresh
<1> QED BY <1>1 DEF Sources, FileInv, Says

\* What a command that is not storing a key says is done is in a file already.
LEMMA SaidElsewhere ==
    ASSUME CommandInv, PlaceInv, OwnerInv, FileInv, kind = "key", NEW c \in Commands, Elsewhere(c), NEW t \in Tokens
    PROVE  /\ Says(disk', t) => KeyIn(t)
           /\ \A d \in Commands : Says(local'[d], t) \/ Says(baseline'[d], t) => KeyIn(t)
BY RecordsCome, SourcesSay DEF Says

\* No operation is settled while its key can still be answered and is in no file.
LEMMA SettledKeys ==
    ASSUME CommandInv, PlaceInv, AnswerInv, OwnerInv, FileInv, kind = "key", NEW c \in Commands,
           Start(c) \/ Works(c) \/ TimeOut(c) \/ Refuse(c) \/ Lose(c) \/ Kill(c),
           NEW t \in Tokens, t \in settled'
    PROVE  KeyIn(t)' \/ t \notin Done' \/ t \notin sealed'
<1>1. KeyIn(t) => KeyIn(t)'
  BY KeysStay
<1>2. CASE t \in settled
  <2>1. KeyIn(t) \/ t \notin Done \/ t \notin sealed
    BY <1>2 DEF FileInv
  <2>2. CASE Run(c)
    BY <1>1, <1>2, <2>1, <2>2, RunState
  <2>3. CASE UNCHANGED <<works, sealed>>
    BY <1>1, <2>1, <2>3 DEF Done
  <2>4. Run(c) \/ UNCHANGED <<works, sealed>>
    BY DEF Works, Start, EnterLock, BreakLock, Adopt, Claim, Save, LeaveLock, TimeOut, OpenOutput, Open,
       Refuse, Lose, GiveUp, Answered, Store, Printed, Kill, serverVars
  <2> QED BY <2>2, <2>3, <2>4
<1>3. CASE t \notin settled
  <2>1. OpenOutput(c) \/ GiveUp(c) \/ Printed(c)
    BY <1>3 DEF Works, Start, EnterLock, BreakLock, Adopt, Claim, Save, LeaveLock, TimeOut, Open, Run,
       Refuse, Lose, Answered, Store, Kill
  <2>2. settled' = settled \cup {token[c]} /\ UNCHANGED <<works, sealed>>
    BY <1>3, <2>1 DEF OpenOutput, Settles, GiveUp, Printed, serverVars
  <2>3. t = token[c]
    BY <1>3, <2>2
  <2>4. CASE OpenOutput(c)
    <3>1. at[c] = "opening" /\ local[c][token[c]].done
      BY <1>3, <2>4 DEF OpenOutput
    <3>2. local[c][token[c]] # Nothing
      BY <3>1 DEF CommandInv, TokenInv, HasToken
    <3>3. KeyIn(t)
      BY <2>3, <3>1, <3>2 DEF FileInv, Says
    <3> QED BY <1>1, <3>3
  <2>5. CASE GiveUp(c)
    <3>1. t \notin Done \/ t \notin sealed
      BY <2>3, <2>5 DEF GiveUp, AnswerInv, RightlyAnswered
    <3> QED BY <2>2, <3>1 DEF Done
  <2>6. CASE Printed(c)
    BY <1>1, <2>3, <2>6 DEF Printed, FileInv
  <2> QED BY <2>1, <2>4, <2>5, <2>6
<1> QED BY <1>2, <1>3

\* What a command has open it had open, or it opens a file that is not gone, or that
\* settles its operation.
LEMMA OpensElsewhere ==
    ASSUME CommandInv, PlaceInv, NEW c \in Commands, Elsewhere(c), NEW d \in Commands, out'[d] # NoFile
    PROVE  \/ out'[d] = out[d] /\ token'[d] = token[d]
           \/ token'[d] \in settled'
           \/ file'[out'[d]] # Gone
<1>1. CASE UNCHANGED <<token, out>>
  BY <1>1
<1>2. CASE d # c
  <2>1. (token' = token \/ \E t : token' = [token EXCEPT ![c] = t]) /\ (out' = out \/ \E f : out' = [out EXCEPT ![c] = f])
    BY Zenon DEF Elsewhere, Start, EnterLock, BreakLock, Adopt, Claim, Save, LeaveLock, TimeOut, OpenOutput, OpensAgain, Open,
       Run, Refuse, Lose, GiveUp, Answered, Printed, Kill, clientVars
  <2> QED BY <1>2, <2>1, Shapes
<1>3. CASE d = c /\ (Start(c) \/ Adopt(c) \/ Claim(c))
  <2>1. out'[c] = NoFile
    BY <1>3, Shapes DEF Start, Adopt, Claim, PlaceInv, WellPlaced
  <2> QED BY <1>3, <2>1
<1>4. CASE d = c /\ OpenOutput(c) /\ OpensAgain(c)
  <2>1. token' = token /\ file' = file
    BY <1>4 DEF OpenOutput, OpensAgain
  <2>2. CASE out' = out
    BY <2>1, <2>2
  <2>3. CASE out' # out
    <3>1. \/ token[c] \in settled'
          \/ out' = [out EXCEPT ![c] = local[c][token[c]].output] /\ file[local[c][token[c]].output] # Gone
      BY <1>4, <2>3 DEF OpensAgain, Settles
    <3> QED BY <1>4, <2>1, <3>1, Shapes
  <2> QED BY <2>2, <2>3
<1>5. EnterLock(c) \/ BreakLock(c) \/ Save(c) \/ LeaveLock(c) \/ TimeOut(c) \/ Open(c) \/ Run(c) \/ Refuse(c) \/ Lose(c)
      \/ GiveUp(c) \/ Answered(c) \/ Printed(c) \/ Kill(c) => UNCHANGED <<token, out>>
  BY Zenon DEF EnterLock, BreakLock, Save, LeaveLock, TimeOut, Open, Run, Refuse, Lose, GiveUp, Answered, Printed, Kill,
     clientVars
<1> QED BY <1>1, <1>2, <1>3, <1>4, <1>5 DEF Elsewhere

LEMMA SettledStays ==
    ASSUME NEW c \in Commands, Start(c) \/ Works(c) \/ TimeOut(c) \/ Refuse(c) \/ Lose(c) \/ Kill(c)
    PROVE  settled \subseteq settled' /\ kind' = kind
BY Zenon DEF Works, Start, EnterLock, BreakLock, Adopt, Claim, Save, LeaveLock, TimeOut, OpenOutput, Settles, Open, Run,
   Refuse, Lose, GiveUp, Answered, Store, Printed, Kill, clientVars

\* A reservation that was released is of a settled operation.
LEMMA GoneFiles ==
    ASSUME CommandInv, CommandInv', PlaceInv, OwnerInv, OwnerInv', FileInv, kind = "key", NEW c \in Commands,
           Start(c) \/ Works(c) \/ TimeOut(c) \/ Refuse(c) \/ Lose(c) \/ Kill(c),
           NEW d \in Commands, out'[d] # NoFile, file'[out'[d]] = Gone
    PROVE  token'[d] \in settled'
<1>0. /\ out'[d] \in Files /\ token'[d] \in Tokens /\ token[d] \in Tokens /\ token[c] \in Tokens
      /\ file \in Seq(Content) /\ file' \in Seq(Content) /\ out \in [Commands -> Files \cup {NoFile}]
  BY Shapes DEF CommandInv, CommandTypes
<1>1. PICK f \in Files, t \in Tokens : f = out'[d] /\ t = token'[d]
  BY <1>0
<1>2. f \in DOMAIN file'
  <2>1. IsOf(f, t)'
    BY <1>1 DEF IsOf
  <2>2. f <= Len(file')
    BY <2>1 DEF OwnerInv
  <2> QED BY <1>0, <2>2, Constants DEF Files
<1>3. settled \subseteq settled'
  BY SettledStays
<1>4. CASE Elsewhere(c)
  <2>1. f \in DOMAIN file /\ (file[f] = Gone \/ Releases(c, f))
    BY <1>1, <1>2, <1>4, FilesElsewhere
  <2>2. CASE out'[d] = out[d] /\ token'[d] = token[d]
    <3>1. CASE file[f] = Gone
      BY <1>1, <1>3, <2>2, <3>1 DEF FileInv
    <3>2. CASE Releases(c, f)
      <4>1. IsOf(f, token[c]) /\ IsOf(f, token[d])
        BY <1>1, <2>2, <3>2 DEF Releases, IsOf
      <4>2. token[c] = token[d]
        BY <1>0, <4>1 DEF OwnerInv
      <4> QED BY <1>3, <2>2, <3>2, <4>2 DEF Releases
    <3> QED BY <2>1, <3>1, <3>2
  <2> QED BY <1>4, <2>2, OpensElsewhere
<1>5. CASE OpenOutput(c) /\ Creates(c)
  <2>0. at[c] = "opening" /\ token' = token
    BY <1>5 DEF OpenOutput
  <2>1. /\ file' = Append(file, Reserved) /\ Len(file') = Len(file) + 1 /\ out' = [out EXCEPT ![c] = Len(file')]
    BY <1>5, <2>0, CreatesState
  <2>2. Gone # Reserved
    BY DEF Gone, Reserved
  <2>3. f # Len(file') /\ f \in DOMAIN file /\ file'[f] = file[f]
    BY <1>0, <1>1, <1>2, <2>1, <2>2
  <2>4. out[d] = f
    BY <1>0, <1>1, <2>1, <2>3
  <2> QED BY <1>1, <1>3, <2>0, <2>3, <2>4 DEF FileInv
<1>6. CASE Store(c)
  <2>1. /\ DOMAIN file' = DOMAIN file /\ UNCHANGED <<token, out>>
        /\ \A g \in DOMAIN file : file'[g] = IF g = out[c] /\ file[g] # Gone THEN token[c] ELSE file[g]
    BY <1>6, StoredFile
  <2>2. token[c] # Gone
    BY <1>0 DEF Gone, Tokens
  <2>3. file[f] = Gone /\ out[d] = f
    BY <1>1, <1>2, <2>1, <2>2
  <2> QED BY <1>1, <1>3, <2>1, <2>3 DEF FileInv
<1> QED BY <1>4, <1>5, <1>6, StepKinds

\* A command that stored its key has it in a file: in its own, or, if that was released,
\* in the one of whoever settled the operation.
LEMMA StoredKey ==
    ASSUME CommandInv, PlaceInv, AnswerInv, OwnerInv, FileInv, NEW c \in Commands, Store(c)
    PROVE  KeyIn(token[c])'
<1>1. /\ out[c] \in DOMAIN file /\ DOMAIN file' = DOMAIN file /\ UNCHANGED <<token, out>>
      /\ \A g \in DOMAIN file : file'[g] = IF g = out[c] /\ file[g] # Gone THEN token[c] ELSE file[g]
  BY StoredFile
<1>2. CASE file[out[c]] # Gone
  BY <1>1, <1>2 DEF KeyIn
<1>3. CASE file[out[c]] = Gone
  <2>1. kind = "key" /\ at[c] = "answered" /\ answer[c] = "whole" /\ out[c] # NoFile /\ token[c] \in Tokens
    BY Shapes DEF Store, PlaceInv, WellPlaced
  <2>2. token[c] \in settled /\ token[c] \in Done /\ token[c] \in sealed
    BY <1>3, <2>1 DEF FileInv, AnswerInv, RightlyAnswered
  <2>3. KeyIn(token[c])
    BY <2>1, <2>2 DEF FileInv
  <2>4. Works(c)
    BY DEF Works
  <2>5. PICK t \in Tokens : t = token[c]
    BY <2>1
  <2>6. KeyIn(t)'
    BY <2>3, <2>4, <2>5, KeysStay
  <2> QED BY <1>1, <2>5, <2>6 DEF KeyIn
<1> QED BY <1>2, <1>3

\* A command about to note its key, or to print it, was, or stores it now.
LEMMA KeyPlaces ==
    ASSUME CommandInv, PlaceInv, kind = "key", NEW c \in Commands,
           Start(c) \/ Works(c) \/ TimeOut(c) \/ Refuse(c) \/ Lose(c) \/ Kill(c),
           NEW d \in Commands, at'[d] \in {"finishing", "printing"}
    PROVE  (at[d] \in {"finishing", "printing"} /\ token'[d] = token[d]) \/ (Store(c) /\ d = c)
<1>1. CASE d # c
  <2>1. (token' = token \/ \E t : token' = [token EXCEPT ![c] = t]) /\ (at' = at \/ \E p : at' = [at EXCEPT ![c] = p])
    BY Zenon DEF Works, Start, EnterLock, BreakLock, Adopt, Claim, Save, LeaveLock, TimeOut, OpenOutput, Settles, Goes, Open,
       Run, Refuse, Lose, GiveUp, Answered, Store, Printed, Kill, clientVars
  <2> QED BY <1>1, <2>1, Shapes
<1>2. CASE d = c
  <2>1. CASE UNCHANGED <<at, token>>
    BY <1>2, <2>1
  <2>2. EnterLock(c) \/ BreakLock(c) \/ Save(c) => UNCHANGED <<at, token>>
    BY Zenon DEF EnterLock, BreakLock, Save, clientVars
  <2>3. CASE Adopt(c) \/ Claim(c)
    BY <1>2, <2>3 DEF Adopt, Claim
  <2>4. CASE LeaveLock(c)
    <3>1. at'[c] = After(c) /\ at[c] \in Writing /\ token' = token
      BY <2>4, Shapes DEF LeaveLock, Leave, Goes, CommandInv, LockInv
    <3>2. at[c] \in {"finishing", "selecting"}
      BY <1>2, <3>1 DEF After, Writing
    <3>3. at[c] # "selecting"
      BY DEF PlaceInv, WellPlaced
    <3> QED BY <1>2, <3>1, <3>2, <3>3
  <2>5. CASE Start(c) \/ OpenOutput(c) \/ Open(c) \/ Run(c) \/ Refuse(c) \/ Lose(c) \/ TimeOut(c) \/ GiveUp(c) \/ Printed(c)
             \/ Kill(c)
    <3>1. PICK p \in {"reserving", "releasing", "ended", "noting", "answered", "running", "kept", "forgetting"} :
              at' = [at EXCEPT ![c] = p]
      BY <2>5, OpensOrCreates DEF Start, OpensAgain, Creates, Settles, Goes, Open, Run, Refuse, Lose, TimeOut, GiveUp,
         Printed, Kill
    <3> QED BY <1>2, <3>1, Shapes
  <2>6. ~Answered(c) \/ Store(c)
    BY DEF Answered
  <2> QED BY <1>2, <2>1, <2>2, <2>3, <2>4, <2>5, <2>6 DEF Works
<1> QED BY <1>1, <1>2

LEMMA FilesStep ==
    ASSUME CommandInv, CommandInv', PlaceInv, AnswerInv, OwnerInv, OwnerInv', FileInv, NEW c \in Commands,
           Start(c) \/ Works(c) \/ TimeOut(c) \/ Refuse(c) \/ Lose(c) \/ Kill(c)
    PROVE  FileInv'
<1>0. SUFFICES ASSUME kind = "key" PROVE FileInv'
  BY SettledStays DEF FileInv
<1>1. kind' = "key"
  BY <1>0, SettledStays
<1>2. \A t \in Tokens : KeyIn(t) => KeyIn(t)'
  BY KeysStay
<1>3. \A t \in Tokens \cap settled' : KeyIn(t)' \/ t \notin Done' \/ t \notin sealed'
  BY <1>0, SettledKeys
<1>4. \A d \in Commands : out'[d] # NoFile /\ file'[out'[d]] = Gone => token'[d] \in settled'
  BY <1>0, GoneFiles
<1>5. ASSUME NEW t \in Tokens
      PROVE  /\ Says(disk', t) => KeyIn(t)'
             /\ \A d \in Commands : Says(local'[d], t) \/ Says(baseline'[d], t) => KeyIn(t)'
  <2>1. CASE Elsewhere(c)
    BY <1>0, <1>2, <2>1, SaidElsewhere
  <2>2. /\ Says(disk, t) => KeyIn(t)
        /\ \A d \in Commands : Says(local[d], t) \/ Says(baseline[d], t) => KeyIn(t)
    BY <1>0 DEF FileInv
  <2>3. CASE OpenOutput(c) /\ Creates(c)
    <3>1. at[c] = "opening"
      BY <2>3 DEF OpenOutput
    <3>2. /\ ~local'[c][token[c]].done
          /\ \A u \in Tokens \ {token[c]} : local'[c][u] = local[c][u]
          /\ \A d \in Commands \ {c} : local'[d] = local[d]
          /\ UNCHANGED <<disk, baseline>>
      BY <2>3, <3>1, CreatesState
    <3> QED BY <1>2, <2>2, <3>2 DEF Says
  <2>4. CASE Store(c)
    <3>1. /\ \A u \in Tokens \ {token[c]} : local'[c][u] = local[c][u]
          /\ \A d \in Commands \ {c} : local'[d] = local[d]
          /\ UNCHANGED <<disk, baseline>>
      BY <2>4, StoreState
    <3>2. t = token[c] => KeyIn(t)'
      <4>1. KeyIn(token[c])' /\ token' = token
        BY <2>4, StoredKey DEF Store
      <4> QED BY <4>1 DEF KeyIn
    <3> QED BY <1>2, <2>2, <3>1, <3>2 DEF Says
  <2> QED BY <2>1, <2>3, <2>4, StepKinds
<1>6. ASSUME NEW d \in Commands, at'[d] \in {"finishing", "printing"} PROVE KeyIn(token[d])' /\ token'[d] = token[d]
  <2>0. token[d] \in Tokens /\ at \in [Commands -> Places] /\ token \in [Commands -> Tokens]
    BY Shapes
  <2>1. CASE Store(c) /\ d = c
    BY <2>1, StoredKey DEF Store
  <2>2. ASSUME at[d] \in {"finishing", "printing"}, token'[d] = token[d] PROVE KeyIn(token[d])' /\ token'[d] = token[d]
    <3>1. PICK t \in Tokens : t = token[d]
      BY <2>0
    <3>2. KeyIn(t)'
      BY <1>0, <1>2, <2>2, <3>1 DEF FileInv
    <3> QED BY <2>2, <3>1, <3>2 DEF KeyIn
  <2>3. (at[d] \in {"finishing", "printing"} /\ token'[d] = token[d]) \/ (Store(c) /\ d = c)
    BY <1>0, <1>6, KeyPlaces
  <2> QED BY <2>1, <2>2, <2>3
<1>7. \A d \in Commands : at'[d] \in {"finishing", "printing"} => KeyIn(token[d])'
  BY <1>6
<1> QED BY <1>3, <1>4, <1>5, <1>7 DEF FileInv, Says

-----------------------------------------------------------------------------
AnswersEach == answer = [c \in Commands |-> answer[c]]

OutcomeInv ==
    PlaceInv /\ AnswersEach /\ AnswerInv /\ ConnectionInv /\ OneAccountInv /\ OwnerInv /\ FileInv

LEMMA OutcomesBegin ==
    ASSUME CliInit
    PROVE  OutcomeInv
<1> DEFINE s == [e \in {Active} \cup Tokens |-> IF e = Active /\ kind # "bootstrap" THEN Connected ELSE Nothing]
<1>1. \A t \in Tokens : s[t] = Nothing
  BY Constants
<1>2. /\ disk = s /\ inside = [c \in Commands |-> "out"]
      /\ local = [c \in Commands |-> s] /\ baseline = [c \in Commands |-> s]
      /\ at = [c \in Commands |-> "idle"] /\ out = [c \in Commands |-> NoFile]
      /\ answer = [c \in Commands |-> "none"]
      /\ file = <<>> /\ works = [t \in Tokens |-> 0] /\ settled = {}
  BY DEF CliInit, StoreInit
<1> HIDE DEF s
<1>3. PlaceInv
  BY <1>2, UnderwayPlaces DEF PlaceInv, WellPlaced
<1>4. AnswersEach /\ AnswerInv
  BY <1>2 DEF AnswersEach, AnswerInv, RightlyAnswered
<1>5. ConnectionInv
  BY <1>2 DEF ConnectionInv, Connects
<1>6. OneAccountInv
  BY <1>2 DEF OneAccountInv, MaySend, Done
<1>7. OwnerInv
  <2>1. ASSUME NEW f \in Files, NEW t \in Tokens, IsOf(f, t) PROVE FALSE
    <3>1. NoFile \notin Files
      BY DEF NoFile, Files
    <3> QED BY <1>1, <1>2, <2>1, <3>1 DEF IsOf, Names
  <2> QED BY <2>1 DEF OwnerInv
<1>8. FileInv
  BY <1>1, <1>2 DEF FileInv, Says
<1> QED BY <1>3, <1>4, <1>5, <1>6, <1>7, <1>8 DEF OutcomeInv

LEMMA OutcomesUnsealed ==
    ASSUME OutcomeInv, NEW t \in Tokens, Unseal(t)
    PROVE  OutcomeInv'
<1>1. /\ UNCHANGED <<storeVars, clientVars, answer, works, file, minted, settled>>
      /\ sealed' = sealed \ {t}
  BY DEF Unseal
<1>2. AnswerInv'
  BY AnswersUnsealed DEF OutcomeInv
<1>3. PlaceInv' /\ AnswersEach' /\ ConnectionInv' /\ OneAccountInv'
  BY <1>1 DEF OutcomeInv, storeVars, clientVars, PlaceInv, WellPlaced, AnswersEach, ConnectionInv, Connects, OneAccountInv,
     MaySend, Done
<1>4. OwnerInv'
  BY <1>1 DEF OutcomeInv, storeVars, clientVars, OwnerInv, IsOf
<1>5. FileInv'
  BY <1>1 DEF OutcomeInv, storeVars, clientVars, FileInv, KeyIn, Done
<1> QED BY <1>2, <1>3, <1>4, <1>5 DEF OutcomeInv

LEMMA OutcomesStep ==
    ASSUME CommandInv, CommandInv', PendingInv, PendingInv', OutcomeInv, [CliNext]_cliVars
    PROVE  OutcomeInv'
<1>1. CASE UNCHANGED cliVars
  BY <1>1 DEF cliVars, storeVars, clientVars, serverVars, OutcomeInv, PlaceInv, WellPlaced, AnswersEach, AnswerInv, RightlyAnswered,
     ConnectionInv, Connects, OneAccountInv, MaySend, Done, OwnerInv, IsOf, FileInv, KeyIn
<1>2. ASSUME NEW t \in Tokens, Unseal(t) PROVE OutcomeInv'
  BY <1>2, OutcomesUnsealed
<1>3. ASSUME NEW c \in Commands, Start(c) \/ Works(c) \/ TimeOut(c) \/ Refuse(c) \/ Lose(c) \/ Kill(c)
      PROVE  OutcomeInv'
  <2>1. PlaceInv'
    BY <1>3, PlacesStep DEF OutcomeInv
  <2>2. AnswerInv' /\ AnswersEach'
    BY <1>3, AnswersStep, AnswersAreEach DEF OutcomeInv, AnswersEach
  <2>3. ConnectionInv' /\ (disk[Active] # Nothing => disk'[Active] # Nothing)
    BY <1>3, ConnectionsStep DEF OutcomeInv
  <2>4. OneAccountInv'
    BY <1>3, <2>3, OneAccountStep DEF OutcomeInv
  <2>5. OwnerInv'
    BY <1>3, OwnersStep DEF OutcomeInv
  <2>6. FileInv'
    BY <1>3, <2>5, FilesStep DEF OutcomeInv
  <2> QED BY <2>1, <2>2, <2>3, <2>4, <2>5, <2>6 DEF OutcomeInv
<1> QED BY <1>1, <1>2, <1>3 DEF CliNext

LEMMA OutcomesHold ==
    ASSUME MaxBreakers <= 1
    PROVE  CliSpec => [](CommandInv /\ PendingInv /\ OutcomeInv)
<1>1. CliInit => CommandInv /\ PendingInv /\ OutcomeInv
  BY CommandsBegin, OutcomesBegin
<1>2. CommandInv /\ PendingInv /\ OutcomeInv /\ [CliNext]_cliVars => (CommandInv /\ PendingInv /\ OutcomeInv)'
  <2> SUFFICES ASSUME CommandInv, PendingInv, OutcomeInv, [CliNext]_cliVars
               PROVE  CommandInv' /\ PendingInv' /\ OutcomeInv'
    OBVIOUS
  <2>1. CommandInv' /\ PendingInv'
    BY CommandsStep
  <2> QED BY <2>1, OutcomesStep
<1> QED BY <1>1, <1>2, PTL DEF CliSpec

\* However often and from however many commands a token is sent, refused, answered or
\* lost, the deployment does its operation's work once; and however many first runs
\* race, one account is created.
THEOREM NothingIsDoneTwice ==
    ASSUME MaxBreakers <= 1
    PROVE  CliSpec => []WorkIsDoneOnce
<1>1. CommandInv /\ OutcomeInv => WorkIsDoneOnce
  <2> SUFFICES ASSUME CommandInv, OutcomeInv PROVE WorkIsDoneOnce
    OBVIOUS
  <2>1. \A t \in Tokens : works[t] <= 1
    BY DEF OutcomeInv, AnswerInv
  <2>2. ASSUME kind = "bootstrap" PROVE Cardinality(Done) <= 1
    <3>1. \A t, u \in Done : t = u
      BY <2>2 DEF OutcomeInv, OneAccountInv
    <3>2. CASE Done = {}
      BY <3>2, FS_EmptySet
    <3>3. CASE Done # {}
      <4>1. PICK t \in Done : Done = {t}
        BY <3>1, <3>3
      <4>2. Cardinality({t}) = 1
        BY FS_Singleton
      <4> HIDE DEF Done
      <4> QED BY <4>1, <4>2
    <3> QED BY <3>2, <3>3
  <2> QED BY <2>1, <2>2 DEF WorkIsDoneOnce
<1> QED BY <1>1, OutcomesHold, PTL

\* A key whose metadata is printed is in a file, though the commands that share its
\* operation wait for one another, adopt each other's record and release each
\* other's reservation.
THEOREM PrintedKeysAreInFiles ==
    ASSUME MaxBreakers <= 1
    PROVE  CliSpec => []KeyIsKept
<1>1. OutcomeInv => KeyIsKept
  BY DEF OutcomeInv, FileInv, KeyIn, KeyIsKept
<1> QED BY <1>1, OutcomesHold, PTL
-----------------------------------------------------------------------------
(* The account of a first run.                                               *)

Keys        == Renewals \cup {NoKey}
AccountRow  == [state: {"none", "unclaimed", "claimed", "gone"}, since: Nat, activated: BOOLEAN]
Operation   == [state: {"none", "pending", "completed", "retired", "expired"}, key: Keys, sealedUntil: Nat]
RenewalStep == {"new", "creating", "viewing", "checking", "issuing", "amending", "retiring", "yielding",
                "polling", "asking", "enabling", "ended"}
Renewal     == [step: RenewalStep, began: Nat, seen: Operation, key: Keys]
VisitState  == [step: {"new", "checking", "admitted", "ended"}, began: Nat]
ClaimState  == [step: {"none", "approving", "retiring", "forgetting", "ended"}, by: Keys]
KeyStates   == {"none", "inactive", "active", "revoked"}
LifecycleRow == [row: AccountRow, until: Nat]

StoredTypes ==
    /\ hour \in Nat /\ account \in AccountRow /\ verified \in BOOLEAN
    /\ operation \in Operation /\ lostAnswers \in Nat
    /\ apiKeys \in [Renewals -> KeyStates]

RequestTypes ==
    /\ renewal \in [Renewals -> Renewal]
    /\ visit \in [Visits -> VisitState]
    /\ claim \in ClaimState
    /\ lifecycle \in LifecycleRow
    /\ lookup \in [Renewals \cup Visits -> AccountRow]

\* The token creates one account, and an account that is gone was not claimed, is
\* past its recovery, and has left nothing that works.
LifeInv ==
    /\ operation.state \in {"none", "pending"} => account.state = "none"
    /\ account.state = "claimed" => account.activated /\ verified
    /\ claim.step = "approving" => verified
    /\ account.state = "gone" => hour >= account.since + Recovery
    /\ collected => /\ account.state = "gone" /\ events = {} /\ operation.state = "expired"
                    /\ \A k \in Renewals : apiKeys[k] \in {"none", "revoked"}

\* A row that was read is the account's, before or after it was claimed.
ReadBefore(row) ==
    /\ row.state = "unclaimed" => account.state # "none" /\ row.since = account.since
    /\ row.state = "claimed" => account.state = "claimed"

RowsInv == ReadBefore(lifecycle.row) /\ \A x \in Renewals \cup Visits : ReadBefore(lookup[x])

\* A request is no older than its bound; and the key it saw is the record's, or the
\* record's is held sealed for longer than the request lasts.
Punctual(r) ==
    renewal[r].step \in {"new", "ended"} \/ (renewal[r].began <= hour /\ hour <= renewal[r].began + MaxRequest)

Opened(r) ==
    /\ renewal[r].step = "creating" => operation.state # "none"
    /\ renewal[r].step \in {"viewing", "checking", "issuing", "amending"} => operation.state \notin {"none", "pending"}

KeyIsKnown(r) ==
    \/ renewal[r].step \notin {"checking", "issuing", "amending"} \/ operation.state # "completed"
    \/ renewal[r].seen.key = operation.key
    \/ operation.sealedUntil > renewal[r].began + MaxRequest

RenewalInv == \A r \in Renewals : Punctual(r) /\ Opened(r) /\ KeyIsKnown(r)

\* A request is about to retire the key.
Retires(r, k) ==
    \/ r = k /\ renewal[r].step \in {"amending", "yielding", "asking"}
    \/ renewal[r].step = "retiring" /\ renewal[r].seen.key = k

\* The keys that work, or still may, although the record does not name them and no
\* request is about to retire them.
Loose == {k \in Renewals : /\ apiKeys[k] \in {"inactive", "active"} /\ operation.key # k
                           /\ \A r \in Renewals : ~Retires(r, k)}

LooseInv == IsFiniteSet(Loose) /\ Cardinality(Loose) <= lostAnswers

AccountsInv == StoredTypes /\ RequestTypes /\ LifeInv /\ RowsInv /\ RenewalInv /\ LooseInv
-----------------------------------------------------------------------------
LEMMA AccountConstants ==
    /\ NoKey \notin Renewals /\ Renewals \cap Visits = {}
    /\ FreeAccess \in Nat /\ Recovery \in Nat /\ FreeAccess <= Recovery
    /\ LifecycleTtl \in Nat /\ MaxLost \in Nat /\ LastHour \in Nat
    /\ SealFor \in Nat /\ MaxRequest \in Nat /\ MaxRequest < SealFor
BY AccountAssumption

LEMMA FirstRows ==
    /\ NotCreated \in AccountRow /\ NotCreated.state = "none"
    /\ NotOpened \in Operation /\ NotOpened.state = "none" /\ NotOpened.key = NoKey
    /\ NotBegun \in Renewal /\ NotBegun.step = "new"
    /\ NotCached \in LifecycleRow /\ NotCached.row = NotCreated
<1>1. NotCreated \in AccountRow /\ NotCreated.state = "none"
  BY DEF NotCreated, AccountRow
<1>2. NotOpened \in Operation /\ NotOpened.state = "none" /\ NotOpened.key = NoKey
  BY DEF NotOpened, Operation, Keys
<1>3. NotBegun \in Renewal /\ NotBegun.step = "new"
  BY <1>2 DEF NotBegun, Renewal, RenewalStep, Keys
<1>4. NotCached \in LifecycleRow /\ NotCached.row = NotCreated
  BY <1>1 DEF NotCached, LifecycleRow
<1> QED BY <1>1, <1>2, <1>3, <1>4

\* What a request under the token becomes, and that the others stay as they are.
LEMMA RenewalBecomes ==
    ASSUME renewal \in [Renewals -> Renewal], NEW r \in Renewals, NEW to \in Renewal,
           renewal' = [renewal EXCEPT ![r] = to]
    PROVE  /\ renewal' \in [Renewals -> Renewal]
           /\ renewal'[r] = to
           /\ \A x \in Renewals \ {r} : renewal'[x] = renewal[x]
OBVIOUS

LEMMA StepBecomes ==
    ASSUME renewal \in [Renewals -> Renewal], NEW r \in Renewals, NEW step \in RenewalStep, Proceeds(r, step)
    PROVE  /\ renewal' \in [Renewals -> Renewal]
           /\ renewal'[r].step = step /\ renewal'[r].began = renewal[r].began
           /\ renewal'[r].seen = renewal[r].seen /\ renewal'[r].key = renewal[r].key
           /\ \A x \in Renewals \ {r} : renewal'[x] = renewal[x]
<1>1. PICK to : to = [renewal[r] EXCEPT !.step = step]
  OBVIOUS
<1>2. /\ to \in Renewal /\ to.step = step /\ to.began = renewal[r].began
      /\ to.seen = renewal[r].seen /\ to.key = renewal[r].key
  BY <1>1 DEF Renewal
<1>3. renewal' = [renewal EXCEPT ![r] = to]
  BY <1>1 DEF Proceeds
<1> QED BY <1>2, <1>3, RenewalBecomes

LEMMA RecordBecomes ==
    ASSUME operation \in Operation, hour \in Nat, NEW r \in Renewals, Recorded(r)
    PROVE  /\ operation' \in Operation
           /\ operation'.state = operation.state /\ operation'.key = r
           /\ operation'.sealedUntil = hour + SealFor
<1>1. PICK to : to = hour + SealFor
  OBVIOUS
<1>2. to \in Nat
  BY <1>1, AccountConstants
<1>3. operation' = [operation EXCEPT !.key = r, !.sealedUntil = to]
  BY <1>1 DEF Recorded
<1> QED BY <1>1, <1>2, <1>3 DEF Operation, Keys

\* What a request that the gate lets go on has seen, and what becomes of the cache.
LEMMA SeenRow ==
    ASSUME StoredTypes, lifecycle \in LifecycleRow, lookup \in [Renewals \cup Visits -> AccountRow], RowsInv,
           NEW x \in Renewals \cup Visits, NEW row, Sees(x, row)
    PROVE  /\ row \in AccountRow
           /\ ReadBefore(row) \/ (row = account /\ account.state = "gone")
           /\ lifecycle' \in LifecycleRow /\ (lifecycle'.row = lifecycle.row \/ lifecycle'.row = lookup[x])
           /\ lookup' \in [Renewals \cup Visits -> AccountRow]
           /\ \A y \in Renewals \cup Visits : lookup'[y] = lookup[y] \/ lookup'[y] = NotCreated
<1>1. lifecycle.row \in AccountRow /\ lookup[x] \in AccountRow /\ account \in AccountRow
  BY DEF StoredTypes, LifecycleRow
<1>2. ReadBefore(lifecycle.row) /\ ReadBefore(lookup[x])
  BY DEF RowsInv
<1>3. CASE UNCHANGED gate /\ row = lifecycle.row
  BY <1>1, <1>2, <1>3 DEF gate
<1>4. CASE UNCHANGED gate /\ row = account /\ account.state = "gone"
  BY <1>1, <1>4 DEF gate
<1>5. CASE row = lookup[x] /\ lifecycle' = Filled(row) /\ lookup' = [lookup EXCEPT ![x] = NotCreated]
  <2>1. hour + LifecycleTtl \in Nat
    BY AccountConstants DEF StoredTypes
  <2>2. lifecycle' \in LifecycleRow /\ lifecycle'.row = lookup[x]
    BY <1>1, <1>5, <2>1 DEF Filled, LifecycleRow
  <2> QED BY <1>1, <1>2, <1>5, <2>2, FirstRows
<1> QED BY <1>3, <1>4, <1>5 DEF Sees
-----------------------------------------------------------------------------
(* Types.                                                                    *)

LEMMA RenewalFields ==
    ASSUME RequestTypes, NEW r \in Renewals
    PROVE  /\ renewal[r] \in Renewal /\ renewal[r].step \in RenewalStep /\ renewal[r].began \in Nat
           /\ renewal[r].seen \in Operation /\ renewal[r].seen.key \in Keys /\ renewal[r].key \in Keys
BY DEF RequestTypes, Renewal, Operation

LEMMA OperationFields ==
    ASSUME StoredTypes
    PROVE  /\ operation.state \in {"none", "pending", "completed", "retired", "expired"}
           /\ operation.key \in Keys /\ operation.sealedUntil \in Nat
           /\ account.state \in {"none", "unclaimed", "claimed", "gone"} /\ account.since \in Nat
           /\ account.activated \in BOOLEAN
BY DEF StoredTypes, Operation, AccountRow

\* A request under the token that opens the operation, or reads it again.
LEMMA OpeningBecomes ==
    ASSUME StoredTypes, RequestTypes, NEW r \in Renewals, OpenBootstrap(r)
    PROVE  /\ operation' \in Operation /\ renewal' \in [Renewals -> Renewal]
           /\ operation'.key = operation.key /\ operation'.sealedUntil = operation.sealedUntil
           /\ operation'.state = IF operation.state = "none" THEN "pending" ELSE operation.state
           /\ renewal'[r].step = IF operation'.state = "pending" THEN "creating" ELSE "checking"
           /\ renewal'[r].began = hour /\ renewal'[r].seen = operation'
           /\ \A x \in Renewals \ {r} : renewal'[x] = renewal[x]
<1>1. /\ operation' \in Operation
      /\ operation'.key = operation.key /\ operation'.sealedUntil = operation.sealedUntil
      /\ operation'.state = IF operation.state = "none" THEN "pending" ELSE operation.state
  BY DEF StoredTypes, OpenBootstrap, Operation
<1>2. PICK step, key : /\ step = IF operation'.state = "pending" THEN "creating" ELSE "checking"
                       /\ key = IF HeldSealed THEN operation.key ELSE NoKey
  OBVIOUS
<1>3. step \in RenewalStep /\ key \in Keys /\ hour \in Nat
  BY <1>2, OperationFields DEF RenewalStep, Keys, StoredTypes
<1>4. PICK to : to = [step |-> step, began |-> hour, seen |-> operation', key |-> key]
  OBVIOUS
<1>5. to \in Renewal /\ to.step = step /\ to.began = hour /\ to.seen = operation'
  BY <1>1, <1>3, <1>4 DEF Renewal
<1>6. renewal' = [renewal EXCEPT ![r] = to]
  BY <1>2, <1>4 DEF OpenBootstrap
<1> QED BY <1>1, <1>2, <1>5, <1>6, RenewalBecomes DEF RequestTypes

LEMMA ViewBecomes ==
    ASSUME StoredTypes, RequestTypes, NEW r \in Renewals, ViewOperation(r)
    PROVE  /\ renewal' \in [Renewals -> Renewal]
           /\ renewal'[r].step = "checking" /\ renewal'[r].began = renewal[r].began
           /\ renewal'[r].seen = operation
           /\ \A x \in Renewals \ {r} : renewal'[x] = renewal[x]
<1>1. PICK key : key = IF HeldSealed THEN operation.key ELSE NoKey
  OBVIOUS
<1>2. key \in Keys /\ operation \in Operation /\ renewal[r] \in Renewal
  BY <1>1, OperationFields, RenewalFields DEF Keys, StoredTypes
<1>3. PICK to : to = [renewal[r] EXCEPT !.step = "checking", !.seen = operation, !.key = key]
  OBVIOUS
<1>4. /\ to \in Renewal /\ to.step = "checking" /\ to.began = renewal[r].began
      /\ to.seen = operation
  BY <1>2, <1>3 DEF Renewal, RenewalStep
<1>5. renewal' = [renewal EXCEPT ![r] = to]
  BY <1>1, <1>3 DEF ViewOperation, RequestTypes
<1> QED BY <1>4, <1>5, RenewalBecomes DEF RequestTypes

\* The record names the key of the request, which goes on to what it replaced.
LEMMA AmendBecomes ==
    ASSUME StoredTypes, RequestTypes, NEW r \in Renewals, Amend(r), MayAmend
    PROVE  /\ renewal' \in [Renewals -> Renewal]
           /\ renewal'[r].step = IF renewal[r].seen.key = NoKey THEN "enabling" ELSE "retiring"
           /\ renewal'[r].began = renewal[r].began /\ renewal'[r].seen = renewal[r].seen
           /\ \A x \in Renewals \ {r} : renewal'[x] = renewal[x]
<1>1. PICK step : step = IF renewal[r].seen.key = NoKey THEN "enabling" ELSE "retiring"
  OBVIOUS
<1>2. step \in RenewalStep /\ r \in Keys /\ renewal[r] \in Renewal
  BY <1>1, RenewalFields DEF Keys, RenewalStep
<1>3. PICK to : to = [renewal[r] EXCEPT !.step = step, !.key = r]
  OBVIOUS
<1>4. /\ to \in Renewal /\ to.step = step /\ to.began = renewal[r].began
      /\ to.seen = renewal[r].seen
  BY <1>2, <1>3 DEF Renewal
<1>5. renewal' = [renewal EXCEPT ![r] = to]
  BY <1>1, <1>3 DEF Amend, RequestTypes
<1> QED BY <1>1, <1>4, <1>5, RenewalBecomes DEF RequestTypes

LEMMA PollBecomes ==
    ASSUME StoredTypes, RequestTypes, NEW r \in Renewals, PollWinner(r)
    PROVE  /\ renewal' \in [Renewals -> Renewal]
           /\ renewal'[r].step \in {"enabling", "ended"} /\ renewal'[r].began = renewal[r].began
           /\ \A x \in Renewals \ {r} : renewal'[x] = renewal[x]
<1>1. PICK to : to = IF operation.state = "completed" /\ HeldSealed
                     THEN [renewal[r] EXCEPT !.step = "enabling", !.key = operation.key]
                     ELSE [renewal[r] EXCEPT !.step = "ended"]
  OBVIOUS
<1>2. operation.key \in Keys /\ renewal[r] \in Renewal
  BY OperationFields, RenewalFields
<1>3. to \in Renewal /\ to.step \in {"enabling", "ended"} /\ to.began = renewal[r].began
  BY <1>1, <1>2 DEF Renewal, RenewalStep
<1>4. renewal' = [renewal EXCEPT ![r] = to]
  BY <1>1 DEF PollWinner, RequestTypes
<1> QED BY <1>3, <1>4, RenewalBecomes DEF RequestTypes

LEMMA CheckBecomes ==
    ASSUME StoredTypes, RequestTypes, NEW r \in Renewals, CheckAccount(r)
    PROVE  /\ renewal' \in [Renewals -> Renewal]
           /\ renewal'[r].step \in {"ended", "enabling", "issuing"}
           /\ renewal'[r].began = renewal[r].began /\ renewal'[r].seen = renewal[r].seen
           /\ \A x \in Renewals \ {r} : renewal'[x] = renewal[x]
<1>1. PICK step \in {"ended", "enabling", "issuing"} : Proceeds(r, step)
  BY DEF CheckAccount
<1>2. step \in RenewalStep
  BY DEF RenewalStep
<1> QED BY <1>1, <1>2, StepBecomes DEF RequestTypes

LEMMA LookUpTypes ==
    ASSUME StoredTypes, RequestTypes, NEW x \in Renewals \cup Visits, LooksUp(x)
    PROVE  StoredTypes' /\ RequestTypes'
<1>1. lookup' \in [Renewals \cup Visits -> AccountRow]
  BY DEF StoredTypes, RequestTypes, LooksUp
<1> QED BY <1>1 DEF StoredTypes, RequestTypes, LooksUp, store, identity

LEMMA BootstrapTypes ==
    ASSUME StoredTypes, RequestTypes, RowsInv, NEW r \in Renewals, Bootstrap(r)
    PROVE  StoredTypes' /\ RequestTypes'
<1> USE DEF StoredTypes, RequestTypes, identity, store, gate
<1>1. CASE OpenBootstrap(r)
  BY <1>1, OpeningBecomes DEF OpenBootstrap
<1>2. CASE CreateAccount(r)
  <2>1. operation' \in Operation
    BY <1>2 DEF CreateAccount, Operation
  <2>2. account' \in AccountRow
    <3>1. [state |-> "unclaimed", since |-> hour, activated |-> FALSE] \in AccountRow
      BY DEF AccountRow
    <3> QED BY <1>2, <3>1 DEF CreateAccount
  <2>3. renewal' \in [Renewals -> Renewal]
    BY <1>2, StepBecomes DEF CreateAccount, RenewalStep
  <2> QED BY <1>2, <2>1, <2>2, <2>3 DEF CreateAccount
<1>3. CASE ViewOperation(r)
  BY <1>3, ViewBecomes DEF ViewOperation
<1>4. CASE CheckAccount(r)
  <2>1. PICK row : Sees(r, row)
    BY <1>4 DEF CheckAccount
  <2>2. lifecycle' \in LifecycleRow /\ lookup' \in [Renewals \cup Visits -> AccountRow]
    BY <2>1, SeenRow
  <2> QED BY <1>4, <2>2, CheckBecomes DEF CheckAccount
<1>5. CASE IssueKey(r)
  <2>1. apiKeys' \in [Renewals -> KeyStates]
    BY <1>5 DEF IssueKey, KeyStates
  <2>2. renewal' \in [Renewals -> Renewal]
    BY <1>5, StepBecomes DEF IssueKey, RenewalStep
  <2> QED BY <1>5, <2>1, <2>2 DEF IssueKey
<1>6. CASE Amend(r)
  <2>1. operation' \in Operation
    BY <1>6, RecordBecomes DEF Amend
  <2>2. renewal' \in [Renewals -> Renewal]
    <3>1. CASE MayAmend
      BY <1>6, <3>1, AmendBecomes
    <3>2. CASE ~MayAmend
      BY <1>6, <3>2, StepBecomes DEF Amend, RenewalStep
    <3> QED BY <3>1, <3>2
  <2> QED BY <1>6, <2>1, <2>2 DEF Amend
<1>7. CASE RetireReplaced(r)
  <2>1. apiKeys' \in [Renewals -> KeyStates]
    BY <1>7 DEF RetireReplaced, KeyStates
  <2>2. renewal' \in [Renewals -> Renewal]
    BY <1>7, StepBecomes DEF RetireReplaced, RenewalStep
  <2> QED BY <1>7, <2>1, <2>2 DEF RetireReplaced
<1>8. CASE RetireOwn(r)
  <2>1. apiKeys' \in [Renewals -> KeyStates]
    BY <1>8 DEF RetireOwn, KeyStates
  <2>2. renewal' \in [Renewals -> Renewal]
    BY <1>8, StepBecomes DEF RetireOwn, RenewalStep
  <2> QED BY <1>8, <2>1, <2>2 DEF RetireOwn
<1>9. CASE PollWinner(r)
  BY <1>9, PollBecomes DEF PollWinner
<1>10. CASE AmendUnanswered(r)
  <2>1. operation' \in Operation
    BY <1>10, RecordBecomes DEF AmendUnanswered
  <2>2. renewal' \in [Renewals -> Renewal]
    BY <1>10, StepBecomes DEF AmendUnanswered, RenewalStep
  <2> QED BY <1>10, <2>1, <2>2 DEF AmendUnanswered
<1>11. CASE AskRecord(r)
  <2>1. apiKeys' \in [Renewals -> KeyStates]
    BY <1>11 DEF AskRecord, KeyStates
  <2>2. renewal' \in [Renewals -> Renewal]
    BY <1>11, StepBecomes DEF AskRecord, RenewalStep
  <2> QED BY <1>11, <2>1, <2>2 DEF AskRecord
<1>12. CASE EnableKey(r)
  <2>1. apiKeys' \in [Renewals -> KeyStates]
    BY <1>12 DEF EnableKey, KeyStates
  <2>2. renewal' \in [Renewals -> Renewal]
    BY <1>12, StepBecomes DEF EnableKey, RenewalStep
  <2> QED BY <1>12, <2>1, <2>2 DEF EnableKey
<1>13. CASE LooksUp(r)
  BY <1>13, LookUpTypes
<1> HIDE DEF StoredTypes, RequestTypes, identity, store, gate
<1> QED
  BY <1>1, <1>2, <1>3, <1>4, <1>5, <1>6, <1>7, <1>8, <1>9, <1>10, <1>11, <1>12, <1>13
  DEF Bootstrap

LEMMA ClaimTypes ==
    ASSUME StoredTypes, RequestTypes, ApproveClaim \/ ClaimLands \/ RetireBootstrap \/ ForgetRow \/ Verify
    PROVE  StoredTypes' /\ RequestTypes'
<1> USE DEF StoredTypes, RequestTypes, identity, store, gate
<1>1. CASE ApproveClaim
  <2>1. claim' \in ClaimState
    BY <1>1 DEF ApproveClaim, ClaimState, Keys
  <2>2. hour + LifecycleTtl \in Nat
    BY AccountConstants
  <2>3. lifecycle' \in LifecycleRow
    BY <1>1, <2>2 DEF ApproveClaim, Filled, LifecycleRow
  <2> QED BY <1>1, <2>1, <2>3 DEF ApproveClaim
<1>2. CASE ClaimLands
  <2>1. claim' \in ClaimState
    BY <1>2 DEF ClaimLands, ClaimState
  <2>2. account' \in AccountRow
    BY <1>2 DEF ClaimLands, AccountRow
  <2> QED BY <1>2, <2>1, <2>2 DEF ClaimLands
<1>3. CASE RetireBootstrap
  <2>1. claim' \in ClaimState
    BY <1>3 DEF RetireBootstrap, ClaimState
  <2>2. operation' \in Operation
    BY <1>3 DEF RetireBootstrap, Operation
  <2> QED BY <1>3, <2>1, <2>2 DEF RetireBootstrap
<1>4. CASE ForgetRow
  <2>1. claim' \in ClaimState
    BY <1>4 DEF ForgetRow, ClaimState
  <2> QED BY <1>4, <2>1, FirstRows DEF ForgetRow
<1>5. CASE Verify
  <2>1. account' \in AccountRow
    BY <1>5 DEF Verify, AccountRow
  <2> QED BY <1>5, <2>1 DEF Verify
<1> HIDE DEF StoredTypes, RequestTypes, identity, store, gate
<1> QED BY <1>1, <1>2, <1>3, <1>4, <1>5

LEMMA VisitMoves ==
    ASSUME RequestTypes, NEW q \in Visits,
           NEW step \in {"new", "checking", "admitted", "ended"}, Visiting(q, step)
    PROVE  visit' \in [Visits -> VisitState]
BY DEF RequestTypes, Visiting, VisitState

LEMMA VisitTypes ==
    ASSUME StoredTypes, RequestTypes, RowsInv, NEW q \in Visits, Visit(q)
    PROVE  StoredTypes' /\ RequestTypes'
<1> USE DEF StoredTypes, RequestTypes, identity, store, gate
<1>1. CASE VisitArrives(q)
  <2>1. visit' \in [Visits -> VisitState]
    BY <1>1 DEF VisitArrives, VisitState
  <2> QED BY <1>1, <2>1 DEF VisitArrives
<1>2. CASE Admit(q)
  <2>1. PICK row : Sees(q, row) /\ Visiting(q, IF Denied(row, "proxy") THEN "ended" ELSE "admitted")
    BY <1>2 DEF Admit
  <2>2. lifecycle' \in LifecycleRow /\ lookup' \in [Renewals \cup Visits -> AccountRow]
    BY <2>1, SeenRow
  <2>3. visit' \in [Visits -> VisitState]
    BY <2>1, VisitMoves
  <2> QED BY <1>2, <2>2, <2>3 DEF Admit
<1>3. CASE RecordEvent(q)
  <2>1. visit' \in [Visits -> VisitState]
    BY <1>3, VisitMoves DEF RecordEvent
  <2> QED BY <1>3, <2>1 DEF RecordEvent
<1>4. CASE LooksUp(q)
  BY <1>4, LookUpTypes
<1> HIDE DEF StoredTypes, RequestTypes, identity, store, gate
<1> QED BY <1>1, <1>2, <1>3, <1>4 DEF Visit

LEMMA CollectTypes ==
    ASSUME StoredTypes, RequestTypes, Collect
    PROVE  StoredTypes' /\ RequestTypes'
<1>1. account' \in AccountRow
  BY DEF Collect, StoredTypes, AccountRow
<1>2. operation' \in Operation
  BY DEF Collect, Operation, Keys
<1>3. apiKeys' \in [Renewals -> KeyStates]
  BY DEF Collect, KeyStates
<1> QED BY <1>1, <1>2, <1>3 DEF Collect, StoredTypes, RequestTypes, gate

LEMMA HourTypes ==
    ASSUME StoredTypes, RequestTypes, HourPasses
    PROVE  StoredTypes' /\ RequestTypes'
BY DEF HourPasses, StoredTypes, RequestTypes, gate, identity, store
-----------------------------------------------------------------------------
(* The account's life, and the rows of it that were read.                    *)

\* The account, once created, only moves on: it is the same one, and what was
\* claimed stays so.
AccountMovesOn ==
    /\ account.state # "none" => account'.state # "none" /\ account'.since = account.since
    /\ account.state = "claimed" => account'.state = "claimed"

LEMMA NoRow == ReadBefore(NotCreated)
BY FirstRows DEF ReadBefore

LEMMA OwnRow ==
    ASSUME account.state # "gone"
    PROVE  ReadBefore(account)
BY DEF ReadBefore

LEMMA RowsKept ==
    ASSUME AccountMovesOn, RowsInv, UNCHANGED gate
    PROVE  RowsInv'
BY DEF RowsInv, ReadBefore, AccountMovesOn, gate

\* The row of the cache, or one it was filled with, and the rows that requests read.
LEMMA RowsMove ==
    ASSUME RowsInv, UNCHANGED account, ReadBefore(lifecycle'.row),
           \A y \in Renewals \cup Visits : ReadBefore(lookup'[y])
    PROVE  RowsInv'
BY DEF RowsInv, ReadBefore

LEMMA LookUpRows ==
    ASSUME RequestTypes, RowsInv, NEW x \in Renewals \cup Visits, LooksUp(x)
    PROVE  RowsInv'
<1>1. \A y \in Renewals \cup Visits : lookup'[y] \in {lookup[y], account}
  BY DEF LooksUp, RequestTypes
<1>2. ReadBefore(account)
  BY OwnRow DEF LooksUp
<1>3. \A y \in Renewals \cup Visits : ReadBefore(lookup'[y])
  BY <1>1, <1>2 DEF RowsInv
<1>4. account' = account /\ lifecycle' = lifecycle /\ ReadBefore(lifecycle.row)
  BY DEF LooksUp, store, RowsInv
<1> QED BY <1>3, <1>4, RowsMove

LEMMA SeenRows ==
    ASSUME StoredTypes, RequestTypes, RowsInv, NEW x \in Renewals \cup Visits, NEW row, Sees(x, row),
           UNCHANGED account
    PROVE  RowsInv'
<1>1. /\ lifecycle'.row = lifecycle.row \/ lifecycle'.row = lookup[x]
      /\ \A y \in Renewals \cup Visits : lookup'[y] = lookup[y] \/ lookup'[y] = NotCreated
  BY SeenRow DEF RequestTypes
<1>2. ReadBefore(lifecycle'.row)
  BY <1>1 DEF RowsInv
<1>3. \A y \in Renewals \cup Visits : ReadBefore(lookup'[y])
  BY <1>1, NoRow DEF RowsInv
<1> QED BY <1>2, <1>3, RowsMove

\* What moves the account on moves it from a state to a later one.
LEMMA AccountStep ==
    ASSUME StoredTypes, LifeInv, AccountsNext
    PROVE  AccountMovesOn
<1>1. ASSUME NEW r \in Renewals, CreateAccount(r) PROVE AccountMovesOn
  BY <1>1 DEF CreateAccount, LifeInv, AccountMovesOn
<1>2. ASSUME NEW r \in Renewals, Bootstrap(r), ~CreateAccount(r) PROVE account' = account
  BY <1>2 DEF Bootstrap, OpenBootstrap, ViewOperation, CheckAccount, IssueKey, Amend, RetireReplaced, RetireOwn,
     PollWinner, AmendUnanswered, AskRecord, EnableKey, LooksUp, store
<1>3. ASSUME NEW q \in Visits, Visit(q) PROVE account' = account
  BY <1>3 DEF Visit, VisitArrives, Admit, RecordEvent, LooksUp, store
<1>4. CASE ApproveClaim \/ RetireBootstrap \/ ForgetRow \/ HourPasses
  BY <1>4 DEF ApproveClaim, RetireBootstrap, ForgetRow, HourPasses, store, AccountMovesOn
<1>5. CASE ClaimLands \/ Verify \/ Collect
  BY <1>5 DEF ClaimLands, Verify, Collect, AccountMovesOn, StoredTypes, AccountRow
<1> QED BY <1>1, <1>2, <1>3, <1>4, <1>5 DEF AccountsNext, AccountMovesOn

LEMMA RowsStep ==
    ASSUME StoredTypes, RequestTypes, LifeInv, RowsInv, AccountsNext
    PROVE  RowsInv'
<1>1. AccountMovesOn
  BY AccountStep
<1>2. ASSUME NEW r \in Renewals, CheckAccount(r) PROVE RowsInv'
  <2>1. PICK row : Sees(r, row)
    BY <1>2 DEF CheckAccount
  <2> QED BY <1>2, <2>1, SeenRows DEF CheckAccount, store
<1>3. ASSUME NEW q \in Visits, Admit(q) PROVE RowsInv'
  <2>1. PICK row : Sees(q, row)
    BY <1>3 DEF Admit
  <2> QED BY <1>3, <2>1, SeenRows DEF Admit, store
<1>4. ASSUME NEW x \in Renewals \cup Visits, LooksUp(x) PROVE RowsInv'
  BY <1>4, LookUpRows
<1>5. CASE ApproveClaim
  <2>1. ReadBefore(account)
    BY <1>5, OwnRow DEF ApproveClaim, Denied
  <2>2. lifecycle'.row = lifecycle.row \/ lifecycle'.row = account
    BY <1>5 DEF ApproveClaim, Filled
  <2> QED BY <1>5, <2>1, <2>2, RowsMove DEF ApproveClaim, RowsInv, store
<1>6. CASE ForgetRow
  BY <1>6, FirstRows, NoRow, RowsMove DEF ForgetRow, RowsInv, store
<1>7. ASSUME NEW r \in Renewals, Bootstrap(r), ~CheckAccount(r), ~LooksUp(r) PROVE UNCHANGED gate
  BY <1>7 DEF Bootstrap, OpenBootstrap, CreateAccount, ViewOperation, IssueKey, Amend, RetireReplaced, RetireOwn,
     PollWinner, AmendUnanswered, AskRecord, EnableKey
<1>8. ASSUME NEW q \in Visits, Visit(q), ~Admit(q), ~LooksUp(q) PROVE UNCHANGED gate
  BY <1>8 DEF Visit, VisitArrives, RecordEvent
<1>9. CASE ClaimLands \/ RetireBootstrap \/ Verify \/ Collect \/ HourPasses
  BY <1>1, <1>9, RowsKept DEF ClaimLands, RetireBootstrap, Verify, Collect, HourPasses
<1> QED BY <1>1, <1>2, <1>3, <1>4, <1>5, <1>6, <1>7, <1>8, <1>9, RowsKept DEF AccountsNext

-----------------------------------------------------------------------------
LEMMA LifeStep ==
    ASSUME StoredTypes, RequestTypes, LifeInv, AccountsNext
    PROVE  LifeInv'
<1> USE AccountConstants DEF LifeInv
<1>1. ASSUME NEW r \in Renewals, OpenBootstrap(r) PROVE LifeInv'
  <2>1. operation'.state = IF operation.state = "none" THEN "pending" ELSE operation.state
    BY <1>1, OpeningBecomes
  <2> QED BY <1>1, <2>1 DEF OpenBootstrap, store
<1>2. ASSUME NEW r \in Renewals, CreateAccount(r) PROVE LifeInv'
  <2>1. CASE operation.state = "pending"
    <3>1. account'.state = "unclaimed" /\ operation'.state = "completed"
      BY <1>2, <2>1 DEF CreateAccount, StoredTypes, Operation
    <3> QED BY <1>2, <2>1, <3>1 DEF CreateAccount
  <2>2. CASE operation.state # "pending"
    BY <1>2, <2>2 DEF CreateAccount
  <2> QED BY <2>1, <2>2
<1>3. ASSUME NEW r \in Renewals, IssueKey(r) PROVE LifeInv'
  BY <1>3 DEF IssueKey, store
<1>4. ASSUME NEW r \in Renewals, Amend(r) PROVE LifeInv'
  BY <1>4, RecordBecomes DEF Amend, store, StoredTypes, MayAmend
<1>5. ASSUME NEW r \in Renewals, AmendUnanswered(r) PROVE LifeInv'
  BY <1>5, RecordBecomes DEF AmendUnanswered, store, StoredTypes, MayAmend
<1>6. ASSUME NEW r \in Renewals, RetireReplaced(r) \/ RetireOwn(r) \/ AskRecord(r) PROVE LifeInv'
  <2>1. \A k \in Renewals : apiKeys'[k] \in {apiKeys[k], "revoked"}
    BY <1>6 DEF RetireReplaced, RetireOwn, AskRecord, StoredTypes
  <2> QED BY <1>6, <2>1 DEF RetireReplaced, RetireOwn, AskRecord, store
<1>7. ASSUME NEW r \in Renewals, EnableKey(r) PROVE LifeInv'
  <2>1. \A k \in Renewals : apiKeys[k] # "inactive" => apiKeys'[k] = apiKeys[k]
    BY <1>7 DEF EnableKey, StoredTypes
  <2> QED BY <1>7, <2>1 DEF EnableKey, store
<1>8. ASSUME NEW r \in Renewals, ViewOperation(r) \/ CheckAccount(r) \/ PollWinner(r) \/ LooksUp(r) PROVE LifeInv'
  BY <1>8 DEF ViewOperation, CheckAccount, PollWinner, LooksUp, store, identity
<1>9. ASSUME NEW q \in Visits, Visit(q) PROVE LifeInv'
  <2>1. CASE RecordEvent(q)
    BY <2>1 DEF RecordEvent, OwnerExists, identity
  <2>2. CASE ~RecordEvent(q)
    BY <1>9, <2>2 DEF Visit, VisitArrives, Admit, LooksUp, store, identity
  <2> QED BY <2>1, <2>2
<1>10. CASE ApproveClaim
  <2>1. claim'.step = "approving" /\ verified
    BY <1>10 DEF ApproveClaim, MayClaim
  <2> QED BY <1>10, <2>1 DEF ApproveClaim, store, identity
<1>11. CASE ClaimLands
  <2>1. claim'.step # "approving"
    BY <1>11 DEF ClaimLands, RequestTypes, ClaimState
  <2>2. CASE account.state = "unclaimed" /\ apiKeys[claim.by] = "active"
    <3>1. account'.state = "claimed" /\ account'.activated = verified /\ verified
      BY <1>11, <2>2 DEF ClaimLands, StoredTypes, AccountRow
    <3> QED BY <1>11, <2>1, <2>2, <3>1 DEF ClaimLands, identity
  <2>3. CASE ~(account.state = "unclaimed" /\ apiKeys[claim.by] = "active")
    BY <1>11, <2>1, <2>3 DEF ClaimLands, identity
  <2> QED BY <2>2, <2>3
<1>12. CASE RetireBootstrap
  <2>1. claim'.step # "approving"
    BY <1>12 DEF RetireBootstrap, RequestTypes, ClaimState
  <2>2. /\ operation'.state \in {operation.state, "retired"}
        /\ operation'.state = "retired" => operation.state \in {"completed", "retired"}
    BY <1>12 DEF RetireBootstrap, StoredTypes, Operation
  <2> QED BY <1>12, <2>1, <2>2 DEF RetireBootstrap, store
<1>13. CASE ForgetRow
  <2>1. claim'.step # "approving"
    BY <1>13 DEF ForgetRow, RequestTypes, ClaimState
  <2> QED BY <1>13, <2>1 DEF ForgetRow, store, identity
<1>14. CASE Verify
  BY <1>14 DEF Verify, StoredTypes, AccountRow, identity
<1>15. CASE Collect
  <2>1. account'.state = "gone" /\ account'.since = account.since /\ operation'.state = "expired"
    BY <1>15 DEF Collect, StoredTypes, AccountRow
  <2>2. \A k \in Renewals : apiKeys'[k] \in {"none", "revoked"}
    BY <1>15 DEF Collect
  <2> QED BY <1>15, <2>1, <2>2 DEF Collect
<1>16. CASE HourPasses
  BY <1>16, OperationFields DEF HourPasses, StoredTypes, store, identity
<1> HIDE DEF LifeInv
<1> QED
  BY <1>1, <1>2, <1>3, <1>4, <1>5, <1>6, <1>7, <1>8, <1>9, <1>10, <1>11, <1>12, <1>13, <1>14, <1>15, <1>16
  DEF AccountsNext, Bootstrap

-----------------------------------------------------------------------------
(* What a request under the token knows of the record.                       *)

\* A request that stays as it is, while the record does too or names another key
\* that is held sealed from now on.
LEMMA OthersKeep ==
    ASSUME StoredTypes, RequestTypes, NEW x \in Renewals, Punctual(x) /\ Opened(x) /\ KeyIsKnown(x),
           renewal'[x] = renewal[x], hour' = hour,
           operation'.state \in {"none", "pending"} => operation.state \in {"none", "pending"},
           operation'.state = "none" => operation.state = "none",
           \/ operation'.state # "completed"
           \/ operation'.state = operation.state /\ operation'.key = operation.key
              /\ operation'.sealedUntil = operation.sealedUntil
           \/ operation.state = "pending"
           \/ operation'.sealedUntil = hour + SealFor
    PROVE  (Punctual(x) /\ Opened(x) /\ KeyIsKnown(x))'
<1>1. renewal[x].step \in RenewalStep /\ renewal[x].began \in Nat /\ hour \in Nat
  BY RenewalFields DEF StoredTypes
<1>2. Punctual(x)'
  BY DEF Punctual
<1>3. Opened(x)'
  BY DEF Opened
<1>4. KeyIsKnown(x)'
  <2>1. CASE operation'.state # "completed" \/ renewal[x].step \notin {"checking", "issuing", "amending"}
    BY <2>1 DEF KeyIsKnown
  <2>2. CASE operation'.key = operation.key /\ operation'.sealedUntil = operation.sealedUntil
             /\ operation.state = operation'.state
    BY <2>2 DEF KeyIsKnown
  <2>3. CASE operation.state = "pending" /\ renewal[x].step \in {"checking", "issuing", "amending"}
    BY <2>3 DEF Opened
  <2>4. CASE operation'.sealedUntil = hour + SealFor /\ renewal[x].step \in {"checking", "issuing", "amending"}
    <3>1. renewal[x].began <= hour
      BY <2>4 DEF Punctual
    <3>2. operation'.sealedUntil > renewal[x].began + MaxRequest
      BY <1>1, <2>4, <3>1, AccountConstants
    <3> QED BY <3>2 DEF KeyIsKnown
  <2> QED BY <2>1, <2>2, <2>3, <2>4
<1> QED BY <1>2, <1>3, <1>4

\* A request that goes on, in the same hour and with what it has seen.
LEMMA OneGoesOn ==
    ASSUME RequestTypes, StoredTypes, NEW r \in Renewals, RenewalInv,
           renewal[r].step \notin {"new", "ended"}, renewal'[r].began = renewal[r].began, hour' = hour,
           \/ renewal'[r].step \notin {"creating", "viewing", "checking", "issuing", "amending"}
           \/ /\ renewal'[r].step \in {"issuing", "amending"} /\ renewal[r].step \in {"checking", "issuing"}
              /\ renewal'[r].seen = renewal[r].seen /\ operation' = operation
    PROVE  (Punctual(r) /\ Opened(r) /\ KeyIsKnown(r))'
<1>1. Punctual(r) /\ Opened(r) /\ KeyIsKnown(r)
  BY DEF RenewalInv
<1>2. Punctual(r)'
  BY <1>1 DEF Punctual
<1>3. Opened(r)' /\ KeyIsKnown(r)'
  BY <1>1 DEF Opened, KeyIsKnown
<1> QED BY <1>2, <1>3

LEMMA RenewalsStep ==
    ASSUME StoredTypes, RequestTypes, RenewalInv, NEW r \in Renewals, Bootstrap(r)
    PROVE  RenewalInv'
<1> DEFINE Good(x) == Punctual(x) /\ Opened(x) /\ KeyIsKnown(x)
<1>0. \A x \in Renewals : Good(x)
  BY DEF RenewalInv
<1>1. CASE OpenBootstrap(r)
  <2>1. /\ renewal'[r].step = IF operation'.state = "pending" THEN "creating" ELSE "checking"
        /\ operation'.state = IF operation.state = "none" THEN "pending" ELSE operation.state
        /\ renewal'[r].began = hour /\ renewal'[r].seen = operation' /\ hour' = hour
        /\ operation'.key = operation.key /\ operation'.sealedUntil = operation.sealedUntil
        /\ \A x \in Renewals \ {r} : renewal'[x] = renewal[x]
    BY <1>1, OpeningBecomes DEF OpenBootstrap
  <2>2. ASSUME NEW x \in Renewals \ {r} PROVE (Punctual(x) /\ Opened(x) /\ KeyIsKnown(x))'
    BY <1>0, <2>1, OthersKeep, OperationFields
  <2>3. Punctual(r)' /\ Opened(r)' /\ KeyIsKnown(r)'
    <3>1. hour <= hour + MaxRequest
      BY AccountConstants DEF StoredTypes
    <3>2. renewal'[r].step = "checking" => operation'.state \notin {"none", "pending"}
      BY <2>1
    <3> QED BY <2>1, <3>1, <3>2, AccountConstants DEF Punctual, Opened, KeyIsKnown, StoredTypes
  <2> QED BY <2>2, <2>3 DEF RenewalInv
<1>2. CASE CreateAccount(r)
  <2>1. /\ renewal'[r].step = "viewing" /\ renewal'[r].began = renewal[r].began /\ hour' = hour
        /\ \A x \in Renewals \ {r} : renewal'[x] = renewal[x]
    BY <1>2, StepBecomes DEF CreateAccount, RenewalStep, RequestTypes
  <2>2. \/ operation.state = "pending" /\ operation'.state = "completed"
        \/ operation.state # "pending" /\ operation' = operation
    BY <1>2 DEF CreateAccount, StoredTypes, Operation
  <2>3. ASSUME NEW x \in Renewals \ {r} PROVE (Punctual(x) /\ Opened(x) /\ KeyIsKnown(x))'
    BY <1>0, <2>1, <2>2, OthersKeep
  <2>4. Punctual(r)' /\ Opened(r)' /\ KeyIsKnown(r)'
    <3>1. Punctual(r)
      BY <1>0
    <3>2. operation.state # "none"
      BY <1>0, <1>2 DEF CreateAccount, Opened
    <3> QED BY <1>2, <2>1, <2>2, <3>1, <3>2 DEF Punctual, Opened, KeyIsKnown, CreateAccount
  <2> QED BY <2>3, <2>4 DEF RenewalInv
<1>3. CASE ViewOperation(r)
  <2>1. /\ renewal'[r].step = "checking" /\ renewal'[r].began = renewal[r].began /\ hour' = hour
        /\ renewal'[r].seen = operation /\ operation' = operation /\ renewal[r].step = "viewing"
        /\ \A x \in Renewals \ {r} : renewal'[x] = renewal[x]
    BY <1>3, ViewBecomes DEF ViewOperation, identity
  <2>2. ASSUME NEW x \in Renewals \ {r} PROVE (Punctual(x) /\ Opened(x) /\ KeyIsKnown(x))'
    BY <1>0, <2>1, OthersKeep
  <2>3. Punctual(r)' /\ Opened(r)' /\ KeyIsKnown(r)'
    BY <1>0, <2>1 DEF Punctual, Opened, KeyIsKnown
  <2> QED BY <2>2, <2>3 DEF RenewalInv
<1>4. CASE CheckAccount(r) \/ PollWinner(r)
  <2>1. /\ renewal[r].step \in {"checking", "polling"}
        /\ renewal'[r].began = renewal[r].began /\ hour' = hour /\ operation' = operation
        /\ \/ renewal'[r].step \in {"ended", "enabling"}
           \/ renewal[r].step = "checking" /\ renewal'[r].step = "issuing" /\ renewal'[r].seen = renewal[r].seen
        /\ \A x \in Renewals \ {r} : renewal'[x] = renewal[x]
    BY <1>4, CheckBecomes, PollBecomes DEF CheckAccount, PollWinner, identity
  <2>2. ASSUME NEW x \in Renewals \ {r} PROVE (Punctual(x) /\ Opened(x) /\ KeyIsKnown(x))'
    BY <1>0, <2>1, OthersKeep
  <2>3. (Punctual(r) /\ Opened(r) /\ KeyIsKnown(r))'
    BY <2>1, OneGoesOn
  <2> QED BY <2>2, <2>3 DEF RenewalInv
<1>5. CASE IssueKey(r)
  <2>1. /\ renewal[r].step = "issuing" /\ renewal'[r].step \in {"ended", "amending"}
        /\ renewal'[r].began = renewal[r].began /\ hour' = hour /\ operation' = operation
        /\ renewal'[r].seen = renewal[r].seen
        /\ \A x \in Renewals \ {r} : renewal'[x] = renewal[x]
    BY <1>5, StepBecomes DEF IssueKey, RenewalStep, RequestTypes
  <2>2. ASSUME NEW x \in Renewals \ {r} PROVE (Punctual(x) /\ Opened(x) /\ KeyIsKnown(x))'
    BY <1>0, <2>1, OthersKeep
  <2>3. (Punctual(r) /\ Opened(r) /\ KeyIsKnown(r))'
    BY <2>1, OneGoesOn
  <2> QED BY <2>2, <2>3 DEF RenewalInv
<1>6. CASE Amend(r) \/ AmendUnanswered(r)
  <2>1. \/ operation' = operation
        \/ operation'.state = operation.state /\ operation'.sealedUntil = hour + SealFor
    BY <1>6, RecordBecomes DEF Amend, AmendUnanswered, StoredTypes
  <2>2. /\ renewal[r].step = "amending" /\ renewal'[r].step \in {"enabling", "retiring", "yielding", "asking"}
        /\ renewal'[r].began = renewal[r].began /\ hour' = hour
        /\ \A x \in Renewals \ {r} : renewal'[x] = renewal[x]
    <3>1. CASE Amend(r) /\ MayAmend
      BY <3>1, AmendBecomes DEF Amend
    <3>2. CASE Amend(r) /\ ~MayAmend
      BY <3>2, StepBecomes DEF Amend, RenewalStep, RequestTypes
    <3>3. CASE AmendUnanswered(r)
      BY <3>3, StepBecomes DEF AmendUnanswered, RenewalStep, RequestTypes
    <3> QED BY <1>6, <3>1, <3>2, <3>3
  <2>3. ASSUME NEW x \in Renewals \ {r} PROVE (Punctual(x) /\ Opened(x) /\ KeyIsKnown(x))'
    BY <1>0, <2>1, <2>2, OthersKeep
  <2>4. (Punctual(r) /\ Opened(r) /\ KeyIsKnown(r))'
    BY <2>2, OneGoesOn
  <2> QED BY <2>3, <2>4 DEF RenewalInv
<1>7. CASE RetireReplaced(r) \/ RetireOwn(r) \/ AskRecord(r) \/ EnableKey(r)
  <2>1. /\ renewal[r].step \in {"retiring", "yielding", "asking", "enabling"}
        /\ renewal'[r].step \in {"enabling", "polling", "ended"}
        /\ renewal'[r].began = renewal[r].began /\ hour' = hour /\ operation' = operation
        /\ \A x \in Renewals \ {r} : renewal'[x] = renewal[x]
    BY <1>7, StepBecomes DEF RetireReplaced, RetireOwn, AskRecord, EnableKey, RenewalStep, RequestTypes
  <2>2. ASSUME NEW x \in Renewals \ {r} PROVE (Punctual(x) /\ Opened(x) /\ KeyIsKnown(x))'
    BY <1>0, <2>1, OthersKeep
  <2>3. (Punctual(r) /\ Opened(r) /\ KeyIsKnown(r))'
    BY <2>1, OneGoesOn
  <2> QED BY <2>2, <2>3 DEF RenewalInv
<1>8. CASE LooksUp(r)
  BY <1>8 DEF LooksUp, identity, RenewalInv, Punctual, Opened, KeyIsKnown
<1> QED BY <1>1, <1>2, <1>3, <1>4, <1>5, <1>6, <1>7, <1>8 DEF Bootstrap

LEMMA RenewalsElse ==
    ASSUME StoredTypes, RequestTypes, RenewalInv,
           \/ \E q \in Visits : Visit(q)
           \/ ApproveClaim \/ ClaimLands \/ RetireBootstrap \/ ForgetRow \/ Verify \/ Collect \/ HourPasses
    PROVE  RenewalInv'
<1>1. CASE RetireBootstrap
  <2>1. /\ operation'.state = "retired" \/ operation' = operation
        /\ renewal' = renewal /\ hour' = hour
    BY <1>1 DEF RetireBootstrap, StoredTypes, Operation
  <2> QED BY <2>1 DEF RenewalInv, Punctual, Opened, KeyIsKnown
<1>2. CASE Collect
  BY <1>2 DEF Collect, RenewalInv, Punctual, Opened, KeyIsKnown
<1>3. CASE HourPasses
  <2>1. ASSUME NEW r \in Renewals PROVE Punctual(r)'
    <3>1. renewal'[r] = renewal[r] /\ hour' = hour + 1 /\ hour \in Nat /\ renewal[r].began \in Nat
      BY <1>3, RenewalFields DEF HourPasses, StoredTypes
    <3>2. renewal[r].step \in {"new", "ended"} \/ hour - renewal[r].began < MaxRequest
      BY <1>3 DEF HourPasses
    <3> QED BY <3>1, <3>2, AccountConstants DEF RenewalInv, Punctual
  <2>2. \A r \in Renewals : Opened(r)' /\ KeyIsKnown(r)'
    BY <1>3 DEF HourPasses, identity, RenewalInv, Opened, KeyIsKnown
  <2> QED BY <2>1, <2>2 DEF RenewalInv
<1>4. ASSUME NEW q \in Visits, Visit(q) PROVE RenewalInv'
  BY <1>4 DEF Visit, VisitArrives, Admit, RecordEvent, LooksUp, identity, RenewalInv, Punctual, Opened, KeyIsKnown
<1>5. CASE ApproveClaim \/ ClaimLands \/ ForgetRow \/ Verify
  BY <1>5 DEF ApproveClaim, ClaimLands, ForgetRow, Verify, identity, RenewalInv, Punctual, Opened, KeyIsKnown
<1> QED BY <1>1, <1>2, <1>3, <1>4, <1>5

-----------------------------------------------------------------------------
(* Keys the record does not name.                                            *)

LEMMA NoMoreLoose ==
    ASSUME StoredTypes, LooseInv, Loose' \subseteq Loose, lostAnswers' = lostAnswers
    PROVE  LooseInv'
<1>1. PICK old, new : old = Loose /\ new = Loose'
  OBVIOUS
<1>2. IsFiniteSet(old) /\ Cardinality(old) <= lostAnswers /\ new \subseteq old /\ lostAnswers \in Nat
  BY <1>1 DEF LooseInv, StoredTypes
<1>3. IsFiniteSet(new) /\ Cardinality(new) <= Cardinality(old)
  BY <1>2, FS_Subset
<1>4. Cardinality(new) \in Nat /\ Cardinality(old) \in Nat
  BY <1>2, <1>3, FS_CardinalityType
<1>5. Cardinality(new) <= lostAnswers'
  BY <1>2, <1>3, <1>4
<1> QED BY <1>1, <1>3, <1>5 DEF LooseInv

LEMMA OneMoreLoose ==
    ASSUME StoredTypes, LooseInv, NEW k, Loose' \subseteq Loose \cup {k}, lostAnswers' = lostAnswers + 1
    PROVE  LooseInv'
<1>1. PICK old, new : old = Loose /\ new = Loose'
  OBVIOUS
<1>2. IsFiniteSet(old) /\ Cardinality(old) <= lostAnswers /\ new \subseteq old \cup {k} /\ lostAnswers \in Nat
  BY <1>1 DEF LooseInv, StoredTypes
<1>3. /\ IsFiniteSet(old \cup {k})
      /\ Cardinality(old \cup {k}) = Cardinality(old) \/ Cardinality(old \cup {k}) = Cardinality(old) + 1
  BY <1>2, FS_AddElement
<1>4. IsFiniteSet(new) /\ Cardinality(new) <= Cardinality(old \cup {k})
  BY <1>2, <1>3, FS_Subset
<1>5. Cardinality(new) \in Nat /\ Cardinality(old) \in Nat
  BY <1>2, <1>4, FS_CardinalityType
<1>6. Cardinality(new) <= lostAnswers'
  BY <1>2, <1>3, <1>4, <1>5
<1> QED BY <1>1, <1>4, <1>6 DEF LooseInv

\* Where no key begins to work and no request stops being about to retire one, the
\* record names the same.
LEMMA LooseStays ==
    ASSUME NEW r \in Renewals, operation'.key = operation.key,
           \A x \in Renewals \ {r} : renewal'[x] = renewal[x],
           \A k \in Renewals : apiKeys'[k] \in {"inactive", "active"} =>
               \/ apiKeys[k] \in {"inactive", "active"} /\ (Retires(r, k) => Retires(r, k)')
               \/ Retires(r, k)'
    PROVE  Loose' \subseteq Loose
<1>1. SUFFICES ASSUME NEW k \in Renewals, k \in Loose' PROVE k \in Loose
  BY DEF Loose
<1>2. /\ apiKeys'[k] \in {"inactive", "active"} /\ operation'.key # k
      /\ \A x \in Renewals : ~Retires(x, k)'
  BY <1>1 DEF Loose
<1>3. apiKeys[k] \in {"inactive", "active"} /\ ~Retires(r, k)
  BY <1>2
<1>4. \A x \in Renewals \ {r} : ~Retires(x, k)
  BY <1>2 DEF Retires
<1> QED BY <1>2, <1>3, <1>4 DEF Loose

\* A successful amendment finds the key it saw still named, and retires that next.
LEMMA AmendKnowsTheKey ==
    ASSUME StoredTypes, RequestTypes, RenewalInv, NEW r \in Renewals, renewal[r].step = "amending", MayAmend
    PROVE  renewal[r].seen.key = operation.key
<1>1. Punctual(r) /\ KeyIsKnown(r)
  BY DEF RenewalInv
<1>2. hour <= renewal[r].began + MaxRequest
  BY <1>1 DEF Punctual
<1>3. operation.sealedUntil <= hour /\ operation.state = "completed"
  BY OperationFields DEF MayAmend, HeldSealed, StoredTypes
<1>4. ~(operation.sealedUntil > renewal[r].began + MaxRequest)
  BY <1>2, <1>3, OperationFields, RenewalFields, AccountConstants DEF StoredTypes
<1> QED BY <1>1, <1>3, <1>4 DEF KeyIsKnown

LEMMA LooseStep ==
    ASSUME StoredTypes, RequestTypes, RenewalInv, LooseInv, NEW r \in Renewals, Bootstrap(r)
    PROVE  LooseInv'
<1>1. CASE OpenBootstrap(r)
  <2>1. /\ operation'.key = operation.key /\ \A x \in Renewals \ {r} : renewal'[x] = renewal[x]
        /\ apiKeys' = apiKeys /\ lostAnswers' = lostAnswers /\ renewal[r].step = "new"
    BY <1>1, OpeningBecomes DEF OpenBootstrap
  <2>2. \A k \in Renewals : ~Retires(r, k)
    BY <2>1 DEF Retires
  <2> QED BY <2>1, <2>2, LooseStays, NoMoreLoose
<1>2. CASE CreateAccount(r)
  <2>1. /\ operation'.key = operation.key /\ apiKeys' = apiKeys /\ lostAnswers' = lostAnswers
        /\ renewal[r].step = "creating"
    BY <1>2 DEF CreateAccount, StoredTypes, Operation
  <2>2. \A x \in Renewals \ {r} : renewal'[x] = renewal[x]
    BY <1>2, StepBecomes DEF CreateAccount, RenewalStep, RequestTypes
  <2>3. \A k \in Renewals : ~Retires(r, k)
    BY <2>1 DEF Retires
  <2> QED BY <2>1, <2>2, <2>3, LooseStays, NoMoreLoose
<1>3. CASE ViewOperation(r) \/ CheckAccount(r) \/ PollWinner(r)
  <2>1. /\ operation' = operation /\ apiKeys' = apiKeys /\ lostAnswers' = lostAnswers
        /\ renewal[r].step \in {"viewing", "checking", "polling"}
        /\ \A x \in Renewals \ {r} : renewal'[x] = renewal[x]
    BY <1>3, ViewBecomes, CheckBecomes, PollBecomes DEF ViewOperation, CheckAccount, PollWinner, identity
  <2>2. \A k \in Renewals : ~Retires(r, k)
    BY <2>1 DEF Retires
  <2> QED BY <2>1, <2>2, LooseStays, NoMoreLoose
<1>4. CASE IssueKey(r)
  <2>1. operation' = operation /\ lostAnswers' = lostAnswers /\ renewal[r].step = "issuing"
    BY <1>4 DEF IssueKey
  <2>2. \A x \in Renewals \ {r} : renewal'[x] = renewal[x]
    BY <1>4, StepBecomes DEF IssueKey, RenewalStep, RequestTypes
  <2>3. \A k \in Renewals : ~Retires(r, k)
    BY <2>1 DEF Retires
  <2>4. \A k \in Renewals : apiKeys'[k] = apiKeys[k] \/ (k = r /\ renewal'[r].step = "amending")
    BY <1>4, StepBecomes DEF IssueKey, RenewalStep, RequestTypes, StoredTypes
  <2>5. \A k \in Renewals : apiKeys'[k] = apiKeys[k] \/ Retires(r, k)'
    BY <2>4 DEF Retires
  <2> QED BY <2>1, <2>2, <2>3, <2>5, LooseStays, NoMoreLoose
<1>5. CASE Amend(r)
  <2>0. renewal[r].step = "amending" /\ apiKeys' = apiKeys /\ lostAnswers' = lostAnswers
    BY <1>5 DEF Amend
  <2>1. CASE MayAmend
    <3>1. renewal[r].seen.key = operation.key
      BY <2>0, <2>1, AmendKnowsTheKey
    <3>2. operation'.key = r
      BY <1>5, <2>1, RecordBecomes DEF Amend, StoredTypes
    <3>3. /\ renewal'[r].step = IF operation.key = NoKey THEN "enabling" ELSE "retiring"
          /\ renewal'[r].seen.key = operation.key
          /\ \A x \in Renewals \ {r} : renewal'[x] = renewal[x]
      BY <1>5, <2>1, <3>1, AmendBecomes
    <3>4. ASSUME NEW k \in Renewals, k \in Loose' PROVE k \in Loose
      <4>1. /\ apiKeys[k] \in {"inactive", "active"} /\ k # r
            /\ \A x \in Renewals : ~Retires(x, k)'
        BY <2>0, <3>2, <3>4 DEF Loose
      <4>2. k # operation.key
        BY <3>3, <4>1, AccountConstants DEF Retires
      <4>3. ~Retires(r, k)
        BY <2>0, <4>1 DEF Retires
      <4>4. \A x \in Renewals \ {r} : ~Retires(x, k)
        BY <3>3, <4>1 DEF Retires
      <4> QED BY <4>1, <4>2, <4>3, <4>4 DEF Loose
    <3>5. Loose' \subseteq Loose
      BY <3>4 DEF Loose
    <3> QED BY <2>0, <3>5, NoMoreLoose
  <2>2. CASE ~MayAmend
    <3>1. /\ operation' = operation /\ renewal'[r].step = "yielding" /\ renewal'[r].seen = renewal[r].seen
          /\ \A x \in Renewals \ {r} : renewal'[x] = renewal[x]
      BY <1>5, <2>2, StepBecomes DEF Amend, RenewalStep, RequestTypes
    <3>2. \A k \in Renewals : Retires(r, k) => Retires(r, k)'
      BY <2>0, <3>1 DEF Retires
    <3> QED BY <2>0, <3>1, <3>2, LooseStays, NoMoreLoose
  <2> QED BY <2>1, <2>2
<1>6. CASE RetireReplaced(r)
  <2>1. /\ renewal[r].step = "retiring" /\ operation' = operation /\ lostAnswers' = lostAnswers
        /\ \A x \in Renewals \ {r} : renewal'[x] = renewal[x]
    BY <1>6, StepBecomes DEF RetireReplaced, RenewalStep, RequestTypes
  <2>2. \A k \in Renewals : apiKeys'[k] = IF k = renewal[r].seen.key THEN "revoked" ELSE apiKeys[k]
    BY <1>6 DEF RetireReplaced, StoredTypes
  <2>3. \A k \in Renewals : Retires(r, k) => k = renewal[r].seen.key
    BY <2>1 DEF Retires
  <2> QED BY <2>1, <2>2, <2>3, LooseStays, NoMoreLoose
<1>7. CASE RetireOwn(r)
  <2>1. /\ renewal[r].step = "yielding" /\ operation' = operation /\ lostAnswers' = lostAnswers
        /\ \A x \in Renewals \ {r} : renewal'[x] = renewal[x]
    BY <1>7, StepBecomes DEF RetireOwn, RenewalStep, RequestTypes
  <2>2. \A k \in Renewals : apiKeys'[k] = IF k = r THEN "revoked" ELSE apiKeys[k]
    BY <1>7 DEF RetireOwn, StoredTypes
  <2>3. \A k \in Renewals : Retires(r, k) => k = r
    BY <2>1 DEF Retires
  <2> QED BY <2>1, <2>2, <2>3, LooseStays, NoMoreLoose
<1>8. CASE AmendUnanswered(r)
  <2>1. /\ renewal[r].step = "amending" /\ renewal'[r].step = "asking" /\ apiKeys' = apiKeys
        /\ renewal'[r].seen = renewal[r].seen
        /\ \A x \in Renewals \ {r} : renewal'[x] = renewal[x]
        /\ lostAnswers' = lostAnswers + 1
    BY <1>8, StepBecomes DEF AmendUnanswered, RenewalStep, RequestTypes
  <2>2. operation' = operation \/ operation'.key = r
    BY <1>8, RecordBecomes DEF AmendUnanswered, StoredTypes
  <2>3. ASSUME NEW k \in Renewals, k \in Loose', k # operation.key PROVE k \in Loose
    <3>1. /\ apiKeys[k] \in {"inactive", "active"}
          /\ \A x \in Renewals : ~Retires(x, k)'
      BY <2>1, <2>3 DEF Loose
    <3>2. ~Retires(r, k)
      BY <2>1, <3>1 DEF Retires
    <3>3. \A x \in Renewals \ {r} : ~Retires(x, k)
      BY <2>1, <3>1 DEF Retires
    <3> QED BY <2>3, <3>1, <3>2, <3>3 DEF Loose
  <2>4. PICK named : named = operation.key
    OBVIOUS
  <2>5. Loose' \subseteq Loose \cup {named}
    BY <2>3, <2>4 DEF Loose
  <2> QED BY <2>1, <2>5, OneMoreLoose
<1>9. CASE AskRecord(r)
  <2>1. /\ renewal[r].step = "asking" /\ operation' = operation /\ lostAnswers' = lostAnswers
        /\ \A x \in Renewals \ {r} : renewal'[x] = renewal[x]
    BY <1>9, StepBecomes DEF AskRecord, RenewalStep, RequestTypes
  <2>2. \A k \in Renewals : apiKeys'[k] = IF k = r /\ operation.key # r THEN "revoked" ELSE apiKeys[k]
    BY <1>9 DEF AskRecord, StoredTypes
  <2>3. ASSUME NEW k \in Renewals, k \in Loose' PROVE k \in Loose
    <3>1. /\ apiKeys'[k] \in {"inactive", "active"} /\ operation.key # k
          /\ \A x \in Renewals : ~Retires(x, k)'
      BY <2>1, <2>3 DEF Loose
    <3>2. k # r /\ apiKeys[k] \in {"inactive", "active"}
      BY <2>2, <3>1
    <3>3. ~Retires(r, k)
      BY <2>1, <3>2 DEF Retires
    <3>4. \A x \in Renewals \ {r} : ~Retires(x, k)
      BY <2>1, <3>1 DEF Retires
    <3> QED BY <3>1, <3>2, <3>3, <3>4 DEF Loose
  <2>4. Loose' \subseteq Loose
    BY <2>3 DEF Loose
  <2> QED BY <2>1, <2>4, NoMoreLoose
<1>10. CASE EnableKey(r)
  <2>1. /\ renewal[r].step = "enabling" /\ operation' = operation /\ lostAnswers' = lostAnswers
        /\ \A x \in Renewals \ {r} : renewal'[x] = renewal[x]
    BY <1>10, StepBecomes DEF EnableKey, RenewalStep, RequestTypes
  <2>2. \A k \in Renewals : apiKeys'[k] = apiKeys[k] \/ apiKeys[k] = "inactive"
    BY <1>10 DEF EnableKey, StoredTypes
  <2>3. \A k \in Renewals : ~Retires(r, k)
    BY <2>1 DEF Retires
  <2> QED BY <2>1, <2>2, <2>3, LooseStays, NoMoreLoose
<1>11. CASE LooksUp(r)
  BY <1>11, NoMoreLoose DEF LooksUp, identity, Loose, Retires
<1> QED
  BY <1>1, <1>2, <1>3, <1>4, <1>5, <1>6, <1>7, <1>8, <1>9, <1>10, <1>11 DEF Bootstrap

LEMMA LooseElse ==
    ASSUME StoredTypes, RequestTypes, LooseInv,
           \/ \E q \in Visits : Visit(q)
           \/ ApproveClaim \/ ClaimLands \/ RetireBootstrap \/ ForgetRow \/ Verify \/ Collect \/ HourPasses
    PROVE  LooseInv'
<1>1. CASE Collect
  <2>1. Loose' = {} /\ lostAnswers' = lostAnswers
    BY <1>1 DEF Collect, Loose
  <2> QED BY <2>1, NoMoreLoose
<1>2. CASE RetireBootstrap
  <2>1. operation'.key = operation.key /\ renewal' = renewal /\ apiKeys' = apiKeys /\ lostAnswers' = lostAnswers
    BY <1>2 DEF RetireBootstrap, StoredTypes, Operation
  <2>2. Loose' \subseteq Loose
    BY <2>1 DEF Loose, Retires
  <2> QED BY <2>1, <2>2, NoMoreLoose
<1>3. CASE (\E q \in Visits : Visit(q)) \/ ApproveClaim \/ ClaimLands \/ ForgetRow \/ Verify \/ HourPasses
  <2>1. operation' = operation /\ renewal' = renewal /\ apiKeys' = apiKeys /\ lostAnswers' = lostAnswers
    BY <1>3 DEF Visit, VisitArrives, Admit, RecordEvent, LooksUp, ApproveClaim, ClaimLands, ForgetRow, Verify,
       HourPasses, identity
  <2>2. Loose' \subseteq Loose
    BY <2>1 DEF Loose, Retires
  <2> QED BY <2>1, <2>2, NoMoreLoose
<1> QED BY <1>1, <1>2, <1>3

-----------------------------------------------------------------------------
LEMMA AccountsBegin ==
    ASSUME AccountsInit
    PROVE  AccountsInv
<1> USE DEF AccountsInit
<1>1. StoredTypes
  BY FirstRows DEF StoredTypes, KeyStates
<1>2. RequestTypes
  <2>1. visit \in [Visits -> VisitState]
    BY DEF VisitState
  <2>2. claim \in ClaimState
    BY DEF ClaimState, Keys
  <2>3. lookup \in [Renewals \cup Visits -> AccountRow]
    BY FirstRows
  <2> QED BY <2>1, <2>2, <2>3, FirstRows DEF RequestTypes
<1>3. LifeInv
  BY FirstRows DEF LifeInv
<1>4. RowsInv
  BY FirstRows, NoRow DEF RowsInv
<1>5. RenewalInv
  BY FirstRows DEF RenewalInv, Punctual, Opened, KeyIsKnown
<1>6. LooseInv
  <2>1. Loose = {}
    BY DEF Loose
  <2> QED BY <2>1, FS_EmptySet DEF LooseInv
<1> QED BY <1>1, <1>2, <1>3, <1>4, <1>5, <1>6 DEF AccountsInv

LEMMA AccountsStep ==
    ASSUME AccountsInv, [AccountsNext]_accountVars
    PROVE  AccountsInv'
<1>0. StoredTypes /\ RequestTypes /\ LifeInv /\ RowsInv /\ RenewalInv /\ LooseInv
  BY DEF AccountsInv
<1>1. CASE AccountsNext
  <2>1. StoredTypes' /\ RequestTypes'
    BY <1>0, <1>1, BootstrapTypes, VisitTypes, ClaimTypes, CollectTypes, HourTypes DEF AccountsNext
  <2>2. LifeInv' /\ RowsInv'
    BY <1>0, <1>1, LifeStep, RowsStep
  <2>3. RenewalInv'
    BY <1>0, <1>1, RenewalsStep, RenewalsElse DEF AccountsNext
  <2>4. LooseInv'
    BY <1>0, <1>1, LooseStep, LooseElse DEF AccountsNext
  <2> QED BY <2>1, <2>2, <2>3, <2>4 DEF AccountsInv
<1>2. CASE UNCHANGED accountVars
  BY <1>0, <1>2 DEF accountVars, store, identity, gate, AccountsInv, StoredTypes, RequestTypes, LifeInv, RowsInv,
     ReadBefore, RenewalInv, Punctual, Opened, KeyIsKnown, LooseInv, Loose, Retires
<1> QED BY <1>1, <1>2

\* The invariant of a first run's account, for any number of requests, of users and of
\* lost answers.
THEOREM AccountsInvariance == AccountsSpec => []AccountsInv
<1>1. AccountsInit => AccountsInv
  BY AccountsBegin
<1>2. AccountsInv /\ [AccountsNext]_accountVars => AccountsInv'
  BY AccountsStep
<1> QED BY <1>1, <1>2, PTL DEF AccountsSpec

\* When nothing is under way, no more keys work that the record does not name than
\* answers of the identity service were lost (renewals that race, and those that
\* replace a key: bootstrap.ts, Amend and what follows it).
THEOREM StrayKeysAreLostAnswers == AccountsSpec => []OnlyNamedKeyWorks
<1>1. AccountsInv => OnlyNamedKeyWorks
  <2>1. SUFFICES ASSUME AccountsInv PROVE Cardinality(StrayKeys) <= lostAnswers
    BY DEF OnlyNamedKeyWorks
  <2>2. PICK loose, stray : loose = Loose /\ stray = StrayKeys
    OBVIOUS
  <2>3. IsFiniteSet(loose) /\ Cardinality(loose) <= lostAnswers /\ lostAnswers \in Nat
    BY <2>1, <2>2 DEF AccountsInv, LooseInv, StoredTypes
  <2>4. StrayKeys \subseteq Loose
    BY DEF StrayKeys, Loose, Retires
  <2>5. IsFiniteSet(stray) /\ Cardinality(stray) <= Cardinality(loose)
    BY <2>2, <2>3, <2>4, FS_Subset
  <2>6. Cardinality(stray) \in Nat /\ Cardinality(loose) \in Nat
    BY <2>3, <2>5, FS_CardinalityType
  <2>7. Cardinality(stray) <= lostAnswers
    BY <2>3, <2>5, <2>6
  <2> QED BY <2>2, <2>7
<1> QED BY <1>1, AccountsInvariance, PTL

\* Nothing of an account that was collected works, is stored or is created again.
THEOREM CollectedForGood == AccountsSpec => []NothingOutlivesAccount
<1>1. AccountsInv => NothingOutlivesAccount
  BY DEF AccountsInv, LifeInv, NothingOutlivesAccount
<1> QED BY <1>1, AccountsInvariance, PTL

\* Traffic is admitted by an older row of the account only if the account as it is
\* would admit it: what an unclaimed row says of its deadlines stays true, and a
\* claim only lifts them.
THEOREM OldRowsAdmitInTime == AccountsSpec => NeverAdmittedLate
<1>1. ASSUME AccountsInv, [AccountsNext]_accountVars
      PROVE  [\A q \in Visits :
                visit[q].step = "checking" /\ visit'[q].step = "admitted" => ~Denied(account, "proxy")]_accountVars
  <2>1. SUFFICES ASSUME NEW q \in Visits, AccountsNext,
                        visit[q].step = "checking", visit'[q].step = "admitted"
                 PROVE  ~Denied(account, "proxy")
    BY <1>1
  <2>2. StoredTypes /\ RequestTypes /\ LifeInv /\ RowsInv
    BY <1>1 DEF AccountsInv
  <2>3. PICK p \in Visits : Visit(p)
    <3>1. visit' # visit
      BY <2>1
    <3> QED
      BY <2>1, <3>1 DEF AccountsNext, Bootstrap, OpenBootstrap, CreateAccount, ViewOperation, CheckAccount, IssueKey,
         Amend, RetireReplaced, RetireOwn, PollWinner, AmendUnanswered, AskRecord, EnableKey, LooksUp, ApproveClaim,
         ClaimLands, RetireBootstrap, ForgetRow, Verify, Collect, HourPasses
  <2>4. Admit(p)
    <3>1. ~VisitArrives(p) /\ ~RecordEvent(p)
      BY <2>1, <2>2 DEF VisitArrives, RecordEvent, Visiting, RequestTypes, VisitState
    <3>2. ~LooksUp(p)
      BY <2>1 DEF LooksUp
    <3> QED BY <2>3, <3>1, <3>2 DEF Visit
  <2>5. PICK row : Sees(p, row) /\ Visiting(p, IF Denied(row, "proxy") THEN "ended" ELSE "admitted")
    BY <2>4 DEF Admit
  <2>6. ~Denied(row, "proxy")
    BY <2>1, <2>2, <2>5 DEF Visiting, RequestTypes, VisitState
  <2>7. row \in AccountRow /\ (ReadBefore(row) \/ (row = account /\ account.state = "gone"))
    BY <2>2, <2>5, SeenRow DEF RequestTypes
  <2>8. row.state \in {"unclaimed", "claimed"} /\ ReadBefore(row)
    BY <2>6, <2>7 DEF Denied
  <2>9. CASE row.state = "claimed"
    BY <2>2, <2>8, <2>9 DEF ReadBefore, LifeInv, Denied
  <2>10. CASE row.state = "unclaimed"
    <3>1. /\ account.state # "none" /\ row.since = account.since
          /\ ~(hour >= row.since + Recovery) /\ ~(hour >= row.since + FreeAccess)
      BY <2>6, <2>8, <2>10 DEF ReadBefore, Denied
    <3>2. account.state \in {"unclaimed", "claimed"}
      BY <2>2, <3>1, OperationFields DEF LifeInv
    <3>3. account.state = "claimed" => account.activated
      BY <2>2 DEF LifeInv
    <3> QED BY <3>1, <3>2, <3>3 DEF Denied
  <2> QED BY <2>8, <2>9, <2>10
<1> QED BY <1>1, AccountsInvariance, PTL DEF AccountsSpec, NeverAdmittedLate
=============================================================================
