--------------------------- MODULE ResourceWrites ---------------------------
(***************************************************************************)
(* What several editors of one account do to its applications, their keys    *)
(* and a provider at once (src/management).  An edit carries the revision the *)
(* editor was shown; the handler compares it with the row it reads, prepares  *)
(* the new row over several awaits, and writes it where the revision still    *)
(* stands.  A creation reads the plan's ceiling first and counts in its own   *)
(* insert.  A statement, or a batch of them, is one step.                     *)
(*                                                                          *)
(* A provider's key is sealed for the origin it may be sent to: opening it    *)
(* takes the same name (vault/secrets.ts).                                    *)
(***************************************************************************)
EXTENDS Integers, FiniteSets

CONSTANTS Writers,     \* requests in flight
          AppIds,      \* bound: the applications ever created
          Provider,    \* a provider instance
          OwnOrigin,   \* its type's own origin
          BaseUrls,    \* origins an operator may move it to
          Ceilings,    \* what plans allow
          MaxStamps,   \* bound: edits accepted
          MaxPlans     \* bound: plans the account has

ASSUME WritesAssumption ==
    /\ Provider \notin AppIds /\ OwnOrigin \notin BaseUrls
    /\ IsFiniteSet(AppIds)
    /\ Ceilings \subseteq [apps: Nat, keys: Nat] /\ Ceilings # {}
    /\ MaxStamps \in Nat /\ MaxPlans \in Nat \ {0}

VARIABLES
    rows,     \* the applications and the provider
    keys,     \* how many active keys each application has
    defaults, \* the applications whose default key is one of them
    born,     \* ids already given out
    plans,    \* the ceilings of the plans the account has had
    writer,   \* each request
    accepted  \* observation: the edits answered as stored, by the row

activeKeys == <<keys, defaults>>
writeVars == <<rows, activeKeys, born, plans, writer, accepted>>

Ids == AppIds \cup {Provider}
Origins == BaseUrls \cup {OwnOrigin}
Stamps == 1 .. MaxStamps

Rows == [revision: Nat \ {0}, edits: SUBSET Stamps, base: Origins, sealed: Origins]

NewRow == [revision |-> 1, edits |-> {}, base |-> OwnOrigin, sealed |-> OwnOrigin]
NoWrite == [at |-> "idle", id |-> Provider, change |-> "name", base |-> OwnOrigin,
            seen |-> NewRow, row |-> NewRow, ceiling |-> 0]

WritesInit ==
    /\ rows = [i \in {Provider} |-> NewRow]
    /\ keys = [i \in AppIds |-> 0] /\ defaults = {}
    /\ born = {Provider}
    /\ \E ceiling \in Ceilings : plans = {ceiling}
    /\ writer = [w \in Writers |-> NoWrite]
    /\ accepted = [i \in Ids |-> {}]

Known(i) == i \in DOMAIN rows
Apps == DOMAIN rows \ {Provider}

Replied(w) == writer' = [writer EXCEPT ![w] = NoWrite]
-----------------------------------------------------------------------------
(* Edits                                                                    *)

\* An editor is shown a row and sends a change of it with its revision.  A move to
\* another origin carries the key it is to be used with (ProviderUpdateRequest).
Send(w) ==
    /\ writer[w].at = "idle"
    /\ \E i \in DOMAIN rows :
       \E change \in IF i = Provider THEN {"name", "move", "return", "rotate"} ELSE {"config"} :
       \E base \in IF change = "move" THEN BaseUrls ELSE {OwnOrigin} :
          writer' = [writer EXCEPT ![w] = [NoWrite EXCEPT !.at = "sent", !.id = i, !.change = change,
                                                          !.base = base, !.seen = rows[i]]]
    /\ UNCHANGED <<rows, activeKeys, born, plans, accepted>>

\* The handler reads the row: gone, or not what the editor was shown, is refused.
Judged(w) ==
    LET r == writer[w] IN
    /\ r.at = "sent"
    /\ IF Known(r.id) /\ rows[r.id].revision = r.seen.revision
       THEN writer' = [writer EXCEPT ![w].at = "writing", ![w].row = rows[r.id]]
       ELSE Replied(w)
    /\ UNCHANGED <<rows, activeKeys, born, plans, accepted>>

\* Fault: a provider returned to its own origin keeps its key as it was sealed.
SealedAsItWas(r) ==
    CASE r.change = "move"   -> r.base
      [] r.change = "rotate" -> r.row.base
      [] OTHER               -> r.row.sealed

\* What the stored key is sealed for after a change: a new key for the origin the
\* provider will have, the stored one again if the provider returns to its own.
Sealed(r) ==
    CASE r.change = "move"   -> r.base
      [] r.change = "return" -> OwnOrigin
      [] r.change = "rotate" -> r.row.base
      [] OTHER               -> r.row.sealed

\* The new row: an application's configuration is what the editor sent, a
\* provider's fields are laid over the row that was read.
Updated(r, stamp) ==
    [revision |-> r.row.revision + 1,
     edits |-> (IF r.id = Provider THEN r.row.edits ELSE r.seen.edits) \cup {stamp},
     base |-> IF r.change \in {"move", "return"} THEN r.base ELSE r.row.base,
     sealed |-> Sealed(r)]

\* Fault: only the handler's own read is compared.
StillThere(r) == Known(r.id)

\* UPDATE ... WHERE id AND organization_id AND revision.
Unmoved(r) == Known(r.id) /\ rows[r.id].revision = r.row.revision

\* The edits are numbered as they are stored.
NextStamp == Cardinality(UNION {accepted[i] : i \in Ids}) + 1

Update(w) ==
    LET r == writer[w] IN
    /\ r.at = "writing"
    /\ IF Unmoved(r)
       THEN /\ NextStamp \in Stamps
            /\ rows' = [rows EXCEPT ![r.id] = Updated(r, NextStamp)]
            /\ accepted' = [accepted EXCEPT ![r.id] = @ \cup {NextStamp}]
       ELSE UNCHANGED <<rows, accepted>>
    /\ Replied(w)
    /\ UNCHANGED <<activeKeys, born, plans>>
-----------------------------------------------------------------------------
(* Creations, under a ceiling of a plan the account has or had: the plan is    *)
(* read before, and from a cache                                              *)

CreateApp(w) ==
    /\ writer[w].at = "idle" /\ AppIds \ born # {}
    /\ \E plan \in plans :
          writer' = [writer EXCEPT ![w] = [NoWrite EXCEPT !.at = "app", !.ceiling = plan.apps]]
    /\ UNCHANGED <<rows, activeKeys, born, plans, accepted>>

CreateKey(w) ==
    /\ writer[w].at = "idle"
    /\ \E i \in Apps, plan \in plans :
          writer' = [writer EXCEPT ![w] = [NoWrite EXCEPT !.at = "key", !.id = i, !.ceiling = plan.keys]]
    /\ UNCHANGED <<rows, activeKeys, born, plans, accepted>>

\* Fault: one more than the ceiling fits.
NotBeyond(count, ceiling) == count <= ceiling

Room(count, ceiling) == count < ceiling

\* The application comes with its default key in the same batch, which its own
\* ceiling does not count.
InsertApp(w) ==
    LET r == writer[w] IN
    /\ r.at = "app"
    /\ \/ /\ Room(Cardinality(Apps), r.ceiling)
          /\ \E i \in AppIds \ born :
                /\ born' = born \cup {i}
                /\ rows' = [j \in DOMAIN rows \cup {i} |-> IF j = i THEN NewRow ELSE rows[j]]
                /\ keys' = [keys EXCEPT ![i] = 1] /\ defaults' = defaults \cup {i}
       \/ ~Room(Cardinality(Apps), r.ceiling) /\ UNCHANGED <<born, rows, activeKeys>>
    /\ Replied(w)
    /\ UNCHANGED <<plans, accepted>>

\* INSERT ... WHERE EXISTS the application AND its active keys are fewer.
InsertKey(w) ==
    LET r == writer[w] IN
    /\ r.at = "key"
    /\ keys' = IF Known(r.id) /\ Room(keys[r.id], r.ceiling) THEN [keys EXCEPT ![r.id] = @ + 1] ELSE keys
    /\ Replied(w)
    /\ UNCHANGED <<defaults, rows, born, plans, accepted>>
-----------------------------------------------------------------------------
\* revokeAppKey, of an active key: the default one or another.
Revoke(i) ==
    /\ keys[i] > 0
    /\ \/ i \in defaults /\ defaults' = defaults \ {i}
       \/ (i \in defaults => keys[i] > 1) /\ UNCHANGED defaults
    /\ keys' = [keys EXCEPT ![i] = @ - 1]
    /\ UNCHANGED <<rows, born, plans, writer, accepted>>

\* deleteApp, with its keys, and deleteProvider.
Delete(i) ==
    /\ Known(i)
    /\ rows' = [j \in DOMAIN rows \ {i} |-> rows[j]]
    /\ keys' = [j \in AppIds |-> IF j = i THEN 0 ELSE keys[j]]
    /\ defaults' = defaults \ {i}
    /\ UNCHANGED <<born, plans, writer, accepted>>

\* The account gets another plan.
ChangePlan ==
    /\ Cardinality(plans) < MaxPlans
    /\ \E ceiling \in Ceilings \ plans : plans' = plans \cup {ceiling}
    /\ UNCHANGED <<rows, activeKeys, born, writer, accepted>>

WritesNext ==
    \/ \E w \in Writers : Send(w) \/ Judged(w) \/ Update(w) \/ CreateApp(w) \/ CreateKey(w) \/ InsertApp(w) \/ InsertKey(w)
    \/ \E i \in AppIds : Revoke(i)
    \/ \E i \in Ids : Delete(i)
    \/ ChangePlan

WritesSpec == WritesInit /\ [][WritesNext]_writeVars
-----------------------------------------------------------------------------
(* Properties.                                                              *)

WriteRequests ==
    [at: {"idle", "sent", "writing", "app", "key"}, id: Ids,
     change: {"name", "config", "move", "return", "rotate"}, base: Origins,
     seen: Rows, row: Rows, ceiling: Nat]

WritesTypeOK ==
    /\ DOMAIN rows \subseteq born /\ rows \in [DOMAIN rows -> Rows]
    /\ keys \in [AppIds -> Nat] /\ \A i \in AppIds : ~Known(i) => keys[i] = 0
    /\ defaults \subseteq {i \in AppIds : keys[i] > 0}
    /\ born \subseteq Ids
    /\ plans \subseteq Ceilings /\ plans # {}
    /\ writer \in [Writers -> WriteRequests]
    /\ accepted \in [Ids -> SUBSET Stamps]

\* No edit an editor was told is stored is lost to another that was prepared from
\* the row before it ("The application changed; reload it before saving your
\* changes"): it is in the row as long as there is one, and the row is never
\* brought back.
AcceptedEditsStay == \A i \in DOMAIN rows : rows[i].edits = accepted[i]

\* Through renames, rotations, moves to another origin and back, by several editors
\* at once, the provider's stored key opens for the origin the row names.
KeyOpens == \A i \in DOMAIN rows : rows[i].sealed = rows[i].base

\* However many creations race on one ceiling, and however old the plan they read,
\* there are never more applications than some plan of the account allowed, nor
\* active keys of one ("rows created over a ceiling are never removed once billing
\* answers again", management/plan-caps.ts), with one exception: an application may
\* hold its default key alone.  That key "rides along with the app it belongs to"
\* (management/apps.ts), also on a plan that allows no keys, although the plan's
\* contract has every write refused that would exceed a ceiling
\* (contracts/billing.ts).  No other key is ever let in beyond it.
NeverAboveCeiling ==
    /\ \E plan \in plans : Cardinality(Apps) <= plan.apps
    /\ \A i \in Apps : \/ keys[i] = 1 /\ i \in defaults
                      \/ \E plan \in plans : keys[i] <= plan.keys
=============================================================================
