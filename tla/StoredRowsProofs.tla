-------------------------- MODULE StoredRowsProofs --------------------------
(***************************************************************************)
(* What holds of the rows that editors write, whatever the number of          *)
(* editors, applications, plans and edits; and of what the isolates remember   *)
(* of one, for any number of isolates, lookups and changes.  The invariant of   *)
(* the caches dates every read: what it was served was the row when it began,   *)
(* and every entry's window is counted from a read of its own isolate.          *)
(***************************************************************************)
EXTENDS ResourceWrites, IsolateCaches, FiniteSetTheorems, SequenceTheorems, TLAPS

\* An editor's row is as old as the stored one or older, and the same when its
\* revision is; an id is never given out again.
EditInv ==
    \A w \in Writers : writer[w].at \in {"sent", "writing"} =>
        /\ writer[w].id \in born
        /\ Known(writer[w].id) =>
              /\ writer[w].seen.revision <= rows[writer[w].id].revision
              /\ writer[w].seen.revision = rows[writer[w].id].revision => writer[w].seen = rows[writer[w].id]
        /\ writer[w].at = "writing" /\ Known(writer[w].id) =>
              /\ writer[w].row.revision = writer[w].seen.revision
              /\ writer[w].row.revision = rows[writer[w].id].revision => writer[w].row = rows[writer[w].id]
        /\ writer[w].change = "return" => writer[w].base = OwnOrigin

\* A creation works with the ceiling of a plan.
CeilingInv ==
    \A w \in Writers :
        /\ writer[w].at = "app" => \E plan \in plans : writer[w].ceiling = plan.apps
        /\ writer[w].at = "key" => \E plan \in plans : writer[w].ceiling = plan.keys

UnbornInv == \A i \in Ids \ born : accepted[i] = {}

WritesInv == WritesTypeOK /\ EditInv /\ CeilingInv /\ UnbornInv /\ AcceptedEditsStay /\ KeyOpens /\ NeverAboveCeiling
-----------------------------------------------------------------------------
LEMMA Values ==
    /\ OwnOrigin \in Origins /\ Provider \in Ids /\ AppIds \subseteq Ids
    /\ NewRow \in Rows /\ NoWrite \in WriteRequests
    /\ NewRow.edits = {} /\ NewRow.base = OwnOrigin /\ NewRow.sealed = OwnOrigin
    /\ NoWrite.at = "idle"
<1>1. OwnOrigin \in Origins /\ Provider \in Ids /\ AppIds \subseteq Ids
  BY DEF Origins, Ids
<1>2. NewRow \in Rows
  BY <1>1 DEF NewRow, Rows
<1>3. NoWrite \in WriteRequests
  BY <1>1, <1>2 DEF NoWrite, WriteRequests
<1> QED BY <1>1, <1>2, <1>3 DEF NewRow, NoWrite

LEMMA PlanValues ==
    ASSUME NEW plan \in Ceilings
    PROVE  plan.apps \in Nat /\ plan.keys \in Nat
BY WritesAssumption

LEMMA AppsAreFinite == ASSUME WritesTypeOK PROVE IsFiniteSet(Apps) /\ Apps \subseteq AppIds
<1>1. Apps \subseteq AppIds
  BY DEF WritesTypeOK, Apps, Ids
<1> QED BY <1>1, WritesAssumption, FS_Subset

\* What the rows and their observation say, where neither they nor the plans change.
LEMMA RequestsOnly ==
    ASSUME WritesInv, UNCHANGED <<rows, keys, defaults, born, plans, accepted>>
    PROVE  UnbornInv' /\ AcceptedEditsStay' /\ KeyOpens' /\ NeverAboveCeiling'
BY DEF WritesInv, UnbornInv, AcceptedEditsStay, KeyOpens, NeverAboveCeiling, Apps

\* A request that is answered leaves only what others say.
LEMMA RepliedKeeps ==
    ASSUME WritesInv, NEW w \in Writers, Replied(w), plans' = plans, born \subseteq born',
           \A i \in born : i \in DOMAIN rows' => i \in DOMAIN rows /\
              (rows'[i] = rows[i] \/ rows'[i].revision = rows[i].revision + 1)
    PROVE  writer' \in [Writers -> WriteRequests] /\ EditInv' /\ CeilingInv'
<1> USE Values
<1>1. writer \in [Writers -> WriteRequests] /\ writer' = [writer EXCEPT ![w] = NoWrite]
  BY DEF WritesInv, WritesTypeOK, Replied
<1>2. writer' \in [Writers -> WriteRequests] /\ writer'[w] = NoWrite /\ \A v \in Writers \ {w} : writer'[v] = writer[v]
  BY <1>1
<1>3. CeilingInv'
  BY <1>2 DEF WritesInv, CeilingInv
<1>4. ASSUME NEW v \in Writers, writer'[v].at \in {"sent", "writing"}
      PROVE  /\ writer'[v].id \in born'
             /\ writer'[v].id \in DOMAIN rows' =>
                   /\ writer'[v].seen.revision <= rows'[writer'[v].id].revision
                   /\ writer'[v].seen.revision = rows'[writer'[v].id].revision => writer'[v].seen = rows'[writer'[v].id]
             /\ writer'[v].at = "writing" /\ writer'[v].id \in DOMAIN rows' =>
                   /\ writer'[v].row.revision = writer'[v].seen.revision
                   /\ writer'[v].row.revision = rows'[writer'[v].id].revision => writer'[v].row = rows'[writer'[v].id]
             /\ writer'[v].change = "return" => writer'[v].base = OwnOrigin
  <2> DEFINE i == writer[v].id
  <2>1. v # w /\ writer'[v] = writer[v] /\ writer[v] \in WriteRequests
    BY <1>1, <1>2, <1>4
  <2>2. i \in born /\ (writer[v].change = "return" => writer[v].base = OwnOrigin)
    BY <1>4, <2>1 DEF WritesInv, EditInv
  <2>3. ASSUME i \in DOMAIN rows' PROVE Known(i) /\ (rows'[i] = rows[i] \/ rows'[i].revision = rows[i].revision + 1)
                               /\ rows[i].revision \in Nat /\ writer[v].seen.revision \in Nat
    <3>1. Known(i)
      BY <2>2, <2>3 DEF Known
    <3>2. rows[i] \in Rows /\ writer[v].seen \in Rows
      BY <2>1, <3>1 DEF WritesInv, WritesTypeOK, Known, WriteRequests
    <3> QED BY <2>2, <2>3, <3>1, <3>2 DEF Rows
  <2>4. ASSUME Known(i)
        PROVE  /\ writer[v].seen.revision <= rows[i].revision
               /\ writer[v].seen.revision = rows[i].revision => writer[v].seen = rows[i]
               /\ writer[v].at = "writing" =>
                    /\ writer[v].row.revision = writer[v].seen.revision
                    /\ writer[v].row.revision = rows[i].revision => writer[v].row = rows[i]
    BY <1>4, <2>1, <2>4 DEF WritesInv, EditInv
  <2> QED BY <2>1, <2>2, <2>3, <2>4 DEF Known
<1> QED BY <1>2, <1>3, <1>4 DEF EditInv, Known

LEMMA SendKeeps ==
    ASSUME WritesInv, NEW w \in Writers, Send(w)
    PROVE  WritesInv'
<1> USE Values
<1>1. PICK i \in DOMAIN rows, change \in {"name", "move", "return", "rotate", "config"}, base \in Origins :
        /\ writer' = [writer EXCEPT ![w] = [NoWrite EXCEPT !.at = "sent", !.id = i, !.change = change,
                                                          !.base = base, !.seen = rows[i]]]
        /\ change = "return" => base = OwnOrigin
  BY DEF Send, Origins
<1>2. UNCHANGED <<rows, keys, defaults, born, plans, accepted>>
  BY DEF Send, activeKeys
<1> DEFINE r == [NoWrite EXCEPT !.at = "sent", !.id = i, !.change = change, !.base = base, !.seen = rows[i]]
<1>3. i \in born /\ i \in Ids /\ rows[i] \in Rows /\ rows[i].revision \in Nat
  BY DEF WritesInv, WritesTypeOK, Rows
<1>4. r \in WriteRequests /\ r.at = "sent" /\ r.id = i /\ r.seen = rows[i] /\ r.change = change /\ r.base = base
  BY <1>3 DEF NoWrite, WriteRequests
<1> HIDE DEF r
<1>5. writer'[w] = r /\ \A v \in Writers \ {w} : writer'[v] = writer[v]
  BY <1>1 DEF r, WritesInv, WritesTypeOK
<1>6. writer' \in [Writers -> WriteRequests]
  BY <1>1, <1>4 DEF r, WritesInv, WritesTypeOK
<1>7. WritesTypeOK'
  BY <1>2, <1>6 DEF WritesInv, WritesTypeOK, Known
<1>8. EditInv'
  BY <1>1, <1>2, <1>3, <1>4, <1>5 DEF WritesInv, EditInv, Known
<1>9. CeilingInv'
  BY <1>2, <1>4, <1>5 DEF WritesInv, CeilingInv
<1> QED BY <1>2, <1>7, <1>8, <1>9, RequestsOnly DEF WritesInv

LEMMA JudgedKeeps ==
    ASSUME WritesInv, NEW w \in Writers, Judged(w)
    PROVE  WritesInv'
<1> USE Values
<1>1. UNCHANGED <<rows, keys, defaults, born, plans, accepted>> /\ writer[w].at = "sent"
  BY DEF Judged, activeKeys
<1>2. CASE Replied(w)
  <2>1. writer' \in [Writers -> WriteRequests] /\ EditInv' /\ CeilingInv'
    BY <1>1, <1>2, RepliedKeeps DEF Known
  <2> QED BY <1>1, <2>1, RequestsOnly DEF WritesInv, WritesTypeOK, Known
<1>3. CASE /\ Known(writer[w].id) /\ rows[writer[w].id].revision = writer[w].seen.revision
           /\ writer' = [writer EXCEPT ![w].at = "writing", ![w].row = rows[writer[w].id]]
  <2> DEFINE q == writer[w]
             r == [q EXCEPT !.at = "writing", !.row = rows[q.id]]
  <2>1. q \in WriteRequests /\ rows[q.id] \in Rows
    BY <1>3 DEF WritesInv, WritesTypeOK, Known
  <2>2. r \in WriteRequests /\ r.at = "writing" /\ r.id = q.id /\ r.seen = q.seen /\ r.row = rows[q.id]
        /\ r.change = q.change /\ r.base = q.base
    BY <2>1 DEF WriteRequests
  <2>3. writer' = [writer EXCEPT ![w] = r]
    BY <1>3
  <2> HIDE DEF r
  <2>4. writer' \in [Writers -> WriteRequests] /\ writer'[w] = r /\ \A v \in Writers \ {w} : writer'[v] = writer[v]
    BY <2>2, <2>3 DEF WritesInv, WritesTypeOK
  <2>5. WritesTypeOK'
    BY <1>1, <2>4 DEF WritesInv, WritesTypeOK, Known
  <2>6. EditInv'
    BY <1>1, <1>3, <2>2, <2>4 DEF WritesInv, EditInv, Known
  <2>7. CeilingInv'
    BY <1>1, <2>2, <2>4 DEF WritesInv, CeilingInv
  <2> QED BY <1>1, <2>5, <2>6, <2>7, RequestsOnly DEF WritesInv
<1> QED BY <1>2, <1>3 DEF Judged, activeKeys

LEMMA UpdateKeeps ==
    ASSUME WritesInv, NEW w \in Writers, Update(w)
    PROVE  WritesInv'
<1> USE Values
<1> DEFINE r == writer[w]
<1>1. r.at = "writing" /\ Replied(w) /\ UNCHANGED <<keys, defaults, born, plans>>
  BY DEF Update, activeKeys
<1>2. CASE UNCHANGED <<rows, accepted>>
  <2>1. writer' \in [Writers -> WriteRequests] /\ EditInv' /\ CeilingInv'
    BY <1>1, <1>2, RepliedKeeps
  <2> QED BY <1>1, <1>2, <2>1, RequestsOnly DEF WritesInv, WritesTypeOK, Known
<1>3. CASE /\ Unmoved(r) /\ NextStamp \in Stamps
           /\ rows' = [rows EXCEPT ![r.id] = Updated(r, NextStamp)]
           /\ accepted' = [accepted EXCEPT ![r.id] = @ \cup {NextStamp}]
  <2> DEFINE i == r.id
             q == Updated(r, NextStamp)
  <2>1. i \in DOMAIN rows /\ i \in Ids /\ rows[i] \in Rows /\ r \in WriteRequests
    BY <1>3 DEF Unmoved, Known, WritesInv, WritesTypeOK
  <2>2. r.row = rows[i] /\ r.seen = rows[i]
    BY <1>1, <1>3, <2>1 DEF Unmoved, Known, WritesInv, EditInv
  <2>3. rows[i].edits = accepted[i] /\ rows[i].base = rows[i].sealed
    BY <2>1 DEF WritesInv, AcceptedEditsStay, KeyOpens
  <2>4. r.base \in Origins /\ rows[i].base \in Origins /\ rows[i].sealed \in Origins /\ rows[i].edits \subseteq Stamps
        /\ rows[i].revision \in Nat \ {0}
    BY <2>1 DEF WriteRequests, Rows
  <2>5. r.change = "return" => r.base = OwnOrigin
    BY <1>1 DEF WritesInv, EditInv
  <2>6. q.revision = rows[i].revision + 1 /\ q.edits = accepted[i] \cup {NextStamp} /\ q.base = q.sealed
        /\ q.base \in Origins
    BY <2>2, <2>3, <2>4, <2>5 DEF Updated, Sealed
  <2>7. q \in Rows
    BY <1>3, <2>2, <2>3, <2>4, <2>6 DEF Rows, Updated
  <2> HIDE DEF q
  <2>8. rows' = [rows EXCEPT ![i] = q]
    BY <1>3 DEF q
  <2>9. DOMAIN rows' = DOMAIN rows /\ rows'[i] = q /\ \A j \in DOMAIN rows \ {i} : rows'[j] = rows[j]
    BY <2>1, <2>8 DEF WritesInv, WritesTypeOK
  <2>10. writer' \in [Writers -> WriteRequests] /\ EditInv' /\ CeilingInv'
    <3>1. \A j \in born : j \in DOMAIN rows' => j \in DOMAIN rows /\
              (rows'[j] = rows[j] \/ rows'[j].revision = rows[j].revision + 1)
      BY <2>6, <2>9
    <3> QED BY <1>1, <3>1, RepliedKeeps
  <2>11. accepted' \in [Ids -> SUBSET Stamps] /\ accepted'[i] = accepted[i] \cup {NextStamp}
         /\ \A j \in Ids \ {i} : accepted'[j] = accepted[j]
    BY <1>3, <2>1 DEF WritesInv, WritesTypeOK
  <2>12. WritesTypeOK'
    BY <1>1, <2>7, <2>8, <2>9, <2>10, <2>11 DEF WritesInv, WritesTypeOK, Known
  <2>13. UnbornInv'
    BY <1>1, <2>1, <2>11 DEF WritesInv, WritesTypeOK, UnbornInv
  <2>14. AcceptedEditsStay'
    <3>1. DOMAIN rows \subseteq Ids
      BY DEF WritesInv, WritesTypeOK
    <3> QED BY <2>6, <2>9, <2>11, <3>1 DEF WritesInv, AcceptedEditsStay
  <2>15. KeyOpens'
    BY <2>6, <2>9 DEF WritesInv, KeyOpens
  <2>16. NeverAboveCeiling'
    BY <1>1, <2>9 DEF WritesInv, NeverAboveCeiling, Apps
  <2> QED BY <2>10, <2>12, <2>13, <2>14, <2>15, <2>16 DEF WritesInv
<1> QED BY <1>2, <1>3 DEF Update, activeKeys

LEMMA CreateAppKeeps ==
    ASSUME WritesInv, NEW w \in Writers, CreateApp(w)
    PROVE  WritesInv'
<1> USE Values
<1>1. PICK plan \in plans : writer' = [writer EXCEPT ![w] = [NoWrite EXCEPT !.at = "app", !.ceiling = plan.apps]]
  BY DEF CreateApp, activeKeys
<1>2. UNCHANGED <<rows, keys, defaults, born, plans, accepted>> /\ plan.apps \in Nat
  BY PlanValues DEF CreateApp, activeKeys, WritesInv, WritesTypeOK
<1> DEFINE r == [NoWrite EXCEPT !.at = "app", !.ceiling = plan.apps]
<1>3. r \in WriteRequests /\ r.at = "app" /\ r.ceiling = plan.apps
  BY <1>2 DEF NoWrite, WriteRequests
<1>4. writer' = [writer EXCEPT ![w] = r]
  BY <1>1
<1> HIDE DEF r
<1>5. writer' \in [Writers -> WriteRequests] /\ writer'[w] = r /\ \A v \in Writers \ {w} : writer'[v] = writer[v]
  BY <1>3, <1>4 DEF WritesInv, WritesTypeOK
<1>6. WritesTypeOK'
  BY <1>2, <1>5 DEF WritesInv, WritesTypeOK, Known
<1>7. EditInv'
  BY <1>2, <1>3, <1>5 DEF WritesInv, EditInv, Known
<1>8. CeilingInv'
  BY <1>2, <1>3, <1>5 DEF WritesInv, CeilingInv
<1> QED BY <1>2, <1>6, <1>7, <1>8, RequestsOnly DEF WritesInv

LEMMA CreateKeyKeeps ==
    ASSUME WritesInv, NEW w \in Writers, CreateKey(w)
    PROVE  WritesInv'
<1> USE Values
<1>1. PICK i \in Apps, plan \in plans :
        writer' = [writer EXCEPT ![w] = [NoWrite EXCEPT !.at = "key", !.id = i, !.ceiling = plan.keys]]
  BY DEF CreateKey, activeKeys
<1>2. UNCHANGED <<rows, keys, defaults, born, plans, accepted>> /\ plan.keys \in Nat /\ i \in Ids
  BY PlanValues DEF CreateKey, activeKeys, WritesInv, WritesTypeOK, Apps
<1> DEFINE r == [NoWrite EXCEPT !.at = "key", !.id = i, !.ceiling = plan.keys]
<1>3. r \in WriteRequests /\ r.at = "key" /\ r.ceiling = plan.keys
  BY <1>2 DEF NoWrite, WriteRequests
<1>4. writer' = [writer EXCEPT ![w] = r]
  BY <1>1
<1> HIDE DEF r
<1>5. writer' \in [Writers -> WriteRequests] /\ writer'[w] = r /\ \A v \in Writers \ {w} : writer'[v] = writer[v]
  BY <1>3, <1>4 DEF WritesInv, WritesTypeOK
<1>6. WritesTypeOK'
  BY <1>2, <1>5 DEF WritesInv, WritesTypeOK, Known
<1>7. EditInv'
  BY <1>2, <1>3, <1>5 DEF WritesInv, EditInv, Known
<1>8. CeilingInv'
  BY <1>2, <1>3, <1>5 DEF WritesInv, CeilingInv
<1> QED BY <1>2, <1>6, <1>7, <1>8, RequestsOnly DEF WritesInv

LEMMA InsertAppKeeps ==
    ASSUME WritesInv, NEW w \in Writers, InsertApp(w)
    PROVE  WritesInv'
<1> USE Values
<1>1. writer[w].at = "app" /\ Replied(w) /\ UNCHANGED <<plans, accepted>>
  BY DEF InsertApp, activeKeys
<1>2. CASE UNCHANGED <<born, rows, keys, defaults>>
  <2>1. writer' \in [Writers -> WriteRequests] /\ EditInv' /\ CeilingInv'
    BY <1>1, <1>2, RepliedKeeps
  <2> QED BY <1>1, <1>2, <2>1, RequestsOnly DEF WritesInv, WritesTypeOK, Known
<1>3. ASSUME NEW i \in AppIds \ born, Room(Cardinality(Apps), writer[w].ceiling), born' = born \cup {i},
             rows' = [j \in DOMAIN rows \cup {i} |-> IF j = i THEN NewRow ELSE rows[j]],
             keys' = [keys EXCEPT ![i] = 1], defaults' = defaults \cup {i}
      PROVE  WritesInv'
  <2>1. i \notin DOMAIN rows /\ i \in Ids /\ i # Provider
    BY WritesAssumption DEF WritesInv, WritesTypeOK
  <2>2. DOMAIN rows' = DOMAIN rows \cup {i} /\ rows'[i] = NewRow /\ \A j \in DOMAIN rows : rows'[j] = rows[j]
    BY <1>3, <2>1
  <2>3. writer' \in [Writers -> WriteRequests] /\ EditInv' /\ CeilingInv'
    <3>1. \A j \in born : j \in DOMAIN rows' => j \in DOMAIN rows /\
              (rows'[j] = rows[j] \/ rows'[j].revision = rows[j].revision + 1)
      BY <1>3, <2>2
    <3> QED BY <1>1, <1>3, <3>1, RepliedKeeps
  <2>4. WritesTypeOK'
    <3>1. rows' \in [DOMAIN rows' -> Rows]
      BY <1>3, <2>2 DEF WritesInv, WritesTypeOK
    <3> QED BY <1>1, <1>3, <2>1, <2>2, <2>3, <3>1 DEF WritesInv, WritesTypeOK, Known
  <2>5. UnbornInv'
    BY <1>1, <1>3 DEF WritesInv, UnbornInv
  <2>6. accepted[i] = {}
    BY <1>3, <2>1 DEF WritesInv, UnbornInv
  <2>7. AcceptedEditsStay' /\ KeyOpens'
    BY <1>1, <2>2, <2>6 DEF WritesInv, AcceptedEditsStay, KeyOpens
  <2>8. NeverAboveCeiling'
    <3>1. PICK plan \in plans : writer[w].ceiling = plan.apps
      BY <1>1 DEF WritesInv, CeilingInv
    <3>2. plan.apps \in Nat
      BY PlanValues DEF WritesInv, WritesTypeOK
    <3>3. Apps' = Apps \cup {i} /\ i \notin Apps
      BY <2>1, <2>2 DEF Apps
    <3>4. IsFiniteSet(Apps) /\ Cardinality(Apps) \in Nat
      BY AppsAreFinite, FS_CardinalityType DEF WritesInv
    <3>5. Cardinality(Apps') = Cardinality(Apps) + 1
      BY <3>3, <3>4, FS_AddElement
    <3>6. Cardinality(Apps') <= plan.apps
      BY <1>3, <3>1, <3>2, <3>4, <3>5 DEF Room
    <3>7. keys'[i] = 1 /\ i \in defaults' /\ \A j \in Apps : keys'[j] = keys[j] /\ (j \in defaults => j \in defaults')
      BY <1>3, <3>3, AppsAreFinite, PlanValues DEF WritesInv, WritesTypeOK
    <3>8. \A j \in Apps' : (keys'[j] = 1 /\ j \in defaults') \/ \E p \in plans : keys'[j] <= p.keys
      BY <3>3, <3>7 DEF WritesInv, NeverAboveCeiling
    <3> QED BY <1>1, <3>6, <3>8 DEF NeverAboveCeiling
  <2> QED BY <2>3, <2>4, <2>5, <2>7, <2>8 DEF WritesInv
<1> QED BY <1>2, <1>3 DEF InsertApp, activeKeys

LEMMA InsertKeyKeeps ==
    ASSUME WritesInv, NEW w \in Writers, InsertKey(w)
    PROVE  WritesInv'
<1> USE Values
<1> DEFINE r == writer[w]
<1>1. r.at = "key" /\ Replied(w) /\ UNCHANGED <<defaults, rows, born, plans, accepted>>
      /\ keys' = IF Known(r.id) /\ Room(keys[r.id], r.ceiling) THEN [keys EXCEPT ![r.id] = @ + 1] ELSE keys
  BY DEF InsertKey, activeKeys
<1>2. writer' \in [Writers -> WriteRequests] /\ EditInv' /\ CeilingInv'
  BY <1>1, RepliedKeeps
<1>3. keys \in [AppIds -> Nat] /\ Apps \subseteq AppIds
  BY AppsAreFinite DEF WritesInv, WritesTypeOK
<1>4. keys' \in [AppIds -> Nat]
      /\ \A j \in AppIds : keys'[j] = keys[j] \/ (Known(j) /\ j = r.id /\ Room(keys[j], r.ceiling) /\ keys'[j] = keys[j] + 1)
  <2> DEFINE i == r.id
  <2>1. CASE keys' = keys
    BY <1>3, <2>1
  <2>2. CASE Known(i) /\ Room(keys[i], r.ceiling) /\ keys' = [keys EXCEPT ![i] = @ + 1]
    <3> HIDE DEF i
    <3>1. keys' \in [AppIds -> Nat]
      <4>1. CASE i \in AppIds
        <5>1. keys[i] + 1 \in Nat
          BY <1>3, <4>1
        <5> QED BY <1>3, <2>2, <5>1
      <4>2. CASE i \notin AppIds
        BY <1>3, <2>2, <4>2
      <4> QED BY <4>1, <4>2
    <3>2. \A j \in AppIds \ {i} : keys'[j] = keys[j]
      BY <1>3, <2>2
    <3>3. i \in AppIds => keys'[i] = keys[i] + 1
      BY <1>3, <2>2
    <3> QED BY <2>2, <3>1, <3>2, <3>3 DEF i
  <2> QED BY <1>1, <2>1, <2>2
<1>5. WritesTypeOK'
  BY <1>1, <1>2, <1>4 DEF WritesInv, WritesTypeOK, Known
<1>6. UnbornInv' /\ AcceptedEditsStay' /\ KeyOpens'
  BY <1>1 DEF WritesInv, UnbornInv, AcceptedEditsStay, KeyOpens
<1>7. NeverAboveCeiling'
  <2>1. PICK plan \in plans : r.ceiling = plan.keys
    BY <1>1 DEF WritesInv, CeilingInv
  <2>2. plan.keys \in Nat
    BY PlanValues DEF WritesInv, WritesTypeOK
  <2>3. ASSUME NEW j \in Apps PROVE (keys'[j] = 1 /\ j \in defaults) \/ \E p \in plans : keys'[j] <= p.keys
    <3>1. CASE keys'[j] = keys[j]
      BY <3>1 DEF WritesInv, NeverAboveCeiling
    <3>2. CASE Room(keys[j], r.ceiling) /\ keys'[j] = keys[j] + 1
      BY <1>3, <2>1, <2>2, <3>2 DEF Room
    <3> QED BY <1>3, <1>4, <3>1, <3>2
  <2> QED BY <1>1, <2>3 DEF WritesInv, NeverAboveCeiling, Apps
<1> QED BY <1>2, <1>5, <1>6, <1>7 DEF WritesInv

LEMMA RevokeKeeps ==
    ASSUME WritesInv, NEW i \in AppIds, Revoke(i)
    PROVE  WritesInv'
<1>1. keys[i] > 0 /\ keys' = [keys EXCEPT ![i] = @ - 1] /\ UNCHANGED <<rows, born, plans, writer, accepted>>
      /\ \/ defaults' = defaults \ {i}
         \/ (i \in defaults => keys[i] > 1) /\ defaults' = defaults
  BY DEF Revoke
<1>2. keys \in [AppIds -> Nat] /\ Apps \subseteq AppIds
  BY AppsAreFinite DEF WritesInv, WritesTypeOK
<1>3. keys' \in [AppIds -> Nat] /\ \A j \in AppIds : keys'[j] = keys[j] \/ (j = i /\ keys'[j] = keys[j] - 1)
  BY <1>1, <1>2
<1>4. WritesTypeOK'
  BY <1>1, <1>2, <1>3 DEF WritesInv, WritesTypeOK, Known
<1>5. EditInv' /\ CeilingInv' /\ UnbornInv' /\ AcceptedEditsStay' /\ KeyOpens'
  BY <1>1 DEF WritesInv, EditInv, CeilingInv, UnbornInv, AcceptedEditsStay, KeyOpens, Known
<1>6. ASSUME NEW j \in Apps PROVE (keys'[j] = 1 /\ j \in defaults') \/ \E p \in plans : keys'[j] <= p.keys
  <2>1. keys[j] \in Nat /\ (keys'[j] = keys[j] \/ (j = i /\ keys'[j] = keys[j] - 1))
    BY <1>2, <1>3
  <2>2. CASE keys[j] = 1 /\ j \in defaults
    <3>1. CASE j = i
      <4>1. keys'[j] = 0
        BY <1>1, <1>2, <2>2, <3>1
      <4>2. PICK p \in plans : TRUE
        BY DEF WritesInv, WritesTypeOK
      <4>3. p.keys \in Nat
        BY PlanValues DEF WritesInv, WritesTypeOK
      <4> QED BY <4>1, <4>3
    <3>2. CASE j # i
      BY <1>1, <2>1, <2>2, <3>2
    <3> QED BY <3>1, <3>2
  <2>3. CASE \E p \in plans : keys[j] <= p.keys
    <3>1. PICK p \in plans : keys[j] <= p.keys
      BY <2>3
    <3>2. p.keys \in Nat
      BY PlanValues DEF WritesInv, WritesTypeOK
    <3>3. keys'[j] <= p.keys
      BY <2>1, <3>1, <3>2
    <3> QED BY <3>3
  <2> QED BY <2>2, <2>3 DEF WritesInv, NeverAboveCeiling
<1>7. NeverAboveCeiling'
  BY <1>1, <1>6 DEF WritesInv, NeverAboveCeiling, Apps
<1> QED BY <1>4, <1>5, <1>7 DEF WritesInv

LEMMA DeleteKeeps ==
    ASSUME WritesInv, NEW i \in Ids, Delete(i)
    PROVE  WritesInv'
<1>1. /\ rows' = [j \in DOMAIN rows \ {i} |-> rows[j]]
      /\ keys' = [j \in AppIds |-> IF j = i THEN 0 ELSE keys[j]] /\ defaults' = defaults \ {i}
      /\ UNCHANGED <<born, plans, writer, accepted>>
  BY DEF Delete
<1>2. DOMAIN rows' = DOMAIN rows \ {i} /\ \A j \in DOMAIN rows' : rows'[j] = rows[j]
  BY <1>1
<1>3. keys \in [AppIds -> Nat] /\ rows \in [DOMAIN rows -> Rows]
  BY DEF WritesInv, WritesTypeOK
<1>4. keys' \in [AppIds -> Nat] /\ rows' \in [DOMAIN rows' -> Rows]
  BY <1>1, <1>2, <1>3
<1>5. WritesTypeOK'
  BY <1>1, <1>2, <1>4 DEF WritesInv, WritesTypeOK, Known
<1>6. EditInv' /\ CeilingInv' /\ UnbornInv' /\ AcceptedEditsStay' /\ KeyOpens'
  BY <1>1, <1>2 DEF WritesInv, EditInv, CeilingInv, UnbornInv, AcceptedEditsStay, KeyOpens, Known
<1>7. NeverAboveCeiling'
  <2>1. PICK plan \in plans : Cardinality(Apps) <= plan.apps
    BY DEF WritesInv, NeverAboveCeiling
  <2>2. plan.apps \in Nat
    BY PlanValues DEF WritesInv, WritesTypeOK
  <2>3. IsFiniteSet(Apps) /\ Apps' = Apps \ {i} /\ Apps \subseteq AppIds
    BY <1>2, AppsAreFinite DEF WritesInv, Apps
  <2>4. Cardinality(Apps') <= Cardinality(Apps) /\ Cardinality(Apps) \in Nat /\ Cardinality(Apps') \in Nat
    BY <2>3, FS_Subset, FS_CardinalityType
  <2>5. Cardinality(Apps') <= plan.apps
    BY <2>1, <2>2, <2>4
  <2>6. \A j \in Apps' : keys'[j] = keys[j] /\ j \in Apps /\ (j \in defaults => j \in defaults')
    BY <1>1, <2>3
  <2> QED BY <1>1, <2>5, <2>6 DEF WritesInv, NeverAboveCeiling
<1> QED BY <1>5, <1>6, <1>7 DEF WritesInv

LEMMA ChangePlanKeeps ==
    ASSUME WritesInv, ChangePlan
    PROVE  WritesInv'
<1>1. plans \subseteq plans' /\ plans' \subseteq Ceilings /\ UNCHANGED <<rows, keys, defaults, born, writer, accepted>>
  BY DEF ChangePlan, activeKeys, WritesInv, WritesTypeOK
<1>2. WritesTypeOK'
  BY <1>1 DEF WritesInv, WritesTypeOK, Known
<1>3. EditInv' /\ UnbornInv' /\ AcceptedEditsStay' /\ KeyOpens'
  BY <1>1 DEF WritesInv, EditInv, UnbornInv, AcceptedEditsStay, KeyOpens, Known
<1>4. CeilingInv'
  BY <1>1 DEF WritesInv, CeilingInv
<1>5. NeverAboveCeiling'
  BY <1>1 DEF WritesInv, NeverAboveCeiling, Apps
<1> QED BY <1>2, <1>3, <1>4, <1>5 DEF WritesInv

LEMMA WritesBegin == ASSUME WritesInit PROVE WritesInv
<1> USE Values DEF WritesInit
<1>1. Apps = {} /\ Cardinality(Apps) = 0
  BY FS_EmptySet DEF Apps
<1>2. PICK plan \in Ceilings : plans = {plan}
  OBVIOUS
<1>3. WritesTypeOK
  BY <1>2 DEF WritesTypeOK
<1>4. EditInv /\ CeilingInv /\ UnbornInv
  BY DEF EditInv, CeilingInv, UnbornInv
<1>5. AcceptedEditsStay /\ KeyOpens
  BY DEF AcceptedEditsStay, KeyOpens
<1>6. NeverAboveCeiling
  BY <1>1, <1>2, PlanValues DEF NeverAboveCeiling
<1> QED BY <1>3, <1>4, <1>5, <1>6 DEF WritesInv

LEMMA WritesStep == ASSUME WritesInv, [WritesNext]_writeVars PROVE WritesInv'
<1>1. CASE UNCHANGED writeVars
  BY <1>1 DEF writeVars, activeKeys, WritesInv, WritesTypeOK, EditInv, CeilingInv, UnbornInv, AcceptedEditsStay, KeyOpens,
              NeverAboveCeiling, Known, Apps
<1>2. CASE WritesNext
  BY <1>2, SendKeeps, JudgedKeeps, UpdateKeeps, CreateAppKeeps, CreateKeyKeeps, InsertAppKeeps, InsertKeyKeeps,
     RevokeKeeps, DeleteKeeps, ChangePlanKeeps DEF WritesNext
<1> QED BY <1>1, <1>2

LEMMA WritesHold == WritesSpec => []WritesInv
BY WritesBegin, WritesStep, PTL DEF WritesSpec

\* However many editors prepare changes of one row at once, and whatever is deleted
\* meanwhile, every edit that was answered as stored is in the row.
THEOREM NoEditIsLost == WritesSpec => []AcceptedEditsStay
<1>1. WritesInv => AcceptedEditsStay
  BY DEF WritesInv
<1> QED BY <1>1, WritesHold, PTL

\* A provider's key is sealed for the origin its row names, after any number of
\* moves, returns, rotations and renames that race.
THEOREM StoredKeyOpens == WritesSpec => []KeyOpens
<1>1. WritesInv => KeyOpens
  BY DEF WritesInv
<1> QED BY <1>1, WritesHold, PTL

\* However many creations race, under plans read however long before, the
\* applications and the active keys of one stay within what some plan of the account
\* allowed, a ceiling of no keys included: beyond it there is never more than the
\* one key an application came with, alone.
THEOREM CeilingsHold == WritesSpec => []NeverAboveCeiling
<1>1. WritesInv => NeverAboveCeiling
  BY DEF WritesInv
<1> QED BY <1>1, WritesHold, PTL

-----------------------------------------------------------------------------
(* The caches of the rows.                                                   *)

CacheEntry   == [by: Lookups \cup {"none"}, expires: Nat]
LookupRecord == [at: Isolates \cup {"nowhere"}, by: Lookups \cup {"none"},
                 phase: {"new", "waiting", "reading", "served", "answered", "failed"},
                 since: Nat, cleared: Nat, version: Nat, floor: Nat, answered: Nat]

CacheTypeOK ==
    /\ cache \in RowCaches /\ time \in Nat
    /\ changes \in Seq(Nat) /\ writers \subseteq Isolates
    /\ entries \in [Isolates -> CacheEntry]
    /\ cleared \in [Isolates -> Nat]
    /\ lookups \in [Lookups -> LookupRecord]
    /\ known \in [Isolates -> Nat]

Slack == IF FromAnswer THEN ReadTime ELSE 0

\* A version that was replaced was not until that instant.
CurrentAt(version, instant) ==
    /\ version <= Version
    /\ version < Version => instant <= changes[version + 1]

HistoryInv ==
    /\ \A k \in 1..Len(changes) : changes[k] <= time
    /\ \A i \in Isolates : known[i] <= Version

\* A read on its way, which knows whether its isolate invalidated anything since.
ReadInv(l) ==
    lookups[l].phase \in {"reading", "served"} =>
        /\ lookups[l].by = l /\ lookups[l].at \in Isolates
        /\ time <= lookups[l].since + ReadTime
        /\ lookups[l].floor <= Version
        /\ lookups[l].cleared <= cleared[lookups[l].at]
        /\ lookups[l].cleared = cleared[lookups[l].at] => lookups[l].floor = known[lookups[l].at]
        /\ lookups[l].phase = "served" => lookups[l].floor <= lookups[l].version

\* What a read was served was the row when it began.
ServedInv(l) ==
    lookups[l].phase \in {"reading", "served", "answered"} /\ lookups[l].by = l =>
        /\ lookups[l].since <= time
        /\ lookups[l].phase # "reading" => CurrentAt(lookups[l].version, lookups[l].since)

\* A request that waits for the read of another.
WaitInv(l) ==
    lookups[l].phase = "waiting" =>
        /\ Shares /\ lookups[l].by # "none" /\ lookups[lookups[l].by].phase \in {"reading", "served"}
        /\ lookups[l].floor <= Version
        /\ lookups[lookups[l].by].phase = "served" => lookups[l].floor <= lookups[lookups[l].by].version

AnswerInv(l) ==
    lookups[l].phase = "answered" =>
        /\ Guarded => lookups[l].floor <= lookups[l].version
        /\ lookups[l].answered <= time /\ lookups[l].version <= Version
        /\ lookups[l].version < Version =>
              LET stale == lookups[l].answered - changes[lookups[l].version + 1]
              IN  stale < Ttl(lookups[l].version) + Slack \/ stale <= ReadTime

\* An entry is a read made in its isolate, no older than the isolate's own change
\* where that is guarded, and its window is counted from the read.
EntryInv(i) ==
    entries[i].by # "none" =>
        LET read == lookups[entries[i].by] IN
        /\ read.by = entries[i].by /\ read.at = i
        /\ read.phase = "answered" \/ (Shares /\ read.phase \in {"reading", "served"})
        /\ entries[i].expires <= read.since + Ttl(read.version) + Slack
        /\ Guarded /\ read.phase # "reading" => known[i] <= read.version

CachesInv ==
    /\ CacheTypeOK /\ HistoryInv
    /\ \A l \in Lookups : ReadInv(l) /\ ServedInv(l) /\ WaitInv(l) /\ AnswerInv(l)
    /\ \A i \in Isolates : EntryInv(i)

-----------------------------------------------------------------------------
LEMMA CacheConstants ==
    /\ HitTtl \in Nat /\ HitTtl > 0 /\ MissTtl \in Nat /\ MissTtl > 0 /\ ReadTime \in Nat
    /\ RowCaches \subseteq {"app", "providers", "account", "blocked", "attestKey", "apiKey"}
  BY CachesAssumption

LEMMA Windows ==
    /\ Slack \in Nat
    /\ \A version \in Nat : Ttl(version) \in Nat /\ Ttl(version) > 0
    /\ Shares => Guarded /\ \A v, w \in Nat : Ttl(v) = Ttl(w)
  BY CacheConstants DEF Slack, Ttl, Shares, Guarded

\* The records a lookup's steps make.
LEMMA AnsweredShape ==
    ASSUME NEW lookup \in LookupRecord, NEW version \in Nat, time \in Nat
    PROVE  LET a == AnsweredBy(lookup, version)
           IN  /\ a \in LookupRecord /\ a.phase = "answered" /\ a.version = version /\ a.answered = time
               /\ a.at = lookup.at /\ a.by = lookup.by /\ a.floor = lookup.floor
               /\ a.since = lookup.since /\ a.cleared = lookup.cleared
<1>1. PICK a : a = [lookup EXCEPT !.phase = "answered", !.version = version, !.answered = time]
  OBVIOUS
<1>2. /\ a \in LookupRecord /\ a.phase = "answered" /\ a.version = version /\ a.answered = time
      /\ a.at = lookup.at /\ a.by = lookup.by /\ a.floor = lookup.floor
      /\ a.since = lookup.since /\ a.cleared = lookup.cleared
  BY <1>1 DEF LookupRecord
<1> QED BY <1>1, <1>2 DEF AnsweredBy

LEMMA ServedShape ==
    ASSUME NEW lookup \in LookupRecord, NEW version \in Nat
    PROVE  LET s == [lookup EXCEPT !.phase = "served", !.version = version]
           IN  /\ s \in LookupRecord /\ s.phase = "served" /\ s.version = version
               /\ s.at = lookup.at /\ s.by = lookup.by /\ s.floor = lookup.floor
               /\ s.since = lookup.since /\ s.cleared = lookup.cleared
<1>1. PICK s : s = [lookup EXCEPT !.phase = "served", !.version = version]
  OBVIOUS
<1>2. /\ s \in LookupRecord /\ s.phase = "served" /\ s.version = version
      /\ s.at = lookup.at /\ s.by = lookup.by /\ s.floor = lookup.floor
      /\ s.since = lookup.since /\ s.cleared = lookup.cleared
  BY <1>1 DEF LookupRecord
<1> QED BY <1>1, <1>2

LEMMA FailedShape ==
    ASSUME NEW lookup \in LookupRecord
    PROVE  /\ [lookup EXCEPT !.phase = "failed"] \in LookupRecord
           /\ [lookup EXCEPT !.phase = "failed"].phase = "failed"
  BY DEF LookupRecord

LEMMA EntryShape ==
    /\ NoEntry \in CacheEntry /\ NoEntry.by = "none"
    /\ \A l \in Lookups, from \in Nat, version \in Nat :
          /\ Entry(l, from, version) \in CacheEntry
          /\ Entry(l, from, version).by = l /\ Entry(l, from, version).expires = from + Ttl(version)
<1>1. NoEntry \in CacheEntry /\ NoEntry.by = "none"
  BY DEF NoEntry, CacheEntry
<1>2. ASSUME NEW l \in Lookups, NEW from \in Nat, NEW version \in Nat
      PROVE  /\ Entry(l, from, version) \in CacheEntry
             /\ Entry(l, from, version).by = l /\ Entry(l, from, version).expires = from + Ttl(version)
  BY Windows DEF Entry, CacheEntry
<1> QED BY <1>1, <1>2

LEMMA CacheTypes ==
    ASSUME CachesInv
    PROVE  /\ cache \in RowCaches /\ time \in Nat /\ changes \in Seq(Nat) /\ Version \in Nat
           /\ \A k \in 1..Len(changes) : changes[k] \in Nat
           /\ \A i \in Isolates : entries[i] \in CacheEntry /\ cleared[i] \in Nat /\ known[i] \in Nat
           /\ \A i \in Isolates : entries[i].by \in Lookups \cup {"none"} /\ entries[i].expires \in Nat
           /\ \A l \in Lookups :
                 /\ lookups[l] \in LookupRecord /\ lookups[l].since \in Nat /\ lookups[l].cleared \in Nat
                 /\ lookups[l].version \in Nat /\ lookups[l].floor \in Nat /\ lookups[l].answered \in Nat
                 /\ lookups[l].by \in Lookups \cup {"none"}
<1>1. CacheTypeOK
  BY DEF CachesInv
<1>2. Version \in Nat /\ \A k \in 1..Len(changes) : changes[k] \in Nat
  BY <1>1, LenProperties, ElementOfSeq DEF CacheTypeOK, Version
<1> QED BY <1>1, <1>2 DEF CacheTypeOK, CacheEntry, LookupRecord

\* A step that changes a lookup which has read nothing yet disturbs no other, nor
\* the entries it leaves.
LEMMA OthersStay ==
    ASSUME CachesInv, NEW l \in Lookups, lookups[l].phase = "new", NEW record,
           lookups' = [lookups EXCEPT ![l] = record],
           UNCHANGED <<cache, time, changes, cleared, known>>
    PROVE  /\ \A m \in Lookups \ {l} : ReadInv(m)' /\ ServedInv(m)' /\ WaitInv(m)' /\ AnswerInv(m)'
           /\ \A i \in Isolates : entries'[i] = entries[i] => EntryInv(i)'
           /\ HistoryInv'
<1>1. \A m \in Lookups \ {l} : lookups'[m] = lookups[m]
  BY CacheTypes DEF CachesInv, CacheTypeOK
<1>2. ASSUME NEW m \in Lookups \ {l} PROVE ReadInv(m)' /\ ServedInv(m)' /\ WaitInv(m)' /\ AnswerInv(m)'
  <2>1. ReadInv(m)' /\ ServedInv(m)'
    BY <1>1 DEF CachesInv, ReadInv, ServedInv, CurrentAt, Version
  <2>2. WaitInv(m)'
    <3>1. lookups[m].phase = "waiting" => lookups'[lookups[m].by] = lookups[lookups[m].by]
      BY <1>1, CacheTypes DEF CachesInv, WaitInv
    <3> QED BY <1>1, <3>1 DEF CachesInv, WaitInv, Shares, Version
  <2>3. AnswerInv(m)'
    BY <1>1 DEF CachesInv, AnswerInv, Guarded, Ttl, Slack, FromAnswer, Version
  <2> QED BY <2>1, <2>2, <2>3
<1>3. ASSUME NEW i \in Isolates, entries'[i] = entries[i] PROVE EntryInv(i)'
  <2>1. entries[i].by # "none" => lookups'[entries[i].by] = lookups[entries[i].by]
    BY <1>1, CacheTypes DEF CachesInv, EntryInv
  <2> QED BY <1>3, <2>1 DEF CachesInv, EntryInv, Shares, Guarded, Ttl, Slack, FromAnswer
<1>4. HistoryInv'
  BY DEF CachesInv, HistoryInv, Version
<1> QED BY <1>2, <1>3, <1>4

-----------------------------------------------------------------------------
(* One lemma for each step of the caches.                                    *)

LEMMA CachesBegin == CacheInit => CachesInv
<1> SUFFICES ASSUME CacheInit PROVE CachesInv
  OBVIOUS
<1>1. Lookup0 \in LookupRecord /\ Lookup0.phase = "new"
  BY DEF Lookup0, LookupRecord
<1>2. \A l \in Lookups : lookups[l] = Lookup0
  BY DEF CacheInit
<1>3. \A i \in Isolates : entries[i] = NoEntry /\ known[i] = 0
  BY DEF CacheInit
<1>4. changes \in Seq(Nat) /\ Len(changes) = 0 /\ 1..Len(changes) = {}
  BY DEF CacheInit
<1>5. CacheTypeOK
  BY <1>1, <1>4, EntryShape DEF CacheInit, CacheTypeOK
<1>6. HistoryInv
  BY <1>3, <1>4 DEF HistoryInv, Version
<1>7. \A l \in Lookups : ReadInv(l) /\ ServedInv(l) /\ WaitInv(l) /\ AnswerInv(l)
  BY <1>1, <1>2 DEF ReadInv, ServedInv, WaitInv, AnswerInv
<1>8. \A i \in Isolates : EntryInv(i)
  BY <1>3, EntryShape DEF EntryInv
<1> QED BY <1>5, <1>6, <1>7, <1>8 DEF CachesInv

LEMMA HitKeeps == ASSUME CachesInv, NEW l \in Lookups, NEW i \in Isolates, Hit(l, i) PROVE CachesInv'
<1> DEFINE b == entries[i].by
<1>1. /\ lookups[l].phase = "new" /\ b # "none" /\ b \in Lookups /\ time < entries[i].expires
      /\ UNCHANGED <<cache, time, changes, writers, entries, cleared, known>>
  BY CacheTypes DEF Hit, Fresh, rowVars
<1>2. EntryInv(i) /\ ServedInv(b)
  BY <1>1 DEF CachesInv
<1>3. /\ lookups[b].by = b /\ lookups[b].at = i
      /\ lookups[b].phase = "answered" \/ (Shares /\ lookups[b].phase \in {"reading", "served"})
      /\ entries[i].expires <= lookups[b].since + Ttl(lookups[b].version) + Slack
      /\ Guarded /\ lookups[b].phase # "reading" => known[i] <= lookups[b].version
  BY <1>1, <1>2 DEF EntryInv
<1>4. PICK joined : joined = [lookups[l] EXCEPT !.at = i, !.floor = known[i], !.by = b]
  OBVIOUS
<1>5. PICK waits : waits = [joined EXCEPT !.phase = "waiting"]
  OBVIOUS
<1>6. /\ joined \in LookupRecord /\ joined.floor = known[i] /\ joined.by = b
      /\ waits \in LookupRecord /\ waits.phase = "waiting" /\ waits.floor = known[i] /\ waits.by = b
  <2>1. lookups[l] \in LookupRecord /\ known[i] \in Nat /\ i \in Isolates
    BY CacheTypes
  <2>2. joined \in LookupRecord /\ joined.floor = known[i] /\ joined.by = b
    BY <1>1, <1>4, <2>1 DEF LookupRecord
  <2> QED BY <1>5, <2>2 DEF LookupRecord
<1>7. PICK record : /\ lookups' = [lookups EXCEPT ![l] = record]
                    /\ record = IF lookups[b].phase = "answered" THEN AnsweredBy(joined, lookups[b].version)
                                ELSE waits
  BY <1>4, <1>5 DEF Hit
<1>8. /\ record \in LookupRecord /\ record.by = b /\ record.floor = known[i]
      /\ lookups[b].phase = "answered" =>
            record.phase = "answered" /\ record.version = lookups[b].version /\ record.answered = time
  <2>1. lookups[b].version \in Nat /\ time \in Nat
    BY <1>1, CacheTypes
  <2>2. CASE lookups[b].phase = "answered"
    <3>1. record = AnsweredBy(joined, lookups[b].version)
      BY <1>7, <2>2
    <3> QED BY <1>6, <2>1, <3>1, AnsweredShape
  <2>3. CASE lookups[b].phase # "answered"
    BY <1>6, <1>7, <2>3
  <2> QED BY <2>2, <2>3
<1>9. lookups'[l] = record /\ lookups'[b] = lookups[b] /\ l # b
  BY <1>1, <1>3, <1>7 DEF CachesInv, CacheTypeOK
<1>10. ReadInv(l)' /\ ServedInv(l)' /\ WaitInv(l)' /\ AnswerInv(l)'
  <2>1. CASE lookups[b].phase = "answered"
    <3>1. /\ record.phase = "answered" /\ record.version = lookups[b].version /\ record.answered = time
      BY <1>8, <2>1
    <3>2. CurrentAt(record.version, lookups[b].since)
      BY <1>2, <1>3, <2>1, <3>1 DEF ServedInv
    <3>3. record.version < Version =>
             record.answered - changes[record.version + 1] < Ttl(record.version) + Slack
      <4> SUFFICES ASSUME record.version < Version
                   PROVE  record.answered - changes[record.version + 1] < Ttl(record.version) + Slack
        OBVIOUS
      <4>1. /\ record.version \in Nat /\ Version \in Nat /\ time \in Nat /\ lookups[b].since \in Nat
            /\ entries[i].expires \in Nat
        BY <1>1, <3>1, CacheTypes
      <4>2. record.version + 1 \in 1..Len(changes)
        BY <4>1 DEF Version
      <4>3. changes[record.version + 1] \in Nat /\ lookups[b].since <= changes[record.version + 1]
        BY <3>2, <4>2, CacheTypes DEF CurrentAt
      <4>4. Ttl(record.version) \in Nat /\ Slack \in Nat
        BY <4>1, Windows
      <4>5. time < lookups[b].since + Ttl(record.version) + Slack
        BY <1>1, <1>3, <3>1, <4>1, <4>4
      <4> QED BY <3>1, <4>1, <4>3, <4>4, <4>5
    <3>4. Guarded => record.floor <= record.version
      BY <1>3, <1>8, <2>1, <3>1
    <3>5. ReadInv(l)' /\ WaitInv(l)' /\ ServedInv(l)'
      BY <1>8, <1>9, <3>1 DEF ReadInv, WaitInv, ServedInv
    <3>6. record.answered <= time /\ record.version <= Version
      BY <3>1, <3>2, CacheTypes DEF CurrentAt
    <3>7. AnswerInv(l)'
      BY <1>1, <1>9, <3>3, <3>4, <3>6 DEF AnswerInv, Guarded, Ttl, Slack, FromAnswer, Version
    <3> QED BY <3>5, <3>7
  <2>2. CASE lookups[b].phase # "answered"
    <3>1. record.phase = "waiting"
      BY <1>6, <1>7, <2>2
    <3>2. ReadInv(l)' /\ ServedInv(l)' /\ AnswerInv(l)'
      BY <1>9, <3>1 DEF ReadInv, ServedInv, AnswerInv
    <3>3. known[i] <= Version /\ Shares /\ Guarded
      BY <1>3, <2>2, Windows DEF CachesInv, HistoryInv
    <3>4. WaitInv(l)'
      BY <1>1, <1>3, <1>8, <1>9, <2>2, <3>3 DEF WaitInv, Version, Shares
    <3> QED BY <3>2, <3>4
  <2> QED BY <2>1, <2>2
<1>11. /\ \A m \in Lookups \ {l} : ReadInv(m)' /\ ServedInv(m)' /\ WaitInv(m)' /\ AnswerInv(m)'
      /\ \A j \in Isolates : EntryInv(j)'
      /\ HistoryInv'
  BY <1>1, <1>7, OthersStay
<1>12. CacheTypeOK'
  BY <1>1, <1>7, <1>8 DEF CachesInv, CacheTypeOK
<1> QED BY <1>10, <1>11, <1>12 DEF CachesInv

LEMMA StartReadKeeps == ASSUME CachesInv, NEW l \in Lookups, NEW i \in Isolates, StartRead(l, i) PROVE CachesInv'
<1>1. /\ lookups[l].phase = "new"
      /\ UNCHANGED <<cache, time, changes, writers, cleared, known>>
      /\ entries' = [entries EXCEPT ![i] =
            IF Shares THEN Entry(l, time, 1) ELSE IF cache = "apiKey" THEN NoEntry ELSE entries[i]]
  BY DEF StartRead, rowVars
<1>2. PICK record :
        /\ record = [lookups[l] EXCEPT !.at = i, !.phase = "reading", !.by = l, !.since = time,
                                       !.cleared = cleared[i], !.floor = known[i]]
        /\ lookups' = [lookups EXCEPT ![l] = record]
  BY DEF StartRead
<1>3. /\ record \in LookupRecord /\ record.at = i /\ record.phase = "reading" /\ record.by = l
      /\ record.since = time /\ record.cleared = cleared[i] /\ record.floor = known[i]
  <2>1. lookups[l] \in LookupRecord /\ time \in Nat /\ cleared[i] \in Nat /\ known[i] \in Nat
    BY CacheTypes
  <2>2. l \in Lookups /\ i \in Isolates
    OBVIOUS
  <2> QED BY <1>2, <2>1, <2>2 DEF LookupRecord
<1>4. lookups'[l] = record
  BY <1>2 DEF CachesInv, CacheTypeOK
<1>5. ReadInv(l)' /\ ServedInv(l)' /\ WaitInv(l)' /\ AnswerInv(l)'
  <2>1. known[i] <= Version /\ cleared[i] \in Nat /\ time \in Nat /\ ReadTime \in Nat
    BY CacheTypes, CacheConstants DEF CachesInv, HistoryInv
  <2>2. time <= time + ReadTime /\ cleared[i] <= cleared[i] /\ time <= time
    BY <2>1
  <2> QED BY <1>1, <1>3, <1>4, <2>1, <2>2 DEF ReadInv, ServedInv, WaitInv, AnswerInv, Version
<1>6. /\ \A m \in Lookups \ {l} : ReadInv(m)' /\ ServedInv(m)' /\ WaitInv(m)' /\ AnswerInv(m)'
      /\ \A j \in Isolates : entries'[j] = entries[j] => EntryInv(j)'
      /\ HistoryInv'
  BY <1>1, <1>2, OthersStay
<1>7. /\ \A j \in Isolates \ {i} : entries'[j] = entries[j]
      /\ entries'[i] = IF Shares THEN Entry(l, time, 1) ELSE IF cache = "apiKey" THEN NoEntry ELSE entries[i]
  BY <1>1 DEF CachesInv, CacheTypeOK
<1>8. EntryInv(i)'
  <2>1. CASE Shares
    <3>1. entries'[i].by = l /\ entries'[i].expires = time + Ttl(1)
      BY <1>7, <2>1, EntryShape, CacheTypes
    <3>2. record.version \in Nat /\ time \in Nat
      BY <1>3, CacheTypes DEF LookupRecord
    <3>3. Ttl(record.version) = Ttl(1) /\ Ttl(1) \in Nat /\ Slack \in Nat
      BY <2>1, <3>2, Windows
    <3>4. time + Ttl(1) <= record.since + Ttl(record.version) + Slack
      BY <1>3, <3>2, <3>3
    <3> QED BY <1>1, <1>3, <1>4, <2>1, <3>1, <3>4 DEF EntryInv, Shares, Guarded, Ttl, Slack, FromAnswer
  <2>2. CASE ~Shares /\ cache = "apiKey"
    BY <1>7, <2>2, EntryShape DEF EntryInv
  <2>3. CASE ~Shares /\ cache # "apiKey"
    BY <1>6, <1>7, <2>3
  <2> QED BY <2>1, <2>2, <2>3
<1>9. CacheTypeOK'
  <2>1. entries' \in [Isolates -> CacheEntry]
    BY <1>1, EntryShape, CacheTypes DEF CachesInv, CacheTypeOK
  <2> QED BY <1>1, <1>2, <1>3, <2>1 DEF CachesInv, CacheTypeOK
<1> QED BY <1>5, <1>6, <1>7, <1>8, <1>9 DEF CachesInv

LEMMA ServeReadKeeps == ASSUME CachesInv, NEW l \in Lookups, ServeRead(l) PROVE CachesInv'
<1>1. lookups[l].phase = "reading" /\ UNCHANGED <<cache, time, changes, writers, entries, cleared, known>>
  BY DEF ServeRead, rowVars
<1>2. PICK record : /\ record = [lookups[l] EXCEPT !.phase = "served", !.version = Version]
                    /\ lookups' = [lookups EXCEPT ![l] = record]
  BY DEF ServeRead
<1>3. /\ record \in LookupRecord /\ record.phase = "served" /\ record.version = Version
      /\ record.at = lookups[l].at /\ record.by = lookups[l].by /\ record.floor = lookups[l].floor
      /\ record.since = lookups[l].since /\ record.cleared = lookups[l].cleared
  <2>1. lookups[l] \in LookupRecord /\ Version \in Nat
    BY CacheTypes
  <2> QED BY <1>2, <2>1, ServedShape
<1>4. lookups'[l] = record /\ \A m \in Lookups \ {l} : lookups'[m] = lookups[m]
  BY <1>2 DEF CachesInv, CacheTypeOK
<1>5. ReadInv(l) /\ ServedInv(l)
  BY DEF CachesInv
<1>6. ReadInv(l)' /\ ServedInv(l)' /\ WaitInv(l)' /\ AnswerInv(l)'
  <2>1. CurrentAt(record.version, record.since)
    BY <1>3, CacheTypes DEF CurrentAt
  <2> QED BY <1>1, <1>3, <1>4, <1>5, <2>1 DEF ReadInv, ServedInv, WaitInv, AnswerInv, Version, CurrentAt
<1>7. ASSUME NEW m \in Lookups \ {l} PROVE ReadInv(m)' /\ ServedInv(m)' /\ WaitInv(m)' /\ AnswerInv(m)'
  <2>1. ReadInv(m)' /\ ServedInv(m)'
    BY <1>1, <1>4 DEF CachesInv, ReadInv, ServedInv, CurrentAt, Version
  <2>2. WaitInv(m)'
    <3> SUFFICES ASSUME lookups[m].phase = "waiting" PROVE WaitInv(m)'
      BY <1>4 DEF WaitInv
    <3>1. /\ Shares /\ lookups[m].by # "none" /\ lookups[lookups[m].by].phase \in {"reading", "served"}
          /\ lookups[m].floor <= Version
          /\ lookups[lookups[m].by].phase = "served" => lookups[m].floor <= lookups[lookups[m].by].version
      BY DEF CachesInv, WaitInv
    <3>2. lookups[m].by \in Lookups
      BY <3>1, CacheTypes
    <3> QED BY <1>1, <1>3, <1>4, <3>1, <3>2 DEF WaitInv, Shares, Version
  <2>3. AnswerInv(m)'
    BY <1>1, <1>4 DEF CachesInv, AnswerInv, Guarded, Ttl, Slack, FromAnswer, Version
  <2> QED BY <2>1, <2>2, <2>3
<1>8. ASSUME NEW i \in Isolates PROVE EntryInv(i)'
  <2> SUFFICES ASSUME entries[i].by # "none" PROVE EntryInv(i)'
    BY <1>1 DEF EntryInv
  <2>1. EntryInv(i) /\ entries[i].by \in Lookups
    BY CacheTypes DEF CachesInv
  <2>2. CASE entries[i].by # l
    BY <1>1, <1>4, <2>1, <2>2 DEF EntryInv, Shares, Guarded, Ttl, Slack, FromAnswer
  <2>3. CASE entries[i].by = l
    <3>1. Shares /\ Ttl(record.version) = Ttl(lookups[l].version) /\ known[i] <= record.version
      BY <1>1, <1>3, <2>1, <2>3, CacheTypes, Windows DEF EntryInv, CachesInv, HistoryInv
    <3>2. /\ record.by = l /\ record.at = i
          /\ entries[i].expires <= record.since + Ttl(record.version) + Slack
      BY <1>3, <2>1, <2>3, <3>1 DEF EntryInv
    <3> QED BY <1>1, <1>3, <1>4, <2>3, <3>1, <3>2 DEF EntryInv, Shares, Guarded, Ttl, Slack, FromAnswer
  <2> QED BY <2>2, <2>3
<1>9. CacheTypeOK' /\ HistoryInv'
  BY <1>1, <1>2, <1>3 DEF CachesInv, CacheTypeOK, HistoryInv, Version
<1> QED BY <1>6, <1>7, <1>8, <1>9, <1>4 DEF CachesInv

\* The lookups that a read answers or fails: its own, and those that wait for it.
WaitsFor(l) == {m \in Lookups : m = l \/ (lookups[m].phase = "waiting" /\ lookups[m].by = l)}

LEMMA ReadAnswersKeeps == ASSUME CachesInv, NEW l \in Lookups, ReadAnswers(l) PROVE CachesInv'
<1> PICK version : version = lookups[l].version
  OBVIOUS
<1> PICK at : at = lookups[l].at
  OBVIOUS
<1>1. lookups[l].phase = "served" /\ UNCHANGED <<cache, time, changes, writers, cleared, known>>
  BY DEF ReadAnswers, rowVars
<1>2. /\ lookups[l].by = l /\ at \in Isolates /\ time <= lookups[l].since + ReadTime
      /\ lookups[l].cleared = cleared[at] => lookups[l].floor = known[at]
      /\ lookups[l].floor <= version
      /\ lookups[l].since <= time /\ CurrentAt(version, lookups[l].since)
  BY <1>1 DEF CachesInv, ReadInv, ServedInv
<1>3. /\ time \in Nat /\ version \in Nat /\ Version \in Nat /\ lookups[l].since \in Nat
      /\ lookups[l].floor \in Nat
  BY CacheTypes
<1>4. \A m \in Lookups : lookups'[m] = IF m \in WaitsFor(l) THEN AnsweredBy(lookups[m], version) ELSE lookups[m]
  BY DEF ReadAnswers, WaitsFor
<1>5. ASSUME NEW m \in WaitsFor(l)
      PROVE  /\ lookups'[m] \in LookupRecord /\ lookups'[m].phase = "answered"
             /\ lookups'[m].version = version /\ lookups'[m].answered = time
             /\ lookups'[m].at = lookups[m].at /\ lookups'[m].by = l
             /\ lookups'[m].floor = lookups[m].floor /\ lookups'[m].since = lookups[m].since
  <2>1. m \in Lookups /\ lookups[m] \in LookupRecord /\ lookups[m].by = l
    BY <1>2, CacheTypes DEF WaitsFor
  <2>2. lookups'[m] = AnsweredBy(lookups[m], version)
    BY <1>4, <2>1
  <2>3. PICK a : a = AnsweredBy(lookups[m], version)
    OBVIOUS
  <2>4. /\ a \in LookupRecord /\ a.phase = "answered" /\ a.version = version /\ a.answered = time
        /\ a.at = lookups[m].at /\ a.by = lookups[m].by /\ a.floor = lookups[m].floor
        /\ a.since = lookups[m].since
    BY <1>3, <2>1, <2>3, AnsweredShape
  <2> QED BY <2>1, <2>2, <2>3, <2>4
<1>6. l \in WaitsFor(l)
  BY DEF WaitsFor
<1>7. ASSUME NEW m \in WaitsFor(l) PROVE ReadInv(m)' /\ ServedInv(m)' /\ WaitInv(m)' /\ AnswerInv(m)'
  <2>1. ReadInv(m)' /\ WaitInv(m)'
    BY <1>5 DEF ReadInv, WaitInv
  <2>2. ServedInv(m)'
    <3>1. CASE m = l
      BY <1>1, <1>2, <1>5, <3>1 DEF ServedInv, CurrentAt, Version
    <3>2. CASE m # l
      BY <1>5, <3>2 DEF ServedInv
    <3> QED BY <3>1, <3>2
  <2>3. Guarded => lookups[m].floor <= version
    <3>1. CASE m = l
      BY <1>2, <3>1
    <3>2. CASE m # l
      BY <1>1, <3>2 DEF WaitsFor, CachesInv, WaitInv
    <3> QED BY <3>1, <3>2
  <2>4. version < Version => time - changes[version + 1] <= ReadTime
    <3> SUFFICES ASSUME version < Version PROVE time - changes[version + 1] <= ReadTime
      OBVIOUS
    <3>1. version + 1 \in 1..Len(changes)
      BY <1>3 DEF Version
    <3>2. changes[version + 1] \in Nat /\ lookups[l].since <= changes[version + 1]
      BY <1>2, <3>1, CacheTypes DEF CurrentAt
    <3> QED BY <1>2, <1>3, <3>2, CacheConstants
  <2>5. time <= time /\ version <= Version
    BY <1>2, <1>3 DEF CurrentAt
  <2>6. AnswerInv(m)'
    BY <1>1, <1>5, <2>3, <2>4, <2>5 DEF AnswerInv, Guarded, Version
  <2> QED BY <2>1, <2>2, <2>6
<1>8. ASSUME NEW m \in Lookups, m \notin WaitsFor(l) PROVE ReadInv(m)' /\ ServedInv(m)' /\ WaitInv(m)' /\ AnswerInv(m)'
  <2>1. lookups'[m] = lookups[m]
    BY <1>4, <1>8
  <2>2. ReadInv(m)' /\ ServedInv(m)'
    BY <1>1, <2>1 DEF CachesInv, ReadInv, ServedInv, CurrentAt, Version
  <2>3. WaitInv(m)'
    <3> SUFFICES ASSUME lookups[m].phase = "waiting" PROVE WaitInv(m)'
      BY <2>1 DEF WaitInv
    <3>1. /\ Shares /\ lookups[m].by # "none" /\ lookups[lookups[m].by].phase \in {"reading", "served"}
          /\ lookups[m].floor <= Version
          /\ lookups[lookups[m].by].phase = "served" => lookups[m].floor <= lookups[lookups[m].by].version
      BY DEF CachesInv, WaitInv
    <3>2. lookups[m].by \in Lookups /\ lookups[m].by # l
      BY <1>8, <3>1, CacheTypes DEF WaitsFor
    <3>3. lookups'[lookups[m].by] = lookups[lookups[m].by]
      BY <1>4, <3>1, <3>2 DEF WaitsFor
    <3> QED BY <1>1, <2>1, <3>1, <3>3 DEF WaitInv, Shares, Version
  <2>4. AnswerInv(m)'
    BY <1>1, <2>1 DEF CachesInv, AnswerInv, Guarded, Ttl, Slack, FromAnswer, Version
  <2> QED BY <2>2, <2>3, <2>4
<1>9. \A j \in Isolates : entries'[j] = IF j = at THEN Stored(l) ELSE entries[j]
  BY DEF ReadAnswers, CachesInv, CacheTypeOK
<1>10. ASSUME NEW j \in Isolates, entries'[j] = entries[j] PROVE EntryInv(j)'
  <2> SUFFICES ASSUME entries[j].by # "none" PROVE EntryInv(j)'
    BY <1>10 DEF EntryInv
  <2>1. EntryInv(j) /\ entries[j].by \in Lookups
    BY CacheTypes DEF CachesInv
  <2>2. CASE entries[j].by = l
    <3>1. /\ lookups'[l].by = l /\ lookups'[l].at = j /\ lookups'[l].phase = "answered"
          /\ entries[j].expires <= lookups'[l].since + Ttl(lookups'[l].version) + Slack
          /\ Guarded => known[j] <= lookups'[l].version
      BY <1>1, <1>5, <1>6, <2>1, <2>2 DEF EntryInv
    <3> QED BY <1>1, <1>10, <2>2, <3>1 DEF EntryInv, Guarded, Ttl, Slack, FromAnswer
  <2>3. CASE entries[j].by # l
    <3>1. lookups'[entries[j].by] = lookups[entries[j].by]
      BY <1>4, <2>1, <2>3 DEF EntryInv, WaitsFor
    <3> QED BY <1>1, <1>10, <2>1, <3>1 DEF EntryInv, Shares, Guarded, Ttl, Slack, FromAnswer
  <2> QED BY <2>2, <2>3
<1>11. ASSUME NEW from \in Nat, from <= lookups[l].since + Slack, entries'[at] = Entry(l, from, version),
              Guarded => lookups[l].floor = known[at]
       PROVE  EntryInv(at)' /\ entries'[at] \in CacheEntry
  <2>1. /\ entries'[at] \in CacheEntry /\ entries'[at].by = l /\ entries'[at].expires = from + Ttl(version)
    <3>1. from \in Nat /\ version \in Nat /\ l \in Lookups
      BY <1>3, <1>11
    <3> QED BY <1>11, <3>1, EntryShape
  <2>2. from + Ttl(version) <= lookups[l].since + Ttl(version) + Slack
    BY <1>3, <1>11, Windows
  <2>3. /\ lookups'[l].by = l /\ lookups'[l].at = at /\ lookups'[l].phase = "answered"
        /\ entries'[at].expires <= lookups'[l].since + Ttl(lookups'[l].version) + Slack
        /\ Guarded => known[at] <= lookups'[l].version
    BY <1>2, <1>5, <1>6, <1>11, <2>1, <2>2
  <2> QED BY <1>1, <2>1, <2>3 DEF EntryInv, Guarded, Ttl, Slack, FromAnswer
<1>12. EntryInv(at)' /\ entries'[at] \in CacheEntry
  <2>1. CASE Shares \/ (cache = "app" /\ lookups[l].cleared # cleared[at])
    <3>1. Stored(l) = entries[at]
      BY <2>1 DEF Stored
    <3> QED BY <1>2, <1>9, <1>10, <3>1, CacheTypes
  <2>2. CASE ~(Shares \/ (cache = "app" /\ lookups[l].cleared # cleared[at]))
    <3> DEFINE from == IF FromAnswer THEN time ELSE lookups[l].since
    <3>1. entries'[at] = Entry(l, from, version)
      BY <1>2, <1>9, <2>2 DEF Stored
    <3>2. from \in Nat /\ from <= lookups[l].since + Slack
      BY <1>2, <1>3, CacheConstants DEF Slack
    <3>3. Guarded => lookups[l].floor = known[at]
      BY <1>2, <2>2 DEF Guarded, Shares
    <3> HIDE DEF from
    <3> QED BY <1>11, <3>1, <3>2, <3>3
  <2> QED BY <2>1, <2>2
<1>13. \A j \in Isolates : EntryInv(j)'
  BY <1>9, <1>10, <1>12
<1>14. CacheTypeOK' /\ HistoryInv'
  <2>1. \A m \in Lookups : lookups'[m] \in LookupRecord
    BY <1>4, <1>5, CacheTypes
  <2>2. lookups' \in [Lookups -> LookupRecord]
    BY <2>1 DEF ReadAnswers
  <2>3. entries' \in [Isolates -> CacheEntry]
    BY <1>2, <1>9, <1>12 DEF ReadAnswers, CachesInv, CacheTypeOK
  <2> QED BY <1>1, <2>2, <2>3 DEF CachesInv, CacheTypeOK, HistoryInv, Version
<1> QED BY <1>7, <1>8, <1>13, <1>14 DEF CachesInv

LEMMA ReadFailsKeeps == ASSUME CachesInv, NEW l \in Lookups, ReadFails(l) PROVE CachesInv'
<1> PICK at : at = lookups[l].at
  OBVIOUS
<1>1. lookups[l].phase \in {"reading", "served"} /\ UNCHANGED <<cache, time, changes, writers, cleared, known>>
  BY DEF ReadFails, rowVars
<1>2. \A m \in Lookups : lookups'[m] = IF m \in WaitsFor(l) THEN [lookups[m] EXCEPT !.phase = "failed"] ELSE lookups[m]
  BY DEF ReadFails, WaitsFor
<1>3. \A m \in WaitsFor(l) : lookups'[m] \in LookupRecord /\ lookups'[m].phase = "failed"
  <2> SUFFICES ASSUME NEW m \in WaitsFor(l) PROVE lookups'[m] \in LookupRecord /\ lookups'[m].phase = "failed"
    OBVIOUS
  <2>1. m \in Lookups /\ lookups[m] \in LookupRecord
    BY CacheTypes DEF WaitsFor
  <2>2. lookups'[m] = [lookups[m] EXCEPT !.phase = "failed"]
    BY <1>2, <2>1
  <2> QED BY <2>1, <2>2, FailedShape
<1>4. \A m \in WaitsFor(l) : ReadInv(m)' /\ ServedInv(m)' /\ WaitInv(m)' /\ AnswerInv(m)'
  BY <1>3 DEF ReadInv, ServedInv, WaitInv, AnswerInv
<1>5. ASSUME NEW m \in Lookups, m \notin WaitsFor(l) PROVE ReadInv(m)' /\ ServedInv(m)' /\ WaitInv(m)' /\ AnswerInv(m)'
  <2>1. lookups'[m] = lookups[m]
    BY <1>2, <1>5
  <2>2. ReadInv(m)' /\ ServedInv(m)'
    BY <1>1, <2>1 DEF CachesInv, ReadInv, ServedInv, CurrentAt, Version
  <2>3. WaitInv(m)'
    <3> SUFFICES ASSUME lookups[m].phase = "waiting" PROVE WaitInv(m)'
      BY <2>1 DEF WaitInv
    <3>1. /\ Shares /\ lookups[m].by # "none" /\ lookups[lookups[m].by].phase \in {"reading", "served"}
          /\ lookups[m].floor <= Version
          /\ lookups[lookups[m].by].phase = "served" => lookups[m].floor <= lookups[lookups[m].by].version
      BY DEF CachesInv, WaitInv
    <3>2. lookups[m].by \in Lookups /\ lookups[m].by # l
      BY <1>5, <3>1, CacheTypes DEF WaitsFor
    <3>3. lookups'[lookups[m].by] = lookups[lookups[m].by]
      BY <1>2, <3>1, <3>2 DEF WaitsFor
    <3> QED BY <1>1, <2>1, <3>1, <3>3 DEF WaitInv, Shares, Version
  <2>4. AnswerInv(m)'
    BY <1>1, <2>1 DEF CachesInv, AnswerInv, Guarded, Ttl, Slack, FromAnswer, Version
  <2> QED BY <2>2, <2>3, <2>4
<1>6. at \in Isolates
  BY <1>1 DEF CachesInv, ReadInv
<1>7. \A j \in Isolates : entries'[j] = IF j = at THEN Forgotten(l) ELSE entries[j]
  BY DEF ReadFails, CachesInv, CacheTypeOK
<1>8. ASSUME NEW j \in Isolates PROVE EntryInv(j)' /\ entries'[j] \in CacheEntry
  <2>1. entries'[j] = entries[j] \/ entries'[j] = NoEntry
    BY <1>7 DEF Forgotten
  <2>2. CASE entries'[j].by = "none"
    BY <2>1, <2>2, CacheTypes, EntryShape DEF EntryInv
  <2>3. CASE entries'[j].by # "none"
    <3>1. entries'[j] = entries[j]
      BY <2>1, <2>3, EntryShape
    <3>2. EntryInv(j) /\ entries[j].by \in Lookups
      BY <2>3, <3>1, CacheTypes DEF CachesInv
    <3>3. entries[j].by # l
      <4> SUFFICES ASSUME entries[j].by = l PROVE FALSE
        OBVIOUS
      <4>1. at = j /\ Shares
        BY <1>1, <2>3, <3>1, <3>2 DEF EntryInv
      <4>2. Forgotten(l) = NoEntry
        BY <4>1 DEF Forgotten
      <4> QED BY <1>7, <2>3, <4>1, <4>2, EntryShape
    <3>4. lookups'[entries[j].by] = lookups[entries[j].by]
      BY <1>2, <2>3, <3>1, <3>2, <3>3 DEF EntryInv, WaitsFor
    <3> QED BY <1>1, <3>1, <3>2, <3>4, CacheTypes DEF EntryInv, Shares, Guarded, Ttl, Slack, FromAnswer
  <2> QED BY <2>2, <2>3
<1>9. CacheTypeOK' /\ HistoryInv'
  <2>1. \A m \in Lookups : lookups'[m] \in LookupRecord
    BY <1>2, <1>3, CacheTypes
  <2>2. lookups' \in [Lookups -> LookupRecord]
    BY <2>1 DEF ReadFails
  <2>3. entries' \in [Isolates -> CacheEntry]
    BY <1>8 DEF ReadFails, CachesInv, CacheTypeOK
  <2> QED BY <1>1, <2>2, <2>3 DEF CachesInv, CacheTypeOK, HistoryInv, Version
<1> QED BY <1>4, <1>5, <1>8, <1>9 DEF CachesInv

\* A step that neither moves a lookup nor the clock.
LEMMA LookupsStay ==
    ASSUME CachesInv, UNCHANGED <<cache, time, changes, lookups>>
    PROVE  \A m \in Lookups : ServedInv(m)' /\ WaitInv(m)' /\ AnswerInv(m)'
  BY DEF CachesInv, ServedInv, WaitInv, AnswerInv, CurrentAt, Version, Shares, Guarded, Ttl, Slack, FromAnswer

LEMMA DropKeeps ==
    ASSUME CachesInv, UNCHANGED <<cache, time, changes, lookups>>, writers' \subseteq Isolates,
           NEW i \in Isolates, entries' = [entries EXCEPT ![i] = NoEntry],
           \/ UNCHANGED <<cleared, known>>
           \/ cleared' = [cleared EXCEPT ![i] = @ + 1] /\ known' = [known EXCEPT ![i] = Version]
    PROVE  CachesInv'
<1>1. \A j \in Isolates \ {i} : entries'[j] = entries[j] /\ cleared'[j] = cleared[j] /\ known'[j] = known[j]
  BY DEF CachesInv, CacheTypeOK
<1>2. entries'[i] = NoEntry
  BY DEF CachesInv, CacheTypeOK
<1>3. \/ cleared'[i] = cleared[i] /\ known'[i] = known[i]
      \/ cleared'[i] = cleared[i] + 1 /\ known'[i] = Version
  BY DEF CachesInv, CacheTypeOK
<1>4. CacheTypeOK'
  <2>1. Version \in Nat /\ NoEntry \in CacheEntry /\ cleared[i] + 1 \in Nat
    BY CacheTypes, EntryShape
  <2>2. entries' \in [Isolates -> CacheEntry]
    BY <2>1 DEF CachesInv, CacheTypeOK
  <2>3. cleared' \in [Isolates -> Nat] /\ known' \in [Isolates -> Nat]
    BY <2>1 DEF CachesInv, CacheTypeOK
  <2> QED BY <2>2, <2>3 DEF CachesInv, CacheTypeOK
<1>5. HistoryInv'
  <2>1. Version' = Version /\ Version \in Nat
    BY CacheTypes DEF Version
  <2>2. \A j \in Isolates : known'[j] <= Version
    BY <1>1, <1>3, <2>1 DEF CachesInv, HistoryInv
  <2> QED BY <2>1, <2>2 DEF CachesInv, HistoryInv
<1>6. ASSUME NEW l \in Lookups PROVE ReadInv(l)'
  <2> SUFFICES ASSUME lookups[l].phase \in {"reading", "served"} PROVE ReadInv(l)'
    BY DEF ReadInv
  <2>1. ReadInv(l)
    BY DEF CachesInv
  <2>2. PICK at \in Isolates : at = lookups[l].at
    BY <2>1 DEF ReadInv
  <2>3. lookups[l].cleared \in Nat /\ cleared[at] \in Nat /\ cleared[at] = cleared[at]
    BY CacheTypes
  <2>4. /\ lookups[l].cleared <= cleared'[at]
        /\ lookups[l].cleared = cleared'[at] => lookups[l].floor = known'[at]
    BY <1>1, <1>3, <2>1, <2>2, <2>3 DEF ReadInv
  <2> QED BY <2>1, <2>2, <2>4 DEF ReadInv, Version
<1>7. ASSUME NEW j \in Isolates PROVE EntryInv(j)'
  <2>1. CASE j = i
    BY <1>2, <2>1, EntryShape DEF EntryInv
  <2>2. CASE j # i
    BY <1>1, <2>2 DEF CachesInv, EntryInv, Shares, Guarded, Ttl, Slack, FromAnswer
  <2> QED BY <2>1, <2>2
<1> QED BY <1>4, <1>5, <1>6, <1>7, LookupsStay DEF CachesInv

LEMMA InvalidateKeeps == ASSUME CachesInv, NEW i \in Isolates, Invalidate(i) \/ Evict(i) PROVE CachesInv'
<1>1. /\ UNCHANGED <<cache, time, changes, lookups>> /\ writers' \subseteq Isolates
  BY DEF Invalidate, Evict, rowVars, CachesInv, CacheTypeOK
<1>2. CASE entries' = [entries EXCEPT ![i] = NoEntry]
  BY <1>1, <1>2, DropKeeps DEF Invalidate, Evict
<1>3. CASE UNCHANGED <<entries, cleared, known>>
  <2>1. CacheTypeOK' /\ HistoryInv'
    BY <1>1, <1>3 DEF CachesInv, CacheTypeOK, HistoryInv, Version
  <2>2. \A l \in Lookups : ReadInv(l)'
    BY <1>1, <1>3 DEF CachesInv, ReadInv, Version
  <2>3. \A j \in Isolates : EntryInv(j)'
    BY <1>1, <1>3 DEF CachesInv, EntryInv, Shares, Guarded, Ttl, Slack, FromAnswer
  <2> QED BY <1>1, <2>1, <2>2, <2>3, LookupsStay DEF CachesInv
<1> QED BY <1>2, <1>3 DEF Invalidate, Evict

LEMMA ChangeKeeps == ASSUME CachesInv, NEW i \in Isolates, Change(i) PROVE CachesInv'
<1>1. /\ changes' = Append(changes, time) /\ writers' = writers \cup {i}
      /\ UNCHANGED <<cache, time, entries, cleared, lookups, known>>
  BY DEF Change
<1>2. time \in Nat /\ changes \in Seq(Nat) /\ Version \in Nat /\ Version = Len(changes)
  BY CacheTypes DEF Version
<1>3. /\ changes' \in Seq(Nat) /\ Version' = Version + 1 /\ changes'[Version + 1] = time
      /\ \A k \in 1..Version : changes'[k] = changes[k]
  BY <1>1, <1>2, AppendProperties DEF Version
<1>4. CacheTypeOK'
  BY <1>1, <1>3 DEF CachesInv, CacheTypeOK
<1>5. HistoryInv'
  <2>1. \A k \in 1..Version' : changes'[k] <= time
    <3>1. \A k \in 1..Version' : k \in 1..Version \/ k = Version + 1
      BY <1>2, <1>3
    <3> QED BY <1>2, <1>3, <3>1 DEF CachesInv, HistoryInv
  <2>2. \A j \in Isolates : known[j] <= Version + 1
    BY <1>2, CacheTypes DEF CachesInv, HistoryInv
  <2> QED BY <1>1, <1>3, <2>1, <2>2 DEF HistoryInv, Version
<1>6. ASSUME NEW v \in Nat, NEW s \in Nat, s <= time, CurrentAt(v, s) PROVE CurrentAt(v, s)'
  <2>1. CASE v < Version
    <3>1. v + 1 \in 1..Version /\ s <= changes[v + 1] /\ v <= Version'
      BY <1>2, <1>3, <1>6, <2>1 DEF CurrentAt
    <3> QED BY <1>3, <3>1 DEF CurrentAt
  <2>2. CASE v = Version
    BY <1>2, <1>3, <1>6, <2>2 DEF CurrentAt
  <2> QED BY <1>2, <1>6, <2>1, <2>2 DEF CurrentAt
<1>7. ASSUME NEW l \in Lookups PROVE ReadInv(l)' /\ ServedInv(l)' /\ WaitInv(l)' /\ AnswerInv(l)'
  <2>1. /\ ReadInv(l) /\ ServedInv(l) /\ WaitInv(l) /\ AnswerInv(l)
        /\ lookups[l].version \in Nat /\ lookups[l].since \in Nat /\ lookups[l].floor \in Nat
        /\ lookups[l].answered \in Nat
    BY CacheTypes DEF CachesInv
  <2>2. lookups[l].floor <= Version => lookups[l].floor <= Version'
    BY <1>2, <1>3, <2>1
  <2>3. ReadInv(l)'
    BY <1>1, <2>1, <2>2 DEF ReadInv
  <2>4. ServedInv(l)'
    BY <1>1, <1>6, <2>1 DEF ServedInv
  <2>5. WaitInv(l)'
    BY <1>1, <2>1, <2>2 DEF WaitInv, Shares
  <2>6. AnswerInv(l)'
    <3> SUFFICES ASSUME lookups[l].phase = "answered" PROVE AnswerInv(l)'
      BY <1>1 DEF AnswerInv
    <3>1. lookups[l].version <= Version /\ lookups[l].answered <= time
      BY <2>1 DEF AnswerInv
    <3>2. CASE lookups[l].version < Version
      <4>1. changes'[lookups[l].version + 1] = changes[lookups[l].version + 1]
        <5>1. lookups[l].version + 1 \in 1..Version
          BY <1>2, <2>1, <3>2
        <5> QED BY <1>3, <5>1
      <4>2. lookups[l].version <= Version'
        BY <1>2, <1>3, <2>1, <3>1
      <4> QED BY <1>1, <2>1, <3>2, <4>1, <4>2 DEF AnswerInv, Guarded, Ttl, Slack, FromAnswer
    <3>3. CASE lookups[l].version = Version
      <4>1. lookups[l].answered - changes'[lookups[l].version + 1] <= ReadTime
        BY <1>2, <1>3, <2>1, <3>1, <3>3, CacheConstants
      <4>2. lookups[l].version <= Version'
        BY <1>2, <1>3, <3>3
      <4> QED BY <1>1, <2>1, <4>1, <4>2 DEF AnswerInv, Guarded
    <3> QED BY <1>2, <2>1, <3>1, <3>2, <3>3
  <2> QED BY <2>3, <2>4, <2>5, <2>6
<1>8. \A j \in Isolates : EntryInv(j)'
  BY <1>1 DEF CachesInv, EntryInv, Shares, Guarded, Ttl, Slack, FromAnswer
<1> QED BY <1>4, <1>5, <1>7, <1>8 DEF CachesInv

LEMMA PassTimeKeeps == ASSUME CachesInv, PassTime PROVE CachesInv'
<1>1. /\ time' = time + 1 /\ time \in Nat
      /\ UNCHANGED <<cache, changes, writers, entries, cleared, lookups, known>>
      /\ \A l \in Lookups : lookups[l].phase \in {"reading", "served"} => time < lookups[l].since + ReadTime
  BY CacheTypes DEF PassTime, rowVars
<1>2. CacheTypeOK' /\ HistoryInv'
  <2>1. \A k \in 1..Len(changes) : changes[k] <= time + 1
    BY <1>1, CacheTypes DEF CachesInv, HistoryInv
  <2> QED BY <1>1, <2>1 DEF CachesInv, CacheTypeOK, HistoryInv, Version
<1>3. ASSUME NEW l \in Lookups PROVE ReadInv(l)' /\ ServedInv(l)' /\ WaitInv(l)' /\ AnswerInv(l)'
  <2>1. /\ ReadInv(l) /\ ServedInv(l) /\ WaitInv(l) /\ AnswerInv(l)
        /\ lookups[l].since \in Nat /\ lookups[l].answered \in Nat /\ ReadTime \in Nat
    BY CacheTypes, CacheConstants DEF CachesInv
  <2>2. /\ lookups[l].phase \in {"reading", "served"} => time + 1 <= lookups[l].since + ReadTime
        /\ lookups[l].since <= time => lookups[l].since <= time + 1
        /\ lookups[l].answered <= time => lookups[l].answered <= time + 1
    BY <1>1, <2>1
  <2>3. ReadInv(l)'
    BY <1>1, <2>1, <2>2 DEF ReadInv, Version
  <2>4. ServedInv(l)'
    BY <1>1, <2>1, <2>2 DEF ServedInv, CurrentAt, Version
  <2>5. WaitInv(l)'
    BY <1>1, <2>1 DEF WaitInv, Version, Shares
  <2>6. AnswerInv(l)'
    BY <1>1, <2>1, <2>2 DEF AnswerInv, Guarded, Ttl, Slack, FromAnswer, Version
  <2> QED BY <2>3, <2>4, <2>5, <2>6
<1>4. \A j \in Isolates : EntryInv(j)'
  BY <1>1 DEF CachesInv, EntryInv, Shares, Guarded, Ttl, Slack, FromAnswer
<1> QED BY <1>2, <1>3, <1>4 DEF CachesInv

\* The invariant of the caches, from which what they answer follows.
THEOREM CachesInvariance == CacheSpec => []CachesInv
<1>1. CachesInv /\ [CacheNext]_cacheVars => CachesInv'
  <2>1. ASSUME CachesInv, UNCHANGED cacheVars PROVE CachesInv'
    <3>1. CacheTypeOK' /\ HistoryInv'
      BY <2>1 DEF CachesInv, CacheTypeOK, HistoryInv, Version, cacheVars, rowVars
    <3>2. \A l \in Lookups : ReadInv(l)'
      BY <2>1 DEF CachesInv, ReadInv, Version, cacheVars, rowVars
    <3>3. \A j \in Isolates : EntryInv(j)'
      BY <2>1 DEF CachesInv, EntryInv, Shares, Guarded, Ttl, Slack, FromAnswer, cacheVars, rowVars
    <3>4. UNCHANGED <<cache, time, changes, lookups>>
      BY <2>1 DEF cacheVars, rowVars
    <3> QED BY <2>1, <3>1, <3>2, <3>3, <3>4, LookupsStay DEF CachesInv
  <2> QED BY <2>1, HitKeeps, StartReadKeeps, ServeReadKeeps, ReadAnswersKeeps, ReadFailsKeeps,
             ChangeKeeps, InvalidateKeeps, PassTimeKeeps DEF CacheNext
<1> QED BY <1>1, CachesBegin, PTL DEF CacheSpec

\* An isolate never answers a later request with a row from before its own change of
\* an application, a block or a key (loadApp: a read that was invalidated is not
\* stored; user-status.ts and request-proof.ts store the read itself).
THEOREM OwnChangesAreSeen == CacheSpec => []OwnChangeSeen
<1>1. CachesInv => OwnChangeSeen
  <2> SUFFICES ASSUME CachesInv, Guarded, NEW l \in Lookups, lookups[l].phase = "answered"
               PROVE  lookups[l].version >= lookups[l].floor
    BY DEF OwnChangeSeen
  <2>1. lookups[l].floor <= lookups[l].version
    BY DEF CachesInv, AnswerInv
  <2> QED BY <2>1, CacheTypes
<1> QED BY <1>1, CachesInvariance, PTL

\* No replaced row is served for longer than its time to live, or than the read that
\* was still on its way (ttl-cache.ts; each cache's own policy).
THEOREM StalenessIsBounded == CacheSpec => []TtlIsTheStaleness
<1>1. CachesInv => TtlIsTheStaleness
  <2> SUFFICES ASSUME CachesInv, NEW l \in Lookups, lookups[l].phase = "answered"
               PROVE  LET stale == lookups[l].answered - ReplacedAt(l)
                      IN  \/ stale < Ttl(lookups[l].version) + (IF FromAnswer THEN ReadTime ELSE 0)
                          \/ stale <= ReadTime
    BY DEF TtlIsTheStaleness
  <2>1. AnswerInv(l)
    BY DEF CachesInv
  <2>2. CASE lookups[l].version < Version
    BY <2>1, <2>2 DEF AnswerInv, ReplacedAt, Slack
  <2>3. CASE ~(lookups[l].version < Version)
    <3>1. ReplacedAt(l) = time /\ lookups[l].answered <= time
      BY <2>1, <2>3 DEF AnswerInv, ReplacedAt
    <3>2. lookups[l].answered \in Nat /\ time \in Nat /\ ReadTime \in Nat
      BY CacheTypes, CacheConstants
    <3> QED BY <3>1, <3>2
  <2> QED BY <2>2, <2>3
<1> QED BY <1>1, CachesInvariance, PTL
=============================================================================
