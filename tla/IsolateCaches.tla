--------------------------- MODULE IsolateCaches ---------------------------
(***************************************************************************)
(* What the isolates remember of one D1 row, and for how long.  Each cache  *)
(* is a core/ttl-cache.ts under a policy of its own:                         *)
(*   "app"       an application's record        core/app-records.ts          *)
(*   "providers" an organization's rows         providers/provider-store.ts  *)
(*   "account"   an account's lifecycle row     core/account-lifecycle.ts    *)
(*   "blocked"   a user's block, as the read itself  client-auth/user-status *)
(*   "attestKey" a registered key, likewise     client-auth/request-proof.ts *)
(*   "apiKey"    an API key, or its absence     client-auth/api-keys.ts      *)
(* A read of D1 is started, served by the primary and answered in separate  *)
(* steps, so a change or an invalidation may fall between any two.          *)
(***************************************************************************)
EXTENDS Integers, Sequences

CONSTANTS Isolates,
          Lookups,    \* the requests that look the row up
          RowCaches,  \* the caches checked
          HitTtl,     \* *_CACHE_TTL_MS, HIT_TTL_MS
          MissTtl,    \* MISS_TTL_MS, of an API key that was not found
          ReadTime,   \* bound: how long a read of D1 takes
          MaxChanges, \* bound: changes of the row
          MaxTime     \* bound: the clock

ASSUME CachesAssumption ==
    /\ RowCaches \subseteq {"app", "providers", "account", "blocked", "attestKey", "apiKey"}
    /\ HitTtl \in Nat \ {0} /\ MissTtl \in 1..HitTtl
    /\ ReadTime \in Nat /\ MaxChanges \in Nat /\ MaxTime \in Nat

VARIABLES
    cache,    \* which of the caches it is
    time,
    changes,  \* when the row was changed, each time: its version is their number
    writers,  \* the isolates that committed a change and have yet to invalidate
    entries,  \* each isolate's entry: the lookup that read it, and its window
    cleared,  \* each isolate's count of invalidations
    lookups,  \* each lookup: where it stands, and what it was answered
    known     \* observation: the version each isolate has finished changing

rowVars   == <<changes, writers>>
cacheVars == <<cache, time, rowVars, entries, cleared, lookups, known>>

Version == Len(changes)
NoEntry == [by |-> "none", expires |-> 0]
Lookup0 == [at |-> "nowhere", phase |-> "new", by |-> "none", since |-> 0, cleared |-> 0,
            version |-> 0, floor |-> 0, answered |-> 0]

CacheInit ==
    /\ cache \in RowCaches
    /\ time = 0 /\ changes = <<>> /\ writers = {}
    /\ entries = [i \in Isolates |-> NoEntry]
    /\ cleared = [i \in Isolates |-> 0]
    /\ lookups = [l \in Lookups |-> Lookup0]
    /\ known = [i \in Isolates |-> 0]

\* The caches whose entry is the read itself, stored as it starts.
Shares == cache \in {"blocked", "attestKey"}

\* The caches that count a row's window from the end of its read.
FromAnswer == cache \in {"providers", "account"}

\* Only an API key's change is left to the TTL.
Invalidates == cache # "apiKey"

Ttl(version) == IF cache = "apiKey" /\ version = 0 THEN MissTtl ELSE HitTtl

Entry(l, from, version) == [by |-> l, expires |-> from + Ttl(version)]

Fresh(i) == entries[i].by # "none" /\ time < entries[i].expires

AnsweredBy(lookup, version) ==
    [lookup EXCEPT !.phase = "answered", !.version = version, !.answered = time]

\* A hit: what was read is answered at once, a read in flight is waited for.
Hit(l, i) ==
    /\ lookups[l].phase = "new" /\ Fresh(i)
    /\ LET by     == entries[i].by
           joined == [lookups[l] EXCEPT !.at = i, !.floor = known[i], !.by = by]
       IN  lookups' = [lookups EXCEPT ![l] =
              IF lookups[by].phase = "answered" THEN AnsweredBy(joined, lookups[by].version)
              ELSE [joined EXCEPT !.phase = "waiting"]]
    /\ UNCHANGED <<cache, time, rowVars, entries, cleared, known>>

\* A miss: the isolate asks the primary.
StartRead(l, i) ==
    /\ lookups[l].phase = "new" /\ ~Fresh(i)
    /\ lookups' = [lookups EXCEPT ![l] =
          [@ EXCEPT !.at = i, !.phase = "reading", !.by = l, !.since = time,
                    !.cleared = cleared[i], !.floor = known[i]]]
    /\ entries' = [entries EXCEPT ![i] =
          IF Shares THEN Entry(l, time, 1) ELSE IF cache = "apiKey" THEN NoEntry ELSE @]
    /\ UNCHANGED <<cache, time, rowVars, cleared, known>>

\* The primary serves the read.
ServeRead(l) ==
    /\ lookups[l].phase = "reading"
    /\ lookups' = [lookups EXCEPT ![l].phase = "served", ![l].version = Version]
    /\ UNCHANGED <<cache, time, rowVars, entries, cleared, known>>

\* Fault: an answer is stored whatever was invalidated while it was read.
StoredAlways(l) ==
    LET lookup == lookups[l] IN
    IF Shares THEN entries[lookup.at]
    ELSE Entry(l, IF FromAnswer THEN time ELSE lookup.since, lookup.version)

\* Fault: a window is counted from the answer.
StoredFromAnswer(l) ==
    LET lookup == lookups[l] IN
    IF Shares \/ (cache = "app" /\ lookup.cleared # cleared[lookup.at])
    THEN entries[lookup.at]
    ELSE Entry(l, time, lookup.version)

\* What the answer of a read leaves in its isolate: nothing new where the read
\* itself is stored, or where an application was invalidated meanwhile.
Stored(l) ==
    LET lookup == lookups[l] IN
    IF Shares \/ (cache = "app" /\ lookup.cleared # cleared[lookup.at])
    THEN entries[lookup.at]
    ELSE Entry(l, IF FromAnswer THEN time ELSE lookup.since, lookup.version)

\* The answer arrives, for every request that waited for this read.
ReadAnswers(l) ==
    /\ lookups[l].phase = "served"
    /\ lookups' = [m \in Lookups |->
          IF m = l \/ (lookups[m].phase = "waiting" /\ lookups[m].by = l)
          THEN AnsweredBy(lookups[m], lookups[l].version) ELSE lookups[m]]
    /\ entries' = [entries EXCEPT ![lookups[l].at] = Stored(l)]
    /\ UNCHANGED <<cache, time, rowVars, cleared, known>>

\* A failed read that is stored is forgotten, if the entry is still its own.
Forgotten(l) ==
    LET i == lookups[l].at IN
    IF Shares /\ entries[i].by = l THEN NoEntry ELSE entries[i]

ReadFails(l) ==
    /\ lookups[l].phase \in {"reading", "served"}
    /\ lookups' = [m \in Lookups |->
          IF m = l \/ (lookups[m].phase = "waiting" /\ lookups[m].by = l)
          THEN [lookups[m] EXCEPT !.phase = "failed"] ELSE lookups[m]]
    /\ entries' = [entries EXCEPT ![lookups[l].at] = Forgotten(l)]
    /\ UNCHANGED <<cache, time, rowVars, cleared, known>>

\* A handler in isolate i commits a change of the row.
Change(i) ==
    /\ Version < MaxChanges /\ i \notin writers
    /\ changes' = Append(changes, time)
    /\ writers' = writers \cup {i}
    /\ UNCHANGED <<cache, time, entries, cleared, lookups, known>>

\* Then it drops its own entry, and answers.
Invalidate(i) ==
    /\ i \in writers
    /\ writers' = writers \ {i}
    /\ IF Invalidates
       THEN /\ entries' = [entries EXCEPT ![i] = NoEntry]
            /\ cleared' = [cleared EXCEPT ![i] = @ + 1]
            /\ known' = [known EXCEPT ![i] = Version]
       ELSE UNCHANGED <<entries, cleared, known>>
    /\ UNCHANGED <<cache, time, changes, lookups>>

\* The cache's bound drops an entry.
Evict(i) ==
    /\ entries[i] # NoEntry
    /\ entries' = [entries EXCEPT ![i] = NoEntry]
    /\ UNCHANGED <<cache, time, rowVars, cleared, lookups, known>>

PassTime ==
    /\ time < MaxTime
    /\ \A l \in Lookups : lookups[l].phase \in {"reading", "served"} => time < lookups[l].since + ReadTime
    /\ time' = time + 1
    /\ UNCHANGED <<cache, rowVars, entries, cleared, lookups, known>>

CacheNext ==
    \/ \E l \in Lookups : \/ \E i \in Isolates : Hit(l, i) \/ StartRead(l, i)
                          \/ ServeRead(l) \/ ReadAnswers(l) \/ ReadFails(l)
    \/ \E i \in Isolates : Change(i) \/ Invalidate(i) \/ Evict(i)
    \/ PassTime

CacheSpec == CacheInit /\ [][CacheNext]_cacheVars
---------------------------------------------------------------------------
(* Properties.                                                              *)

\* The caches a change's own isolate guards against reads in flight across it.
Guarded == cache \in {"app", "blocked", "attestKey"}

\* An isolate that finished a change of an application, a block or a registered
\* key never answers a later request with the row from before it, whatever reads
\* were in flight across the change (app-records.ts: such a read would "put the
\* old record back for a whole TTL"; user-status.ts: "An invalidation cannot be
\* undone by completion").
OwnChangeSeen ==
    Guarded => \A l \in Lookups :
        lookups[l].phase = "answered" => lookups[l].version >= lookups[l].floor

\* When the version a request was answered with had been replaced, if it had.
ReplacedAt(l) == IF lookups[l].version < Version THEN changes[lookups[l].version + 1] ELSE time

\* In every isolate a row that was replaced is served for less than its TTL from
\* then on, or by the request whose own read was still on its way, however slow
\* its read was (app-records.ts: "This TTL is the only intentional configuration
\* staleness window"); an organization's rows and an account's lifecycle row for
\* less than that and the time of one read.
TtlIsTheStaleness ==
    \A l \in Lookups : lookups[l].phase = "answered" =>
        LET stale == lookups[l].answered - ReplacedAt(l)
        IN  \/ stale < Ttl(lookups[l].version) + (IF FromAnswer THEN ReadTime ELSE 0)
            \/ stale <= ReadTime
=============================================================================
