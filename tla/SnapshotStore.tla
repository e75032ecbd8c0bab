----------------------------- MODULE SnapshotStore -----------------------------
(***************************************************************************)
(* server/database/store.py: the three stores of published snapshots       *)
(* behind POST /api/v1/snapshots and GET /api/v1/snapshots/latest of       *)
(* server/api/main.py.                                                     *)
(*                                                                         *)
(* A server handles uploads one at a time (the handler is a coroutine that *)
(* calls save without awaiting) and reads in threads beside them; _lock    *)
(* belongs to one server.  The file store has one server, the database and *)
(* the object store may have several, and the pipeline publishes to the    *)
(* object store without asking a server.                                   *)
(***************************************************************************)
EXTENDS Integers, Sequences, FiniteSets

CONSTANTS
    Backends,   \* values of SMOG_AI_SERVER_STORAGE_BACKEND that are explored
    Servers,    \* server processes
    Pipeline,   \* a publisher that calls publish_snapshot itself
    Publishing, \* Publishing[b]: the processes that write to the store b
    Readers, Home, \* Home[r]: the server whose thread reader r is
    NumPubs,    \* publications, numbered in the order of their identifiers
    Sums,       \* checksums
    Uploads,    \* publications with the checksums they are uploaded with
    Keep,       \* keep_versions
    Ttl,        \* cache_ttl_seconds
    MaxTime,    \* bound on the clock
    MaxSaves,   \* bound on uploads, by backend
    MaxFaults   \* bound on processes that end

ASSUME StoreAssumption ==
    /\ Backends \subseteq {"file", "database", "object"}
    /\ Pipeline \notin Servers
    /\ Publishing \in [Backends -> SUBSET (Servers \cup {Pipeline})]
    /\ \A b \in Backends \ {"object"} : Pipeline \notin Publishing[b]
    /\ "file" \in Backends => \E s \in Servers : Publishing["file"] = {s}
    /\ Home \in [Readers -> Servers]
    /\ Uploads \subseteq (1..NumPubs) \X Sums
    /\ NumPubs \in Nat /\ MaxTime \in Nat /\ MaxFaults \in Nat /\ MaxSaves \in [Backends -> Nat]
    /\ Ttl \in Nat \ {0}
    /\ Keep \in Nat \ {0, 1}
    /\ "absent" \notin Sums

Pubs == 1..NumPubs
Writers == Servers \cup {Pipeline}

Absent == "absent"
Nothing == <<0, Absent>>
Row(sum, at) == [sum |-> sum, at |-> at]
NoRow == Row(Absent, 0)

VARIABLES
    backend,  \* the store that was configured
    rows,     \* rows[p]: committed audit row or audit object of p
    payloads, \* payloads[p]: checksum of the payload file, column or object
    pointer,  \* the publication the forecast pointer names (object store)
    now,
    save,     \* save[w]: progress of the upload that w handles
    read,     \* read[r]: progress of a read
    cache,    \* cache[s]: _latest_cache of a server
    accepted, \* accepted[p]: latest time under which p was accepted, -1 for never
    again,    \* publications accepted more than once: retention had removed them
    log,      \* what has been the latest, and from when (see LatestAccepted)
    saves, faults

vars == <<backend, rows, payloads, pointer, now, save, read, cache, accepted, again, log, saves, faults>>

store == <<rows, payloads, pointer>>

IdleSave == [stage |-> "idle", pub |-> 0, sum |-> Absent, at |-> 0, old |-> {}]
IdleRead == [stage |-> "idle", from |-> 0, since |-> 0, value |-> Nothing]
NoCache == [value |-> Nothing, until |-> -1]

Init ==
    /\ backend \in Backends
    /\ rows = [p \in Pubs |-> NoRow]
    /\ payloads = [p \in Pubs |-> Absent]
    /\ pointer = 0
    /\ now = 0
    /\ save = [w \in Writers |-> IdleSave]
    /\ read = [r \in Readers |-> IdleRead]
    /\ cache = [s \in Servers |-> NoCache]
    /\ accepted = [p \in Pubs |-> -1]
    /\ again = {}
    /\ log = <<[value |-> Nothing, at |-> 0]>>
    /\ saves = 0 /\ faults = 0

Present(table) == {p \in Pubs : table[p] # NoRow}

\* ORDER BY received_at DESC, publication_id DESC
Newer(table, q, p) ==
    \/ table[q].at > table[p].at
    \/ table[q].at = table[p].at /\ q > p

Rank(table, p) == Cardinality({q \in Present(table) : Newer(table, q, p)})

\* _prune: the rows after the first Keep.
Excess(table) == {p \in Present(table) : Rank(table, p) >= Keep}

NewestRow == CHOOSE p \in Present(rows) : Rank(rows, p) = 0

\* What latest_payload would answer if it were one atomic step.
Latest ==
    IF backend = "object"
    THEN IF pointer = 0 THEN Nothing ELSE <<pointer, payloads[pointer]>>
    ELSE IF Present(rows) = {} THEN Nothing ELSE <<NewestRow, rows[NewestRow].sum>>

-----------------------------------------------------------------------------
(* save *)

At(w, stage) == save[w].stage = stage
Goto(w, stage) == save' = [save EXCEPT ![w].stage = stage]
Reply(w) == save' = [save EXCEPT ![w] = IdleSave]
Mine(w) == Row(save[w].sum, save[w].at)

\* upload_snapshot after decode_and_validate.  DatabaseSnapshotStore takes received_at
\* before anything else, the others when they write it.
Receive(w, p, sum) ==
    /\ At(w, "idle")
    /\ saves < MaxSaves[backend] /\ saves' = saves + 1
    /\ w \in Publishing[backend]
    /\ save' = [save EXCEPT ![w] =
            [stage |-> IF backend = "database" THEN "insert"
                       ELSE IF w = Pipeline THEN "put" ELSE "look",
             pub |-> p, sum |-> sum, at |-> IF backend = "database" THEN now ELSE 0, old |-> {}]]
    /\ UNCHANGED <<backend, store, now, read, cache, accepted, again, faults>>

\* Mutant: the payload is written before the existing row is looked at.
LookAfterWriting(w) ==
    /\ At(w, "look")
    /\ payloads' = [payloads EXCEPT ![save[w].pub] = save[w].sum]
    /\ IF rows[save[w].pub] # NoRow THEN Reply(w) ELSE Goto(w, "insert")
    /\ UNCHANGED <<backend, rows, pointer, now, read, cache, accepted, again, saves, faults>>

\* The existing row or audit object: a conflict (409) or a duplicate (200).
Look(w) ==
    /\ At(w, "look")
    /\ IF rows[save[w].pub] # NoRow THEN Reply(w)
       ELSE Goto(w, IF backend = "file" THEN "write" ELSE "put")
    /\ UNCHANGED <<backend, store, now, read, cache, accepted, again, saves, faults>>

FileWrite(w) ==
    /\ At(w, "write")
    /\ payloads' = [payloads EXCEPT ![save[w].pub] = save[w].sum]
    /\ Goto(w, "insert")
    /\ UNCHANGED <<backend, rows, pointer, now, read, cache, accepted, again, saves, faults>>

\* INSERT and the SELECT of _prune, in a transaction that nobody else sees yet.  Only the
\* database backend can meet a row here: IntegrityError ends the transaction.  PostgreSQL
\* makes an insertion wait for another of the same key, SQLite for any other writer.
Insert(w) ==
    LET p == save[w].pub
        at == IF backend = "file" THEN now ELSE save[w].at
        table == [rows EXCEPT ![p] = Row(save[w].sum, at)] IN
    /\ At(w, "insert")
    /\ \A v \in Writers \ {w} : At(v, "commit") => save[v].pub # p
    /\ save' = [save EXCEPT ![w] =
            IF rows[p] # NoRow THEN [@ EXCEPT !.stage = "compare"]
            ELSE [@ EXCEPT !.stage = IF backend = "file" THEN "unlink" ELSE "commit",
                           !.at = at, !.old = Excess(table)]]
    /\ UNCHANGED <<backend, store, now, read, cache, accepted, again, saves, faults>>

\* The second transaction of DatabaseSnapshotStore.save: conflict, duplicate, or, when the
\* row has been pruned meanwhile, the error itself.
Compare(w) ==
    /\ At(w, "compare")
    /\ Reply(w)
    /\ UNCHANGED <<backend, store, now, read, cache, accepted, again, saves, faults>>

\* SnapshotStore._prune removes the files while the transaction is open.
Unlink(w) ==
    /\ At(w, "unlink")
    /\ payloads' = [p \in Pubs |-> IF p \in save[w].old THEN Absent ELSE payloads[p]]
    /\ Goto(w, "commit")
    /\ UNCHANGED <<backend, rows, pointer, now, read, cache, accepted, again, saves, faults>>

Commit(w) ==
    LET p == save[w].pub
        old == save[w].old IN
    /\ At(w, "commit")
    /\ rows' = [q \in Pubs |-> IF q \in old THEN NoRow ELSE IF q = p THEN Mine(w) ELSE rows[q]]
    /\ payloads' = IF backend = "file" THEN payloads
                   ELSE [q \in Pubs |-> IF q \in old THEN Absent
                                        ELSE IF q = p THEN save[w].sum ELSE payloads[q]]
    /\ accepted' = [accepted EXCEPT ![p] = IF @ < save[w].at THEN save[w].at ELSE @]
    /\ again' = IF accepted[p] >= 0 THEN again \cup {p} ELSE again
    /\ Reply(w)
    /\ UNCHANGED <<backend, pointer, now, read, cache, saves, faults>>

\* publish_snapshot: an immutable put refuses other content.
ObjectPut(w) ==
    LET p == save[w].pub IN
    /\ At(w, "put")
    /\ IF payloads[p] \in {Absent, save[w].sum}
       THEN payloads' = [payloads EXCEPT ![p] = save[w].sum] /\ Goto(w, "point")
       ELSE UNCHANGED payloads /\ Reply(w)
    /\ UNCHANGED <<backend, rows, pointer, now, read, cache, accepted, again, saves, faults>>

ObjectPoint(w) ==
    /\ At(w, "point")
    /\ pointer' = save[w].pub
    /\ Goto(w, "audit")
    /\ UNCHANGED <<backend, rows, payloads, now, read, cache, accepted, again, saves, faults>>

\* The audit object is immutable and holds the time of its put, so that a second one
\* conflicts; nothing here is ordered by that time.
\* A server drops its cached payload after it.
ObjectAudit(w) ==
    LET p == save[w].pub IN
    /\ At(w, "audit")
    /\ IF rows[p] = NoRow
       THEN /\ rows' = [rows EXCEPT ![p] = Mine(w)]
            /\ accepted' = [accepted EXCEPT ![p] = save[w].at]
            /\ IF w = Pipeline THEN Reply(w) ELSE Goto(w, "reset")
       ELSE UNCHANGED <<rows, accepted>> /\ Reply(w)
    /\ UNCHANGED <<backend, payloads, pointer, now, read, cache, again, saves, faults>>

ResetCache(w) ==
    /\ At(w, "reset")
    /\ cache' = [cache EXCEPT ![w] = NoCache]
    /\ Reply(w)
    /\ UNCHANGED <<backend, store, now, read, accepted, again, saves, faults>>

Save(w) ==
    \/ \E u \in Uploads : Receive(w, u[1], u[2])
    \/ Look(w) \/ FileWrite(w) \/ Insert(w) \/ Compare(w) \/ Unlink(w) \/ Commit(w)
    \/ ObjectPut(w) \/ ObjectPoint(w) \/ ObjectAudit(w) \/ ResetCache(w)

-----------------------------------------------------------------------------
(* latest_payload *)

Window == IF backend = "object" THEN Ttl ELSE -1

\* Only the file store reads a row and then, in a second step, what it names.
Promise == INSTANCE LatestAccepted WITH
    Values <- Pubs \X Sums, Twins <- {t \in (Pubs \X Sums) \X (Pubs \X Sums) : t[1][1] = t[2][1]},
    clock <- now, window <- Window, loose <- backend = "file",
    since <- [r \in Readers |-> read[r].since],
    answer <- [r \in Readers |-> IF read[r].stage = "idle" THEN read[r].value ELSE Nothing]

ReadFrom(r, stage) == read' = [read EXCEPT ![r].stage = stage]
Answer(r, value) == read' = [read EXCEPT ![r] = [IdleRead EXCEPT !.value = value]]

\* The clock is read first; "since" only serves the promise.
ReadStart(r) ==
    /\ read[r].stage = "idle"
    /\ read' = [read EXCEPT ![r] = [IdleRead EXCEPT !.stage = "look", !.from = now,
                                                    !.since = Promise!Oldest(now - Window)]]
    /\ UNCHANGED <<backend, store, now, save, cache, accepted, again, saves, faults>>

ReadDatabase(r) ==
    /\ read[r].stage = "look" /\ backend = "database"
    /\ Answer(r, Latest)
    /\ UNCHANGED <<backend, store, now, save, cache, accepted, again, saves, faults>>

\* The row is read and the connection closed before the file is opened.
ReadRow(r) ==
    /\ read[r].stage = "look" /\ backend = "file"
    /\ IF Latest = Nothing THEN Answer(r, Nothing)
       ELSE read' = [read EXCEPT ![r].stage = "file", ![r].value = Latest]
    /\ UNCHANGED <<backend, store, now, save, cache, accepted, again, saves, faults>>

ReadFile(r) ==
    LET p == read[r].value[1] IN
    /\ read[r].stage = "file"
    /\ Answer(r, IF payloads[p] = Absent THEN Nothing ELSE <<p, payloads[p]>>)
    /\ UNCHANGED <<backend, store, now, save, cache, accepted, again, saves, faults>>

ReadCache(r) ==
    LET cached == cache[Home[r]] IN
    /\ read[r].stage = "look" /\ backend = "object"
    /\ IF cached.until >= read[r].from THEN Answer(r, cached.value) ELSE ReadFrom(r, "pointer")
    /\ UNCHANGED <<backend, store, now, save, cache, accepted, again, saves, faults>>

\* latest_snapshot_payload, outside the lock: pointer, then the object it names.
ReadPointer(r) ==
    /\ read[r].stage = "pointer"
    /\ read' = [read EXCEPT ![r].stage = "keep", ![r].value = Latest]
    /\ UNCHANGED <<backend, store, now, save, cache, accepted, again, saves, faults>>

\* Mutant: the lifetime is counted from the end of the load.
KeepInCacheLate(r) ==
    /\ read[r].stage = "keep"
    /\ cache' = [cache EXCEPT ![Home[r]] = [value |-> read[r].value, until |-> now + Ttl]]
    /\ Answer(r, read[r].value)
    /\ UNCHANGED <<backend, store, now, save, accepted, again, saves, faults>>

\* The cache is written whatever has been published since the load.
KeepInCache(r) ==
    /\ read[r].stage = "keep"
    /\ cache' = [cache EXCEPT ![Home[r]] = [value |-> read[r].value, until |-> read[r].from + Ttl]]
    /\ Answer(r, read[r].value)
    /\ UNCHANGED <<backend, store, now, save, accepted, again, saves, faults>>

Read(r) ==
    \/ ReadStart(r) \/ ReadDatabase(r) \/ ReadRow(r) \/ ReadFile(r)
    \/ ReadCache(r) \/ ReadPointer(r) \/ KeepInCache(r)

Tick ==
    /\ now < MaxTime /\ now' = now + 1
    /\ UNCHANGED <<backend, store, save, read, cache, accepted, again, saves, faults>>

\* A process ends; an open transaction is rolled back, files and objects stay.
Crash(w) ==
    /\ w \in Publishing[backend]
    /\ faults < MaxFaults /\ faults' = faults + 1
    /\ Reply(w)
    /\ read' = [r \in Readers |-> IF Home[r] = w THEN IdleRead ELSE read[r]]
    /\ cache' = [s \in Servers |-> IF s = w THEN NoCache ELSE cache[s]]
    /\ UNCHANGED <<backend, store, now, accepted, again, saves>>

Step == (\E w \in Writers : Save(w) \/ Crash(w)) \/ (\E r \in Readers : Read(r)) \/ Tick

\* log follows what every step makes the latest.
Next ==
    /\ Step
    /\ log' = IF Latest' = Latest THEN log ELSE Append(log, [value |-> Latest', at |-> now])

Spec == Init /\ [][Next]_vars

-----------------------------------------------------------------------------
(* Properties *)

Stages == {"idle", "look", "write", "insert", "compare", "unlink", "commit", "put", "point", "audit", "reset"}

Answers == (Pubs \X Sums) \cup {Nothing}

TypeOK ==
    /\ backend \in Backends
    /\ rows \in [Pubs -> [sum : Sums, at : Nat] \cup {NoRow}]
    /\ payloads \in [Pubs -> Sums \cup {Absent}]
    /\ pointer \in 0..NumPubs
    /\ now \in 0..MaxTime
    /\ save \in [Writers -> [stage : Stages, pub : 0..NumPubs, sum : Sums \cup {Absent},
                             at : Nat, old : SUBSET Pubs]]
    /\ read \in [Readers -> [stage : {"idle", "look", "file", "pointer", "keep"},
                             from : 0..MaxTime, since : Nat, value : Answers]]
    /\ cache \in [Servers -> [value : Answers, until : -1..(MaxTime + Ttl)]]
    /\ accepted \in [Pubs -> Nat \cup {-1}]
    /\ again \subseteq Pubs
    /\ log \in Seq([value : Answers, at : Nat])
    /\ saves \in 0..MaxSaves[backend] /\ faults \in 0..MaxFaults

\* A payload is the one whose checksum its audit row was written with, however uploads of
\* one identifier with two checksums cross and whatever process ends in between.
PayloadMatchesAudit ==
    \A p \in Present(rows) : payloads[p] \in {rows[p].sum, Absent}

\* The newest publication can be read at every moment, also after pruning was cut short
\* between the removal of its files and its commit.
NewestReadable ==
    IF backend = "object" THEN pointer # 0 => payloads[pointer] # Absent
    ELSE Present(rows) # {} => payloads[NewestRow] # Absent

Later(times, p) ==
    {q \in Pubs : times[q] > times[p] \/ (times[q] = times[p] /\ q > p)}

OneWriter == \A v, w \in Publishing[backend] : v = w

\* Retention removes an accepted publication only for Keep accepted ones that are newer.
\* Several servers on one database keep this for what is uploaded once: the identifiers that
\* one of them selected for removal still delete what the other has accepted again since.
NewestKept ==
    \A p \in Pubs : (accepted[p] >= 0 /\ rows[p] = NoRow /\ (OneWriter \/ p \notin again)) =>
        Cardinality(Later(accepted, p)) >= Keep

\* latest_payload keeps the promise of LatestAccepted: no answer is older than the cache's
\* lifetime counted back from the start of the read, and "no snapshot", or content uploaded
\* again under the identifier that was read, is answered only when a newer publication has
\* been accepted since and retention has overtaken the read.
KeepsPromise == Promise!Spec

\* The invariants of the stores in one: their types, payloads that match their audit, and a
\* retention that keeps the newest publications and leaves the newest readable.
Safe == TypeOK /\ PayloadMatchesAudit /\ NewestReadable /\ NewestKept
=============================================================================
