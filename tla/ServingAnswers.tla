---------------------------- MODULE ServingAnswers ----------------------------
(***************************************************************************)
(* The server's reading of releases: server/application/spatial_source.py  *)
(* with its two caches, and the requests of server/application/query.py    *)
(* and server/api/main.py that read through it while releases are          *)
(* published and old ones are deleted (ReleaseShelf).                      *)
(*                                                                         *)
(* A request is for one time and some parameters.  The one surface of a    *)
(* release stands for those of every parameter and hour; a time inside the *)
(* release's window is answered exactly (by the surface of that hour, or   *)
(* between two of them), one outside is not.  Every parameter of a query   *)
(* is read by a thread of its own, and every thread reads the pointer and  *)
(* the manifest for itself.  For a timeline the time is the day it is for, *)
(* and the window the days the release has hours of; the timeline a query  *)
(* may ask for with its answer is the same reading.  Not modelled: the     *)
(* wording of the answer, the place and the interpreter of the question.   *)
(***************************************************************************)
EXTENDS ReleaseShelf, Sequences, SequencesExt

CONSTANTS
    Clients,     \* requests that run at the same time
    Parameters,
    Times,       \* target times asked for
    Span,        \* release r holds surfaces for the hours r .. r + Span
    Snapshots,   \* hours of the station forecasts of a legacy snapshot; {}: none
    Ttl,         \* cache_ttl_seconds, not zero
    CacheItems,  \* cache_max_items
    Gap,         \* least time between two moves of the pointer
    CutShort,    \* an upload may be left and a newer release begun
    MaxTime,     \* bound on the clock
    MaxRequest,  \* bound on the time a request takes
    MaxFaults    \* bound on reads that fail

ASSUME ServingAnswersAssumption ==
    /\ Releases \subseteq Nat \ {NoRelease}
    /\ Keep \in Nat \ {0}
    /\ Ttl \in Nat \ {0} /\ CacheItems \in Nat \ {0}
    /\ Snapshots \subseteq SUBSET Nat
    /\ {Gap, MaxTime, MaxRequest, MaxFaults, Span} \subseteq Nat
    /\ CutShort \in BOOLEAN
    /\ "main" \notin Parameters

Threads == {"main"} \cup Parameters

VARIABLES
    now,        \* time.monotonic()
    pointer,    \* _pointer_cache: the cached release and its expiry
    immutable,  \* keys of _immutable_cache, the least recently used first
    req,        \* req[c]: what request c is doing and has found
    thread,     \* thread[c][k]: a read of request c
    moved,      \* time of the pointer's last move
    left,       \* left[r]: when the pointer left r
    lost,       \* keys that a read did not find any more
    faults

answers == <<now, pointer, immutable, req, thread, moved, left, lost, faults>>
vars == <<shelf, answers>>

Nothing == [release |-> NoRelease, expires |-> 0]

Resting == [at |-> "rest", since |-> 0, release |-> NoRelease]

NoRequest == [stage |-> "idle", kind |-> "query", wanted |-> {}, time |-> 0, began |-> 0,
              snapshot |-> {}, served |-> FALSE, exact |-> FALSE, unread |-> FALSE,
              values |-> {}]

Init ==
    /\ EmptyShelf
    /\ now = 0
    /\ pointer = Nothing
    /\ immutable = << >>
    /\ req = [c \in Clients |-> NoRequest]
    /\ thread = [c \in Clients |-> [k \in Threads |-> Resting]]
    /\ moved = 0
    /\ left = [r \in Releases |-> 0]
    /\ lost = {}
    /\ faults = 0

Active(c) == req[c].stage \in {"context", "validate", "select"}

-----------------------------------------------------------------------------
(* Publication and retention, as ReleaseShelf promises them *)

\* Every release that was begun is public, but for r.
WholeBut(r) == CutShort \/ \A q \in Listed : q <= active \/ q = r

UploadNext ==
    /\ \E r \in Releases, part \in Parts :
        r > active /\ WholeBut(r) /\ Upload(r, part)
    /\ UNCHANGED answers

MovePointer ==
    /\ \E r \in Releases : r > active /\ Point(r)
    /\ active # NoRelease => now >= moved + Gap
    /\ moved' = now
    /\ left' = [r \in Releases |-> IF r = active THEN now ELSE left[r]]
    /\ UNCHANGED <<now, pointer, immutable, req, thread, lost, faults>>

\* Retention runs after a promotion, not during one.
Retire ==
    /\ WholeBut(active)
    /\ \E object \in objects : Delete(object)
    /\ UNCHANGED answers

Tick ==
    /\ now < MaxTime
    /\ \A c \in Clients : Active(c) => now < req[c].began + MaxRequest
    /\ now' = now + 1
    /\ UNCHANGED <<shelf, pointer, immutable, req, thread, moved, left, lost, faults>>

-----------------------------------------------------------------------------
(* spatial_source.py: latest_manifest and surface_from_entry *)

\* Step(c, k, at): thread k of request c goes on at the place at.
Step(c, k, at) == thread' = [thread EXCEPT ![c][k].at = at]

Quiet == UNCHANGED <<shelf, now, req, moved, left>>

\* The reads of one kind: the threads of the parameters start together.
Begin(threads, running) ==
    [k \in Threads |-> IF k \in running THEN [Resting EXCEPT !.at = "check"] ELSE threads[k]]

\* Mutant: the expiry counts from when the loaded pointer is stored.
ExpiryFromStore(c, k) == now + Ttl

\* _cached_pointer: the expiry counts from before the load.
Expiry(c, k) == thread[c][k].since + Ttl

\* Mutant: a cached pointer does not expire (cache_ttl_seconds = 0).
CheckPointerOnce(c, k) ==
    /\ thread[c][k].at = "check"
    /\ IF pointer.release # NoRelease
       THEN thread' = [thread EXCEPT ![c][k] = [at |-> "manifest", since |-> now,
                                                release |-> pointer.release]]
       ELSE thread' = [thread EXCEPT ![c][k].at = "load", ![c][k].since = now]
    /\ Quiet /\ UNCHANGED <<pointer, immutable, lost, faults>>

CheckPointer(c, k) ==
    /\ thread[c][k].at = "check"
    /\ IF pointer.release # NoRelease /\ pointer.expires >= now
       THEN thread' = [thread EXCEPT ![c][k] = [at |-> "manifest", since |-> now,
                                                release |-> pointer.release]]
       ELSE thread' = [thread EXCEPT ![c][k].at = "load", ![c][k].since = now]
    /\ Quiet /\ UNCHANGED <<pointer, immutable, lost, faults>>

\* Without the lock: other threads load and store meanwhile.  No pointer
\* raises, and latest_pointer returns None.
LoadPointer(c, k) ==
    /\ thread[c][k].at = "load"
    /\ thread' = [thread EXCEPT ![c][k].at = IF active = NoRelease THEN "none" ELSE "store",
                                ![c][k].release = active]
    /\ Quiet /\ UNCHANGED <<pointer, immutable, lost, faults>>

StorePointer(c, k) ==
    /\ thread[c][k].at = "store"
    /\ pointer' = [release |-> thread[c][k].release, expires |-> Expiry(c, k)]
    /\ Step(c, k, "manifest")
    /\ Quiet /\ UNCHANGED <<immutable, lost, faults>>

\* _cached_immutable: a hit becomes the most recent entry, the least recent
\* one gives way to a new key.
Recent(keys, key) ==
    LET all == Append(RemoveFirst(keys, key), key)
    IN  IF Len(all) > CacheItems THEN Tail(all) ELSE all

Held(key) == key \in Range(immutable) \cup objects

Fetch(key) ==
    /\ immutable' = IF Held(key) THEN Recent(immutable, key) ELSE immutable
    /\ lost' = IF Held(key) THEN lost ELSE lost \cup {key}

Covers(r, time) == time \in r..(r + Span)

\* A query has no surface outside the window.  /spatial/surface takes the nearest when no
\* manifest asked for an exact one (_choose_entry), and a timeline, for want of an entry
\* of its day, the nearest entries of another (_timeline, 1164-1181).
Selects(c, r) ==
    \/ Covers(r, req[c].time)
    \/ req[c].kind = "surface" /\ ~req[c].exact
    \/ req[c].kind = "timeline"

\* Where a thread goes on once it has its manifest.
AfterManifest(c, k, r) ==
    IF k = "main"
    THEN IF req[c].stage = "context" THEN "surface" ELSE "got"
    ELSE IF Selects(c, r) THEN "surface" ELSE "none"

\* latest_manifest returns None when it cannot read.
ReadManifest(c, k) ==
    LET r == thread[c][k].release
        key == <<r, "manifest">>
    IN
    /\ thread[c][k].at = "manifest"
    /\ Fetch(key)
    /\ Step(c, k, IF Held(key) THEN AfterManifest(c, k, r) ELSE "none")
    /\ Quiet /\ UNCHANGED <<pointer, faults>>

\* surface_from_entry raises when it cannot.
ReadSurface(c, k) ==
    LET key == <<thread[c][k].release, "surface">> IN
    /\ thread[c][k].at = "surface"
    /\ Fetch(key)
    /\ Step(c, k, IF Held(key) THEN "got" ELSE "raised")
    /\ Quiet /\ UNCHANGED <<pointer, faults>>

\* The store does not answer: the reader is told None, or a surface raises.
ReadFails(c, k) ==
    /\ faults < MaxFaults
    /\ thread[c][k].at \in {"load", "manifest", "surface"}
    /\ Step(c, k, IF thread[c][k].at = "surface" THEN "raised" ELSE "failed")
    /\ faults' = faults + 1
    /\ Quiet /\ UNCHANGED <<pointer, immutable, lost>>

-----------------------------------------------------------------------------
(* The requests *)

Elsewhere == UNCHANGED <<shelf, now, pointer, immutable, moved, left, lost, faults>>

\* ask, with the legacy snapshot if there is one; served says whether a
\* release was public when the request came.
StartQuery(c) ==
    /\ ~Active(c)
    /\ \E wanted \in SUBSET Parameters \ {{}}, time \in Times, snapshot \in Snapshots :
        req' = [req EXCEPT ![c] =
            [NoRequest EXCEPT !.stage = IF snapshot = {} THEN "context" ELSE "validate",
                              !.kind = "query", !.wanted = wanted, !.time = time,
                              !.snapshot = snapshot, !.began = now,
                              !.served = active # NoRelease]]
    /\ thread' = [thread EXCEPT ![c] = Begin([k \in Threads |-> Resting], {"main"})]
    /\ Elsewhere

\* /timeline reads one manifest and loads its entries; /spatial/surface reads
\* the manifest for its contract first, and again to choose the entry.
StartOther(c) ==
    /\ ~Active(c)
    /\ \E kind \in {"timeline", "surface"}, parameter \in Parameters, time \in Times :
        /\ req' = [req EXCEPT ![c] =
              [NoRequest EXCEPT !.stage = IF kind = "surface" THEN "validate" ELSE "select",
                                !.kind = kind, !.wanted = {parameter}, !.time = time,
                                !.began = now, !.served = active # NoRelease]]
        /\ thread' = [thread EXCEPT ![c] = Begin([k \in Threads |-> Resting],
                          IF kind = "surface" THEN {"main"} ELSE {parameter})]
    /\ Elsewhere

\* _latest_query_context has its representative surface, or the request ends:
\* nothing is published (LookupError), or the load raised.
ContextRead(c) ==
    /\ req[c].stage = "context"
    /\ thread[c]["main"].at \in {"got", "none", "failed", "raised"}
    /\ IF thread[c]["main"].at = "got"
       THEN /\ req' = [req EXCEPT ![c].stage = "validate"]
            /\ thread' = [thread EXCEPT ![c] = Begin(@, {"main"})]
       ELSE /\ req' = [req EXCEPT ![c].stage = "failed"]
            /\ UNCHANGED thread
    /\ Elsewhere

\* The second read of the manifest says whether an exact time is required; without a
\* manifest it is not, though it was only the store that did not answer (unread).
Validated(c) ==
    /\ req[c].stage = "validate"
    /\ thread[c]["main"].at \in {"got", "none", "failed"}
    /\ req' = [req EXCEPT ![c].stage = "select",
                          ![c].exact = thread[c]["main"].at = "got",
                          ![c].unread = thread[c]["main"].at = "failed"]
    /\ thread' = [thread EXCEPT ![c] = Begin(@, req[c].wanted)]
    /\ Elsewhere

Value(r, exact) == [release |-> r, exact |-> exact]

\* Mutant: the nearest hour, whatever the contract requires.
StationValuesNearest(c) ==
    IF req[c].time \in req[c].snapshot THEN {Value(NoRelease, TRUE)}
    ELSE IF req[c].snapshot = {} THEN {} ELSE {Value(NoRelease, FALSE)}

\* _select_station_forecast: of the legacy snapshot, the exact time or, when
\* that is not required, the nearest.
StationValues(c) ==
    IF req[c].time \in req[c].snapshot THEN {Value(NoRelease, TRUE)}
    ELSE IF req[c].exact \/ req[c].snapshot = {} THEN {}
    ELSE {Value(NoRelease, FALSE)}

ValuesOf(c, k) ==
    LET r == thread[c][k].release
    IN  IF thread[c][k].at = "got" THEN {Value(r, Covers(r, req[c].time))}
        ELSE IF req[c].kind = "query" THEN StationValues(c) ELSE {}

\* Threads of a query with several parameters, and a timeline, turn what is
\* raised into a warning; otherwise it ends the request.
Tolerant(c) == req[c].kind = "timeline" \/ Cardinality(req[c].wanted) > 1

Respond(c) ==
    /\ req[c].stage = "select"
    /\ \A k \in req[c].wanted : thread[c][k].at \in {"got", "none", "failed", "raised"}
    /\ IF ~Tolerant(c) /\ \E k \in req[c].wanted : thread[c][k].at = "raised"
       THEN req' = [req EXCEPT ![c].stage = "failed"]
       ELSE req' = [req EXCEPT ![c].stage = "done",
                               ![c].values = UNION {ValuesOf(c, k) : k \in req[c].wanted}]
    /\ thread' = [thread EXCEPT ![c] = [k \in Threads |-> Resting]]
    /\ Elsewhere

Read(c, k) ==
    \/ CheckPointer(c, k) \/ LoadPointer(c, k) \/ StorePointer(c, k)
    \/ ReadManifest(c, k) \/ ReadSurface(c, k)

Next ==
    \/ UploadNext \/ MovePointer \/ Retire \/ Tick
    \/ \E c \in Clients :
        \/ StartQuery(c) \/ StartOther(c)
        \/ ContextRead(c) \/ Validated(c) \/ Respond(c)
        \/ \E k \in Threads : Read(c, k) \/ ReadFails(c, k)

Spec == Init /\ [][Next]_vars

-----------------------------------------------------------------------------
(* Properties *)

TypeOK ==
    /\ objects \subseteq Releases \X Parts
    /\ active \in Releases \cup {NoRelease}
    /\ now \in 0..MaxTime
    /\ pointer \in [release : Releases \cup {NoRelease}, expires : 0..(MaxTime + Ttl)]
    /\ immutable \in Seq(Releases \X Parts)
    /\ Len(immutable) <= CacheItems /\ IsInjective(immutable)
    /\ thread \in [Clients -> [Threads ->
          [at : {"rest", "check", "load", "store", "manifest", "surface", "got", "none",
                 "failed", "raised"},
           since : 0..MaxTime, release : Releases \cup {NoRelease}]]]
    /\ req \in [Clients ->
          [stage : {"idle", "context", "validate", "select", "done", "failed"},
           kind : {"query", "timeline", "surface"}, wanted : SUBSET Parameters,
           time : Times \cup {0}, began : 0..MaxTime, snapshot : Snapshots \cup {{}},
           served : BOOLEAN, exact : BOOLEAN, unread : BOOLEAN,
           values : SUBSET [release : Releases \cup {NoRelease}, exact : BOOLEAN]]]
    /\ moved \in 0..MaxTime
    /\ left \in [Releases -> 0..MaxTime]
    /\ lost \subseteq Releases \X Parts
    /\ faults \in 0..MaxFaults

\* Every value of an answer comes from a release that the pointer still named
\* at most Ttl before the request began, even when a thread that loaded an
\* older pointer stores it over a newer one (_cached_pointer, 65-77).
AnswerIsRecent ==
    \A c \in Clients : \A value \in req[c].values :
        \/ value.release \in {NoRelease, active}
        \/ left[value.release] >= req[c].began - Ttl

\* With Keep releases of which none was left half uploaded, and a pointer that
\* moves less often than a cached pointer and a request last together, no
\* reader is sent to an object that retention has deleted.
ReadersFindObjects == lost = {}

\* Once a release is public, no query and no surface is answered with the value of another
\* hour (query.py:1552, main.py:586): what requires the hour is read from one manifest and
\* the values from others, of the same release or not, through releases that move and are
\* deleted in between and reads of surfaces that fail.  Only a request that could not read
\* its own requirement is left out: the code lifts it.
RequiredHourKept ==
    \A c \in Clients :
        req[c].served /\ req[c].kind # "timeline" /\ ~req[c].unread =>
            \A value \in req[c].values : value.exact

\* "Brak pakietu daje jawna informacje o niedostepnosci - bez cichego wyboru
\* najblizszej godziny" (docs/platform/TECHNICAL_PROCESSING_PL.md:258): no answer at all.
NoSilentNearest ==
    \A c \in Clients : req[c].served => \A value \in req[c].values : value.exact

\* The invariants of the readers in one: their types and objects that are there when read.
Safe == TypeOK /\ ReadersFindObjects
=============================================================================
