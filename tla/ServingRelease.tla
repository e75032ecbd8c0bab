---------------------------- MODULE ServingRelease ----------------------------
(***************************************************************************)
(* smog_ai/publishing/serving_release.py: promotion of a local Serving v2  *)
(* release to the remote object store, and retention of old releases.      *)
(*                                                                         *)
(* A release is a number, in the order of the local builds: release_ids    *)
(* begin with the second of generation, so this is their string order too  *)
(* (two builds within one second, ordered by a hash, are left out).  Its   *)
(* immutable objects are its manifest and its surfaces (one stands for     *)
(* all).  The gazetteer of places has one fixed key for every release.  An *)
(* object's content is fixed by its key, except that of the places, which  *)
(* each local build overwrites: a city appears in it with its first        *)
(* station.  A history snapshot has a content-addressed key outside the    *)
(* release prefix and is never deleted, so it is kept inside the pointer   *)
(* that names it, as the set of its releases; its rows are ordered by the  *)
(* time of publication, which is the order of the releases when promotions *)
(* take turns.                                                             *)
(***************************************************************************)
EXTENDS Integers, FiniteSets

CONSTANTS
    Releases,      \* release_ids built locally
    Publishers,    \* processes that run publish-serving-release
    PlacesOf,      \* PlacesOf[r]: content of the local gazetteer once r is built
    NoPlaces,
    Keep,          \* --keep of prune-serving-releases
    HistoryLimit,  \* RELEASE_HISTORY_LIMIT
    OneAtATime,    \* publish and prune run in turn, as in the PowerShell script
    MaxFaults      \* bound on promotions and prunes cut short

ASSUME ServingReleaseAssumption ==
    /\ Releases \subseteq Nat \ {0}
    /\ NoPlaces \notin {PlacesOf[r] : r \in Releases}
    /\ Keep \in Nat \ {0}
    /\ HistoryLimit \in Nat \ {0}
    /\ OneAtATime \in BOOLEAN
    /\ MaxFaults \in Nat

NoRelease == 0

VARIABLES
    local,     \* release that the local serving/latest.json names
    objects,   \* remote keys under serving/releases/
    places,    \* remote serving/static/polish-places.json.gz
    pointer,   \* remote serving/latest.json: its release and its history
    pub,       \* pub[p]: progress of a promotion
    prune,     \* progress of the retention run
    reports,   \* releases with a local report of their publication (03-publication.json)
    published, \* releases the pointer has named, without those HistoryLost forgot
    faults

vars == <<local, objects, places, pointer, pub, prune, reports, published, faults>>

Parts == {"manifest", "surface"}

Complete(r) ==
    /\ {<<r, part>> : part \in Parts} \subseteq objects
    /\ places # NoPlaces

\* The order of sorted(keys), then the history snapshot and the pointer.
Stages == {"manifest", "surface", "places", "history", "pointer", "verify"}

Running(p) == pub[p].stage \in Stages

Idle == [stage |-> "idle", release |-> NoRelease, history |-> {}, lost |-> FALSE]

NotPruning == [stage |-> "idle", active |-> NoRelease, plan |-> {}]

Init ==
    /\ local = NoRelease
    /\ objects = {}
    /\ places = NoPlaces
    /\ pointer = [release |-> NoRelease, history |-> {}]
    /\ pub = [p \in Publishers |-> Idle]
    /\ prune = NotPruning
    /\ reports = {}
    /\ published = {}
    /\ faults = 0

Fault == faults < MaxFaults /\ faults' = faults + 1

\* build_spatial_surfaces ends: release_ids grow with the generation time.
BuildRelease ==
    /\ \E r \in Releases : r > local /\ local' = r
    /\ UNCHANGED <<objects, places, pointer, pub, prune, reports, published, faults>>

-----------------------------------------------------------------------------
(* promote_serving_release *)

\* Mutant: promotions and retention runs overlap.
CanStartAnytime(p) == ~Running(p)

CanStart(p) ==
    /\ ~Running(p)
    /\ OneAtATime => /\ \A q \in Publishers : ~Running(q)
                     /\ prune.stage = "idle"

\* The source pointer names a release whose manifest passes the checksum,
\* contract and release_id checks.
StartPromotion(p) ==
    /\ CanStart(p)
    /\ local # NoRelease
    /\ pub' = [pub EXCEPT ![p] = [stage |-> "manifest", release |-> local,
                                  history |-> {}, lost |-> FALSE]]
    /\ UNCHANGED <<local, objects, places, pointer, prune, reports, published, faults>>

Advance(p, stage) == pub' = [pub EXCEPT ![p].stage = stage]

\* Mutant: an object that is already there is a conflict, whatever it holds.
UploadPartOnce(p, part, next) ==
    /\ pub[p].stage = part
    /\ IF <<pub[p].release, part>> \in objects
       THEN Advance(p, "failed") /\ UNCHANGED objects
       ELSE Advance(p, next) /\ objects' = objects \cup {<<pub[p].release, part>>}
    /\ UNCHANGED <<local, places, pointer, prune, reports, published, faults>>

\* head, and unless the checksum is the same: put, and read back.
UploadPart(p, part, next) ==
    /\ pub[p].stage = part
    /\ objects' = objects \cup {<<pub[p].release, part>>}
    /\ Advance(p, next)
    /\ UNCHANGED <<local, places, pointer, prune, reports, published, faults>>

UploadManifest(p) == UploadPart(p, "manifest", "surface")

UploadSurface(p) == UploadPart(p, "surface", "places")

\* The key is the same for every release and the put is immutable: other
\* content under it raises ObjectConflictError.  The source is read now, not
\* when the promotion started.
UploadPlaces(p) ==
    LET content == PlacesOf[local] IN
    /\ pub[p].stage = "places"
    /\ IF places \in {NoPlaces, content}
       THEN places' = content /\ Advance(p, "history")
       ELSE places' = places /\ Advance(p, "failed")
    /\ UNCHANGED <<local, objects, pointer, prune, reports, published, faults>>

\* The rows that RELEASE_HISTORY_LIMIT leaves.
Latest(rows) == {r \in rows : Cardinality({q \in rows : q > r}) < HistoryLimit}

\* _merge_release_history of the local reports, the rows read and the new row.
MergeHistory(r, history) == Latest(reports \cup history \cup {r})

HistoryMerged(p, history, lost) ==
    /\ pub[p].stage = "history"
    /\ pub' = [pub EXCEPT ![p] = [stage |-> "pointer", release |-> pub[p].release, lost |-> lost,
                          history |-> MergeHistory(pub[p].release, history)]]
    /\ UNCHANGED <<local, objects, places, pointer, prune, reports, published>>

\* Mutant: the history of the destination is not read.
WriteHistoryAfresh(p) == HistoryMerged(p, {}, FALSE) /\ UNCHANGED faults

WriteHistory(p) == HistoryMerged(p, pointer.history, FALSE) /\ UNCHANGED faults

\* _history_from_pointer: a history that cannot be read, or whose checksum or
\* contract is wrong, counts as empty, and the promotion goes on.
HistoryLost(p) == HistoryMerged(p, {}, TRUE) /\ Fault

\* What a promotion that lost the history does not find in the local reports
\* is forgotten for good.
PutPointer(p) ==
    /\ pub[p].stage = "pointer"
    /\ pointer' = [release |-> pub[p].release, history |-> pub[p].history]
    /\ published' = {pub[p].release} \cup
                    (IF pub[p].lost THEN published \cap reports ELSE published)
    /\ Advance(p, "verify")
    /\ UNCHANGED <<local, objects, places, prune, reports, faults>>

\* The pointer is read back; another release in it is an error.  The script
\* keeps the result as a report; the command run by hand leaves none.
VerifyPointer(p) ==
    /\ pub[p].stage = "verify"
    /\ IF pointer.release = pub[p].release
       THEN Advance(p, "done") /\ reports' \in {reports, reports \cup {pub[p].release}}
       ELSE Advance(p, "failed") /\ UNCHANGED reports
    /\ UNCHANGED <<local, objects, places, pointer, prune, reports, published, faults>>

\* A storage error or the end of the process: nothing is undone.
PromotionCut(p) ==
    /\ Running(p)
    /\ Advance(p, "failed")
    /\ Fault
    /\ UNCHANGED <<local, objects, places, pointer, prune, reports, published>>

-----------------------------------------------------------------------------
(* plan_serving_release_retention and prune_serving_releases *)

\* A missing pointer raises: nothing is planned.
ReadActive ==
    /\ prune.stage = "idle"
    /\ pointer.release # NoRelease
    /\ OneAtATime => \A p \in Publishers : ~Running(p)
    /\ prune' = [stage |-> "list", active |-> pointer.release, plan |-> {}]
    /\ UNCHANGED <<local, objects, places, pointer, pub, reports, published, faults>>

Listed == {object[1] : object \in objects}

\* The newest Keep identifiers, and the active release.
Retained(active) ==
    {active} \cup
    {r \in Listed : Cardinality({q \in Listed : q > r}) < Keep}

\* Mutant: only the newest identifiers are kept.
ListReleasesNewest ==
    /\ prune.stage = "list"
    /\ prune' = [stage |-> "delete", active |-> prune.active,
                  plan |-> {object \in objects :
                                Cardinality({q \in Listed : q > object[1]}) >= Keep}]
    /\ UNCHANGED <<local, objects, places, pointer, pub, reports, published, faults>>

ListReleases ==
    /\ prune.stage = "list"
    /\ prune' = [stage |-> "delete", active |-> prune.active,
                  plan |-> {object \in objects : object[1] \notin Retained(prune.active)}]
    /\ UNCHANGED <<local, objects, places, pointer, pub, reports, published, faults>>

DeleteObject ==
    /\ prune.stage = "delete"
    /\ \E object \in prune.plan :
        /\ objects' = objects \ {object}
        /\ prune' = [prune EXCEPT !.plan = @ \ {object}]
    /\ UNCHANGED <<local, places, pointer, pub, reports, published, faults>>

EndPrune ==
    /\ prune.stage = "delete"
    /\ prune.plan = {}
    /\ prune' = NotPruning
    /\ UNCHANGED <<local, objects, places, pointer, pub, reports, published, faults>>

\* Without the confirmation the plan is only reported.
Unconfirmed ==
    /\ prune.stage = "list"
    /\ prune' = NotPruning
    /\ UNCHANGED <<local, objects, places, pointer, pub, reports, published, faults>>

PruneCut ==
    /\ prune.stage # "idle"
    /\ prune' = NotPruning
    /\ Fault
    /\ UNCHANGED <<local, objects, places, pointer, pub, reports, published>>

-----------------------------------------------------------------------------
Promote(p) ==
    \/ UploadManifest(p) \/ UploadSurface(p) \/ UploadPlaces(p)
    \/ WriteHistory(p) \/ PutPointer(p) \/ VerifyPointer(p)

Prune == ReadActive \/ ListReleases \/ DeleteObject \/ EndPrune

Next ==
    \/ \E p \in Publishers :
        \/ StartPromotion(p)
        \/ Promote(p)
        \/ HistoryLost(p)
        \/ PromotionCut(p)
    \/ BuildRelease \/ Prune \/ Unconfirmed \/ PruneCut

Spec == Init /\ [][Next]_vars

Retry(p) == pub[p].stage = "failed" /\ StartPromotion(p)

\* Processes keep running, a prune ends, and the scheduler restarts a
\* promotion that failed (RestartCount of the scheduled task).
FairSpec ==
    /\ Spec
    /\ WF_vars(Prune)
    /\ \A p \in Publishers : WF_vars(Promote(p)) /\ SF_vars(Retry(p))

-----------------------------------------------------------------------------
(* Properties *)

PubStates == [stage : Stages \cup {"idle", "done", "failed"},
              release : Releases \cup {NoRelease},
              history : SUBSET Releases,
              lost : BOOLEAN]

TypeOK ==
    /\ local \in Releases \cup {NoRelease}
    /\ objects \subseteq Releases \X Parts
    /\ places \in {PlacesOf[r] : r \in Releases} \cup {NoPlaces}
    /\ pointer \in [release : Releases \cup {NoRelease}, history : SUBSET Releases]
    /\ pub \in [Publishers -> PubStates]
    /\ \A p \in Publishers : Running(p) => pub[p].release # NoRelease /\ local # NoRelease
    /\ prune \in [stage : {"idle", "list", "delete"},
                  active : Releases \cup {NoRelease},
                  plan : SUBSET (Releases \X Parts)]
    /\ reports \subseteq Releases
    /\ published \subseteq Releases
    /\ faults \in 0..MaxFaults

\* What serving/latest.json names can be read in full, through promotions cut
\* short, repeated promotions and retention: "readers
\* cannot observe the release until all immutable objects ... have been
\* uploaded" (serving_release.py:474) and "the active release ... is always
\* protected" (:548).
ActiveReleaseComplete == pointer.release # NoRelease => Complete(pointer.release)

\* The history that the pointer names lists the latest publications and loses
\* none within its limit, through promotions cut short and repeated; only a
\* publication that left no local report may go missing, once a later promotion
\* fails to read the history (_history_from_pointer, _local_release_history_seed).
HistoryRemembers == pointer.history = Latest(published)

\* With promotions and retention runs in turn, all that readers of releases
\* rely on: the pointer never goes back, it moves to complete releases only,
\* and nothing is deleted but what Keep newer releases have replaced, even when
\* the retention run is cut short and a promotion takes its place.
Shelf == INSTANCE ReleaseShelf WITH active <- pointer.release

KeepsShelf == Shelf!SpecShelf

\* A promotion that failed and is run again ends in a published release:
\* running it again is idempotent (SERVING_V2_LOCAL_AND_DIGITALOCEAN_PL.md:116).
PromotionCompletes ==
    \A p \in Publishers : pub[p].stage = "failed" ~> pub[p].stage = "done"
=============================================================================
