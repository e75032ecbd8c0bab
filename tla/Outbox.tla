-------------------------------- MODULE Outbox --------------------------------
(***************************************************************************)
(* smog_ai/publishing/publisher.py retry_publications, with the outbox     *)
(* rows of smog_ai/database/repository.py and publish_snapshot of          *)
(* smog_ai/artifacts/repository.py.                                        *)
(*                                                                         *)
(* A publication is a number, its place in the order of created_at.  One   *)
(* call of retry_publications is one database transaction over a batch of  *)
(* due rows: what it sends cannot be undone, what it writes to the rows is *)
(* seen when it commits.  The status "sending" is overwritten before the   *)
(* commit and is seen by no one.  A backoff is a row that is not due.      *)
(***************************************************************************)
EXTENDS Integers, FiniteSets

CONSTANTS
    NumPubs,       \* publications that are built
    Senders,       \* processes that run retry_publications
    LocalTransports,  \* values of publication.transport beside a local object store
    RemoteTransports, \* and beside Spaces or S3
    MaxAttempts,   \* publication.dead_letter_after_attempts
    Limit,         \* rows of one batch
    KeepFiles,     \* dashboard_snapshots: payload files the cleanup keeps
    KeepSnapshots, \* forecast_publications: stored snapshots the cleanup keeps
    MaxFaults      \* bound on failed calls and aborted transactions

ASSUME OutboxAssumption ==
    /\ NumPubs \in Nat
    /\ LocalTransports \cup RemoteTransports \subseteq {"object_store", "http", "both"}
    /\ MaxAttempts \in Nat \ {0}
    /\ Limit \in Nat \ {0}
    /\ KeepFiles \in Nat
    /\ KeepSnapshots \in Nat
    /\ MaxFaults \in Nat

Pubs == 1..NumPubs

NoPub == 0

VARIABLES
    transport, \* publication.transport, fixed by the configuration
    local,     \* the object store is a directory of the runtime (backend "local")
    row,       \* row[p]: committed publication_outbox row of p
    files,     \* publications whose payload file is on the disk
    snapshots, \* publications whose snapshot is in the object store
    newer,     \* newer[p]: in a local store, publications whose snapshot was put after p's
    latest,    \* publication that the forecast pointer names
    audit,     \* publications with an audit object
    accepted,  \* publications the HTTP server has saved
    sender,    \* sender[s]: progress of a batch
    plan,      \* what a running cleanup has still to delete
    faults

config == <<transport, local>>

remote == <<snapshots, newer, latest, audit, accepted>>

vars == <<config, row, files, remote, sender, plan, faults>>

Row(status, attempts, due) == [status |-> status, attempts |-> attempts, due |-> due]

NoRows == [p \in Pubs |-> Row("absent", 0, FALSE)]

Idle == [stage |-> "idle", rows |-> {}, batch |-> {}, loaded |-> NoRows, work |-> NoRows,
         wrote |-> FALSE]

Init ==
    /\ local \in BOOLEAN
    /\ transport \in IF local THEN LocalTransports ELSE RemoteTransports
    /\ row = NoRows
    /\ files = {}
    /\ snapshots = {} /\ audit = {} /\ accepted = {}
    /\ newer = [p \in Pubs |-> {}]
    /\ latest = NoPub
    /\ plan = {}
    /\ sender = [s \in Senders |-> Idle]
    /\ faults = 0

Fault == faults < MaxFaults /\ faults' = faults + 1

\* SQLite admits one writing transaction: it begins with the first flush.
MayWrite(s) == \A t \in Senders \ {s} : ~sender[t].wrote

-----------------------------------------------------------------------------
(* build_snapshot and the passing of time *)

\* enqueue_publication; publication_ids grow with the time of generation.
Enqueue(p) ==
    /\ row[p].status = "absent"
    /\ \A q \in Pubs : q < p => row[q].status # "absent"
    /\ \A s \in Senders : ~sender[s].wrote
    /\ row' = [row EXCEPT ![p] = Row("pending", 0, TRUE)]
    /\ files' = files \cup {p}
    /\ UNCHANGED <<config, remote, sender, plan, faults>>

BackoffElapses(p) ==
    /\ row[p].status = "failed"
    /\ ~row[p].due
    /\ row' = [row EXCEPT ![p].due = TRUE]
    /\ UNCHANGED <<config, files, remote, sender, plan, faults>>

\* cleanup_runtime of scripts/smog_ai_automation.py first makes a plan.  Of the
\* payload files the newest stay, whether or not they are still queued.  Of the
\* snapshots in the local object store that which the pointer names is protected
\* and does not count; audit objects protect nothing.
OldFiles == {p \in files : Cardinality({q \in files : q > p}) >= KeepFiles}

OldSnapshots ==
    {p \in snapshots \ {latest} :
        local /\ Cardinality((newer[p] \cap snapshots) \ {latest}) >= KeepSnapshots}

PlanCleanup ==
    /\ plan = {}
    /\ plan' = ({"payload"} \X OldFiles) \cup ({"snapshot"} \X OldSnapshots)
    /\ plan' # {}
    /\ UNCHANGED <<config, row, files, remote, sender, faults>>

\* Then it deletes what it has planned, one by one, beside the senders.
Clean ==
    \E item \in plan :
        /\ plan' = plan \ {item}
        /\ files' = IF item[1] = "payload" THEN files \ {item[2]} ELSE files
        /\ snapshots' = IF item[1] = "snapshot" THEN snapshots \ {item[2]} ELSE snapshots
        /\ UNCHANGED <<config, row, newer, latest, audit, accepted, sender, faults>>

\* Files that cannot be deleted are left; so is the rest when the process ends.
CleanupEnds ==
    /\ plan # {}
    /\ plan' = {}
    /\ UNCHANGED <<config, row, files, remote, sender, faults>>

-----------------------------------------------------------------------------
(* retry_publications *)

Due == {p \in Pubs : row[p].status \in {"pending", "failed"} /\ row[p].due}

\* due_outbox_query: the due rows, oldest first.
FirstDue ==
    {p \in Due : Cardinality({q \in Due : q < p}) < Limit}

Load(s) ==
    LET loaded == [p \in Pubs |-> IF p \in FirstDue THEN row[p] ELSE NoRows[p]] IN
    /\ sender[s].stage = "idle"
    /\ Due # {}
    /\ sender' = [sender EXCEPT ![s] = [stage |-> "take", rows |-> FirstDue, batch |-> FirstDue,
                                        loaded |-> loaded, work |-> loaded, wrote |-> FALSE]]
    /\ UNCHANGED <<config, row, files, remote, plan, faults>>

\* The rows of a batch are taken in the order of created_at.
Pub(s) == CHOOSE p \in sender[s].batch : \A q \in sender[s].batch : p <= q

Goto(s, stage) == sender' = [sender EXCEPT ![s].stage = stage]

\* The except clause: the backoff begins, or the row is given up.
AfterFailure(attempts) ==
    IF attempts >= MaxAttempts THEN Row("dead_letter", attempts, FALSE)
    ELSE Row("failed", attempts, FALSE)

Fail(s, attempts) ==
    sender' = [sender EXCEPT ![s].stage = "take", ![s].batch = @ \ {Pub(s)},
                             ![s].work[Pub(s)] = AfterFailure(attempts)]

FirstStage == IF transport = "http" THEN "http" ELSE "snapshot"

\* Mutant: an attempt is counted only when it succeeds.
TakeUncounted(s) ==
    /\ sender[s].stage = "take"
    /\ sender[s].batch # {}
    /\ Goto(s, FirstStage)
    /\ UNCHANGED <<config, row, files, remote, plan, faults>>

\* A payload file that is missing fails the attempt at once.
Take(s) ==
    LET attempts == sender[s].work[Pub(s)].attempts + 1 IN
    /\ sender[s].stage = "take"
    /\ sender[s].batch # {}
    /\ IF Pub(s) \in files
       THEN sender' = [sender EXCEPT ![s].stage = FirstStage,
                                     ![s].work[Pub(s)].attempts = attempts]
       ELSE Fail(s, attempts)
    /\ UNCHANGED <<config, row, files, remote, plan, faults>>

\* An immutable put that is repeated finds its own content and changes nothing,
\* not even the time of the file.
StoreSnapshot(p) ==
    /\ snapshots' = snapshots \cup {p}
    /\ newer' = IF p \in snapshots \/ ~local THEN newer
                ELSE [q \in Pubs |-> IF q = p THEN {} ELSE newer[q] \cup {p}]

\* Mutant: the pointer is put before the snapshot that it names.
PutSnapshotLast(s) ==
    /\ sender[s].stage = "snapshot"
    /\ IF latest # Pub(s)
       THEN latest' = Pub(s) /\ UNCHANGED <<snapshots, newer, sender>>
       ELSE StoreSnapshot(Pub(s)) /\ Goto(s, "pointer") /\ UNCHANGED latest
    /\ UNCHANGED <<config, row, files, audit, accepted, plan, faults>>

\* publish_snapshot: the snapshot, the pointer and the audit object.
PutSnapshot(s) ==
    /\ sender[s].stage = "snapshot"
    /\ StoreSnapshot(Pub(s))
    /\ Goto(s, "pointer")
    /\ UNCHANGED <<config, row, files, latest, audit, accepted, plan, faults>>

PutPointer(s) ==
    /\ sender[s].stage = "pointer"
    /\ latest' = Pub(s)
    /\ Goto(s, "audit")
    /\ UNCHANGED <<config, row, files, snapshots, newer, audit, accepted, plan, faults>>

\* The audit object holds the time of its put (updated_at), so that a second
\* one never has the content of the first: ObjectConflictError.
PutAudit(s) ==
    /\ sender[s].stage = "audit"
    /\ IF Pub(s) \in audit
       THEN Fail(s, sender[s].work[Pub(s)].attempts) /\ UNCHANGED audit
       ELSE /\ audit' = audit \cup {Pub(s)}
            /\ Goto(s, IF transport = "both" THEN "http" ELSE "register")
    /\ UNCHANGED <<config, row, files, snapshots, newer, latest, accepted, plan, faults>>

\* A publication the server knows is answered as a duplicate and not saved again.
PostHttp(s) ==
    /\ sender[s].stage = "http"
    /\ accepted' = accepted \cup {Pub(s)}
    /\ Goto(s, "register")
    /\ UNCHANGED <<config, row, files, snapshots, newer, latest, audit, plan, faults>>

\* register_published_snapshot flushes: the write transaction begins.
Register(s) ==
    /\ sender[s].stage = "register"
    /\ MayWrite(s)
    /\ sender' = [sender EXCEPT ![s].stage = "take", ![s].batch = @ \ {Pub(s)}, ![s].wrote = TRUE,
                                ![s].work[Pub(s)].status = "published",
                                ![s].work[Pub(s)].due = FALSE]
    /\ UNCHANGED <<config, row, files, remote, plan, faults>>

\* An error of the network or the store, an error status of
\* the server, or a reply that is lost after the call took effect.
SendFails(s) ==
    /\ sender[s].stage \in {"snapshot", "pointer", "audit", "http", "register"}
    /\ Fail(s, sender[s].work[Pub(s)].attempts)
    /\ Fault
    /\ UNCHANGED <<config, row, files, remote, plan>>

\* The unit of work writes the columns that differ from what it loaded: a
\* status that was "failed" and is "failed" again is not written.
Written(s, p) ==
    LET new == sender[s].work[p] old == sender[s].loaded[p]
    IN  IF new = old THEN row[p]
        ELSE IF new.status = old.status THEN [new EXCEPT !.status = row[p].status]
        ELSE new

Commit(s) ==
    /\ sender[s].stage = "take"
    /\ sender[s].batch = {}
    /\ MayWrite(s)
    /\ row' = [p \in Pubs |-> Written(s, p)]
    /\ sender' = [sender EXCEPT ![s] = Idle]
    /\ UNCHANGED <<config, files, remote, plan, faults>>

\* Mutant: the verdict on each row is committed whatever became of the batch.
AbortKeepsRows(s) ==
    /\ sender[s].stage # "idle"
    /\ row' = [p \in Pubs |-> IF sender[s].work[p] # sender[s].loaded[p]
                              THEN Row("published", sender[s].work[p].attempts, FALSE)
                              ELSE row[p]]
    /\ sender' = [sender EXCEPT ![s] = Idle]
    /\ Fault
    /\ UNCHANGED <<config, files, remote, plan>>

\* The process ends, or the database stays locked for longer than its timeout:
\* the transaction is rolled back, what was sent stays sent.
Abort(s) ==
    /\ sender[s].stage # "idle"
    /\ sender' = [sender EXCEPT ![s] = Idle]
    /\ Fault
    /\ UNCHANGED <<config, row, files, remote, plan>>

-----------------------------------------------------------------------------
Send(s) ==
    \/ Load(s) \/ Take(s) \/ PutSnapshot(s) \/ PutPointer(s) \/ PutAudit(s)
    \/ PostHttp(s) \/ Register(s) \/ Commit(s)

Next ==
    \/ \E p \in Pubs : Enqueue(p) \/ BackoffElapses(p)
    \/ PlanCleanup \/ Clean \/ CleanupEnds
    \/ \E s \in Senders : Send(s) \/ SendFails(s) \/ Abort(s)

Spec == Init /\ [][Next]_vars

\* Time passes, and the hourly and daily tasks run the outbox again and again.
FairSpec ==
    /\ Spec
    /\ \A p \in Pubs : WF_vars(BackoffElapses(p))
    /\ WF_vars(\E s \in Senders : Send(s))

-----------------------------------------------------------------------------
(* Properties *)

Rows == [status : {"absent", "pending", "failed", "published", "dead_letter"},
         attempts : 0..MaxAttempts, due : BOOLEAN]

Batches == [stage : {"idle", "take", "snapshot", "pointer", "audit", "http", "register"},
            rows : SUBSET Pubs, batch : SUBSET Pubs, loaded : [Pubs -> Rows], work : [Pubs -> Rows],
            wrote : BOOLEAN]

TypeOK ==
    /\ local \in BOOLEAN /\ transport \in LocalTransports \cup RemoteTransports
    /\ row \in [Pubs -> Rows]
    /\ files \subseteq Pubs
    /\ snapshots \subseteq Pubs /\ audit \subseteq Pubs /\ accepted \subseteq Pubs
    /\ newer \in [Pubs -> SUBSET Pubs]
    /\ plan \subseteq {"payload", "snapshot"} \X Pubs
    /\ latest \in Pubs \cup {NoPub}
    /\ sender \in [Senders -> Batches]
    /\ faults \in 0..MaxFaults

\* A reader of the store that follows the forecast pointer, or an audit
\* object, finds the snapshot, at every moment of any number of sends.  In a
\* local store the cleanup may have taken it away, also from under a pointer that
\* a late retry puts back, but never one of the KeepSnapshots put last.
Replaced(p) == local /\ Cardinality(newer[p]) >= KeepSnapshots

RemoteConsistent ==
    \A p \in (audit \cup {latest}) \ {NoPub} : p \in snapshots \/ Replaced(p)

Delivered(p) ==
    /\ transport \in {"object_store", "both"} => p \in audit
    /\ transport \in {"http", "both"} => p \in accepted

\* The invariants of the outbox in one: its types, and a store whose pointer and
\* audit objects name snapshots that are there or that newer ones have replaced.
Safe == TypeOK /\ RemoteConsistent

Promise == INSTANCE PublicationPromise WITH
    queued    <- {p \in Pubs : row[p].status # "absent"},
    delivered <- {p \in Pubs : Delivered(p)},
    verdict   <- [p \in Pubs |-> IF row[p].status \in {"published", "dead_letter"}
                                 THEN row[p].status ELSE "open"],
    held      <- [s \in Senders |-> sender[s].rows]

\* The outbox keeps PublicationPromise: no row is published before every
\* transport has delivered it, and a verdict is written only by a batch that took
\* the row while it was open, through failures, rolled back batches, retries and
\* batches that overlap (the leases of the tasks that send have different names).
KeepsPromise == Promise!Spec

\* A snapshot that is queued is published in the end, as long as fewer calls
\* fail than the outbox allows attempts: "safe repetition is provided by ...
\* the outbox with exponential backoff" (TECHNICAL_PROCESSING_PL.md:277) and
\* publication is idempotent (:292).
EventuallyPublished ==
    \A p \in Pubs : row[p].status = "pending" ~> row[p].status = "published"

\* No row stays in the outbox for ever: it is published or becomes a dead
\* letter, also when its send can never succeed again.
EventuallySettled ==
    \A p \in Pubs : row[p].status = "pending" ~> row[p].status \in {"published", "dead_letter"}
=============================================================================
