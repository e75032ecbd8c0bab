----------------------------- MODULE ModelRecovery -----------------------------
(***************************************************************************)
(* Three commands of an operator beside the jobs of HourlyModels:            *)
(*  recover-hourly-models finds the artifacts of every target in the store,  *)
(*    on the disk and in the database and makes the best of them active      *)
(*    (smog_ai/hourly/recovery.py);                                          *)
(*  resume-hourly-after-failure does so when every target has one, or trains *)
(*    again, and goes on with the predictions (smog_ai/hourly/resume.py);    *)
(*  publish-approved-models uploads the active models that were trained      *)
(*    without uploads and points to them (smog_ai/mlops/publish.py).         *)
(*                                                                           *)
(* One such command runs at a time.  A machine may be replaced: the database *)
(* and the local artifacts are gone, the object store stays.                 *)
(***************************************************************************)
EXTENDS HourlyModels

CONSTANT Beside   \* bound: the jobs that are started beside the commands

ASSUME RecoveryAssumption == Beside \subseteq Jobs

VARIABLES
    of,      \* the target of each version saved
    files,   \* versions whose artifact is on the local disk
    since,   \* version -> how many versions there were when it was last activated
    card,    \* version -> the metrics in its card: of the training, marked by a
             \*            recovery, lost by a recovery, or written by a publication
    row,     \* version -> the metrics in its database row
    op       \* the operator's command

artifacts == <<of, files, since, card, row>>
allVars == <<vars, artifacts, op>>

Metrics == {"own", "marked", "lost"}
Cards == {"training", "marked", "lost", "publication"}
Sources == {"pointer", "remote", "local", "database"}

NoChoice == [v |-> NoVersion, from |-> "local"]
NoOp == [by |-> Free, cmd |-> None, at |-> "idle", i |-> 1, missing |-> FALSE,
         plan |-> [t \in T |-> NoChoice]]

OpSteps == {"idle", "audit", "load", "binary", "card", "metrics", "row", "pointer", "commit"}

RecoveryTypeOK ==
    /\ TypeOK
    /\ of \in Seq(T) /\ Len(of) = Len(models)
    /\ files \subseteq 1..Len(models)
    /\ since \in [Versions -> 0..MaxModels]
    /\ card \in [Versions -> Cards] /\ row \in [Versions -> Metrics]
    /\ op \in [by : Procs \union {Free}, cmd : {None, "recover", "resume", "publish"},
               at : OpSteps, i : DOMAIN Targets, missing : BOOLEAN,
               plan : [T -> [v : 0..MaxModels, from : Sources]]]

RecoveryInit ==
    /\ Init
    /\ of = <<>> /\ files = {} /\ since = [v \in Versions |-> 0]
    /\ card = [v \in Versions |-> "training"] /\ row = [v \in Versions |-> "own"]
    /\ op = NoOp

(* What a step of a job does to the artifacts: it saves one, or activates one. *)
Follow(p) ==
    /\ IF Len(models') > Len(models)
       THEN of' = Append(of, Target(p)) /\ files' = files \union {Len(models')}
       ELSE UNCHANGED <<of, files>>
    /\ since' = IF at[p] = "row" /\ at'[p] \in {"pointer", "compare"}
                THEN [since EXCEPT ![cand[p].v] = Len(models)] ELSE since

(* A recovery that takes no lease may have uploaded the version first: its card  *)
(* is a conflict, equal objects are used again.                                  *)
UploadedElsewhere(p) ==
    /\ at[p] = "upload"
    /\ card[cand[p].v] \in {"marked", "lost"} \/ uploaded[cand[p].v] = Objects

SkipUpload(p) ==
    /\ UploadedElsewhere(p)
    /\ IF card[cand[p].v] = "training"
       THEN Goto(p, "row") /\ UNCHANGED <<store, job, cursor, cand>>
       ELSE IF Training(p) THEN Settle(p) ELSE Abort(p)
    /\ UNCHANGED <<models, uploaded, pointer, faults>>

(* Jobs that start beside each other are HourlyModels' own.                      *)
Job(p) ==
    /\ op.by # p
    /\ \/ /\ Start(p) /\ job'[p] \in Beside
          /\ \A q \in Procs : at[q] = "idle"
       \/ Killed(p) \/ SkipUpload(p)
       \/ ~UploadedElsewhere(p) /\ Step(p)
    /\ Follow(p)
    /\ UNCHANGED <<card, row, op>>

(* A new machine: what is not in the object store is lost. *)
Lost ==
    /\ faults < MaxFaults /\ faults' = faults + 1
    /\ \A p \in Procs : at[p] = "idle"
    /\ op = NoOp
    /\ active' = [t \in T |-> {}] /\ work' = active'
    /\ files' = {}
    /\ UNCHANGED <<models, lock, uploaded, pointer, job, at, cursor, cand, of, since, card, row, op>>

-----------------------------------------------------------------------------
(* audit_hourly_model_artifacts *)

Bootstrap(v) == models[v].by = "base"
Rank(bootstrap) == IF bootstrap THEN 1 ELSE 2
Saved(v) == 2 * v             \* time of its training
Activated(v) == 2 * since[v] + 1
Priority == [pointer |-> 4, remote |-> 3, local |-> 2, database |-> 1]

Found(t, v, from, bootstrap, time) ==
    [v |-> v, from |-> from, key |-> <<Rank(bootstrap), time, Priority[from]>>]

(* The pointer says nothing of bootstrap, and neither does a version that has    *)
(* no card.  An inactive row is as old as its file, or a little younger.         *)
Candidates(t) ==
    {Found(t, v, "pointer", FALSE, Activated(v)) : v \in {pointer[t]} \ {NoVersion}}
    \union {Found(t, v, "remote", Bootstrap(v) /\ uploaded[v] > 1, Saved(v)) :
                v \in {w \in DOMAIN of : of[w] = t /\ uploaded[w] > 0}}
    \union {Found(t, v, "local", Bootstrap(v), Saved(v)) : v \in {w \in files : of[w] = t}}
    \union {Found(t, v, "database", Bootstrap(v), Activated(v)) : v \in files \intersect View(op.by)[t]}

Before(k, l) ==
    \E n \in 1..3 : k[n] < l[n] /\ \A m \in 1..(n - 1) : k[m] = l[m]

(* A plausible bug: the oldest artifact. *)
BestOldest(t) ==
    IF Candidates(t) = {} THEN {NoChoice}
    ELSE LET best == CHOOSE c \in Candidates(t) : \A d \in Candidates(t) : ~Before(d.key, c.key)
         IN  {[v |-> best.v, from |-> best.from]}

(* _candidate_sort_key; the file of an inactive version may be found by its row. *)
Best(t) ==
    IF Candidates(t) = {} THEN {NoChoice}
    ELSE LET best == CHOOSE c \in Candidates(t) : \A d \in Candidates(t) : ~Before(c.key, d.key)
         IN  {[v |-> best.v, from |-> from] :
                 from \in {best.from} \union (IF best.from = "local" THEN {"database"} ELSE {})}

Command(p, cmd, step) == op' = [op EXCEPT !.by = p, !.cmd = cmd, !.at = step]

Choice == op.plan[Targets[op.i]]
OpGoes(step) == op' = [op EXCEPT !.at = step]

Operate(p) ==
    /\ op = NoOp /\ at[p] = "idle"
    /\ \E cmd \in {"recover", "resume", "publish"} : Command(p, cmd, "audit")
    /\ UNCHANGED <<vars, artifacts>>

Recovering == op.cmd \in {"recover", "resume"}

(* Resume stops when a target has no artifact, or with --retrain-if-missing      *)
(* trains all of them again, which leaves no bootstrap model to the predictions. *)
Audit ==
    /\ op.at = "audit" /\ Recovering
    /\ \E plan \in [T -> UNION {Best(t) : t \in T}] :
        /\ \A t \in T : plan[t] \in Best(t)
        /\ \/ /\ op.cmd = "recover" \/ \A t \in T : plan[t] # NoChoice
              /\ op' = [op EXCEPT !.plan = plan, !.at = "load"]
              /\ UNCHANGED <<job, at, cursor>>
           \/ /\ op.cmd = "resume" /\ \E t \in T : plan[t] = NoChoice
              /\ op' = NoOp
              /\ \/ /\ Len(models) < MaxModels
                    /\ job' = [job EXCEPT ![op.by] = "weekly"] /\ Moves(op.by, "train", 1)
                 \/ UNCHANGED <<job, at, cursor>>
    /\ UNCHANGED <<models, store, uploaded, pointer, cand, faults, artifacts>>

(* The next target, or the end of the session; its part of the plan is done.   *)
OpNext(missing) ==
    op' = [op EXCEPT !.i = IF op.i < Len(Targets) THEN @ + 1 ELSE @,
                     !.at = IF op.i = Len(Targets) THEN "commit"
                            ELSE IF Recovering THEN "load" ELSE "binary",
                     !.missing = @ \/ missing, !.plan[Targets[op.i]] = NoChoice]

-----------------------------------------------------------------------------
(* _register_recovered_model *)

(* A plausible bug: makes room for the recovered row before it has an artifact. *)
LoadDeactivating ==
    /\ op.at = "load" /\ CanWrite(op.by)
    /\ IF Choice = NoChoice
       THEN OpNext(TRUE) /\ UNCHANGED files
       ELSE OpGoes("binary") /\ files' = files \union {Choice.v}
    /\ work' = [work EXCEPT ![Targets[op.i]] = {}] /\ lock' = op.by
    /\ UNCHANGED <<models, active, uploaded, pointer, job, at, cursor, cand, faults, of, since, card, row>>

Load ==
    /\ op.at = "load"
    /\ IF Choice = NoChoice
       THEN OpNext(TRUE) /\ UNCHANGED files
       ELSE OpGoes("binary") /\ files' = files \union {Choice.v}
    /\ UNCHANGED <<vars, of, since, card, row>>

(* A plausible bug: the card and the metrics are taken as there. *)
PutBinaryOnly ==
    /\ op.at = "binary" /\ Recovering
    /\ uploaded' = [uploaded EXCEPT ![Choice.v] = IF @ < 1 THEN 1 ELSE @]
    /\ OpGoes("row")
    /\ UNCHANGED <<models, store, pointer, job, at, cursor, cand, faults, artifacts>>

(* The binary, the card and the metrics object, each only where it is missing. *)
PutMissing(n, next) ==
    /\ Recovering
    /\ uploaded' = [uploaded EXCEPT ![Choice.v] = IF @ < n THEN n ELSE @]
    /\ OpGoes(next)
    /\ UNCHANGED <<models, store, pointer, job, at, cursor, cand, faults, of, files, since, row>>

PutBinary == op.at = "binary" /\ PutMissing(1, "card") /\ UNCHANGED card
PutMetrics == op.at = "metrics" /\ PutMissing(3, "row") /\ UNCHANGED card

(* Only the manifest beside a local file still knows the metrics. *)
PutCard ==
    /\ op.at = "card" /\ PutMissing(2, "metrics")
    /\ card' = IF uploaded[Choice.v] >= 2 THEN card
               ELSE [card EXCEPT ![Choice.v] = IF Choice.from = "local" THEN "marked" ELSE "lost"]

(* The metrics of the row come from the card or the manifest, with marks.       *)
RecoveredMetrics ==
    CASE Choice.from = "local" -> "marked"
      [] Choice.from = "database" -> "lost"
      [] OTHER -> IF card[Choice.v] = "lost" THEN "lost" ELSE "marked"

WriteRow(versions) ==
    /\ op.at = "row" /\ Recovering /\ CanWrite(op.by)
    /\ work' = [work EXCEPT ![Targets[op.i]] = versions]
    /\ lock' = op.by
    /\ since' = [since EXCEPT ![Choice.v] = Len(models)]
    /\ row' = [row EXCEPT ![Choice.v] = RecoveredMetrics]
    /\ OpGoes("pointer")
    /\ UNCHANGED <<models, active, uploaded, pointer, job, at, cursor, cand, faults, of, files, card>>

(* Every row of the target is deactivated and the version's own is made active. *)
RecoverRow == WriteRow({Choice.v})

OpPointer ==
    /\ op.at = "pointer"
    /\ pointer' = [pointer EXCEPT ![Targets[op.i]] = Choice.v]
    /\ OpNext(FALSE)
    /\ UNCHANGED <<models, store, uploaded, job, at, cursor, cand, faults, artifacts>>

(* The session commits whatever is missing; a resume without errors predicts.   *)
RecoveryCommit ==
    /\ op.at = "commit" /\ Recovering
    /\ Commit(op.by)
    /\ IF op.cmd = "resume" /\ ~op.missing /\ Len(models) < MaxModels
       THEN job' = [job EXCEPT ![op.by] = "predict"] /\ Moves(op.by, "base", 1)
       ELSE UNCHANGED <<job, at, cursor>>
    /\ op' = NoOp
    /\ UNCHANGED <<models, uploaded, pointer, cand, faults, artifacts>>

-----------------------------------------------------------------------------
(* publish_approved_hourly_models *)

(* A plausible bug: a bootstrap model, which is approved, and its missing dataset pass. *)
PublishableByStatus(v) ==
    v \in files /\ (row[v] = "lost" \/ models[v].approved)

(* model_publication_failures: a row without metrics passes as approved, but it  *)
(* has no dataset either.  The dataset of a training is taken as complete.       *)
Publishable(v) ==
    /\ v \in files
    /\ row[v] = "lost" \/ (models[v].approved /\ ~Bootstrap(v))
    /\ row[v] # "lost" /\ models[v].by = "train"

(* The requested targets must all pass before anything is uploaded. *)
Select ==
    /\ op.at = "audit" /\ op.cmd = "publish"
    /\ \E requested \in SUBSET T \ {{}} :
        op' = IF \A t \in requested : \E v \in active[t] : Publishable(v)
              THEN [op EXCEPT !.at = "binary",
                        !.plan = [t \in T |-> IF t \in requested
                                              THEN [v |-> CHOOSE v \in active[t] : TRUE, from |-> "database"]
                                              ELSE NoChoice]]
              ELSE NoOp
    /\ UNCHANGED <<vars, artifacts>>

(* The card of a training or of a recovery never equals that of a publication.   *)
SameCard(v) == uploaded[v] < 2 \/ (card[v] = "publication" /\ row[v] = "own")

(* Immutable puts: an equal object is used again, another one is a conflict.     *)
Publish(step, n, next) ==
    /\ op.at = step /\ op.cmd = "publish" /\ Choice # NoChoice
    /\ IF n = 1 \/ SameCard(Choice.v)
       THEN /\ OpGoes(next)
            /\ uploaded' = [uploaded EXCEPT ![Choice.v] = IF @ < n THEN n ELSE @]
            /\ card' = IF n = 2 THEN [card EXCEPT ![Choice.v] = "publication"] ELSE card
       ELSE op' = NoOp /\ UNCHANGED <<uploaded, card>>
    /\ UNCHANGED <<models, store, pointer, job, at, cursor, cand, faults, of, files, since, row>>

PublishBinary == Publish("binary", 1, "card")
PublishCard == Publish("card", 2, "metrics")
PublishMetrics == Publish("metrics", 3, "pointer")

NotRequested ==
    /\ op.at = "binary" /\ op.cmd = "publish" /\ Choice = NoChoice
    /\ OpNext(FALSE)
    /\ UNCHANGED <<vars, artifacts>>

(* What the session writes at the end are the object keys of the rows.           *)
PublicationCommit ==
    /\ op.at = "commit" /\ op.cmd = "publish" /\ CanWrite(op.by)
    /\ op' = NoOp
    /\ UNCHANGED <<vars, artifacts>>

-----------------------------------------------------------------------------
OpRollsBack ==
    /\ work' = IF lock = op.by THEN active ELSE work
    /\ lock' = IF lock = op.by THEN Free ELSE lock
    /\ op' = NoOp
    /\ UNCHANGED <<models, active, uploaded, pointer, job, at, cursor, cand, artifacts>>

(* Recovery catches what goes wrong with a target; publication does not.         *)
OpFails ==
    /\ op.at \in {"load", "binary", "card", "metrics", "pointer"}
    /\ faults < MaxFaults /\ faults' = faults + 1
    /\ IF Recovering
       THEN OpNext(TRUE) /\ UNCHANGED <<models, store, uploaded, pointer, job, at, cursor, cand, artifacts>>
       ELSE OpRollsBack

OpTimesOut ==
    /\ ~CanWrite(op.by)
    /\ \/ /\ op.at = "row" /\ OpNext(TRUE)
          /\ UNCHANGED <<vars, artifacts>>
       \/ /\ op.at = "commit" /\ op.cmd = "publish"
          /\ OpRollsBack /\ UNCHANGED faults

OpKilled ==
    /\ op # NoOp /\ faults < MaxFaults /\ faults' = faults + 1
    /\ OpRollsBack

OpStep ==
    \/ Audit \/ Load \/ PutBinary \/ PutCard \/ PutMetrics \/ RecoverRow \/ OpPointer
    \/ RecoveryCommit
    \/ Select \/ NotRequested \/ PublishBinary \/ PublishCard \/ PublishMetrics
    \/ PublicationCommit
    \/ OpFails \/ OpTimesOut \/ OpKilled

RecoveryNext == (\E p \in Procs : Job(p) \/ Operate(p)) \/ OpStep \/ Lost

RecoverySpec == RecoveryInit /\ [][RecoveryNext]_allVars

-----------------------------------------------------------------------------
(* No job, recovery or publication leaves a target without the model it had:   *)
(* a recovery that fails with a target leaves its rows as they were, and only  *)
(* a new machine begins without any.                                           *)
RecoveryKeepsModels ==
    [][Lost \/ \A t \in T : active[t] # {} => active'[t] # {}]_allVars

(* Recovery, which asks neither the gate nor the rows, never goes back behind    *)
(* the version that the pointer of the target names, except to the model that is  *)
(* active in the database: the row of an earlier recovery whose pointer failed,   *)
(* written after a training beside it had moved the pointer on.                   *)
NeverBehindPointer ==
    [][op.at = "audit" /\ op'.at = "load" =>
        \A t \in T : op'.plan[t].v >= pointer[t] \/ op'.plan[t].v \in active[t]]_allVars

(* publish-approved-models points only to trained models that the gate has      *)
(* approved, whatever a recovery has done to their rows.                        *)
PublishedIsApproved ==
    [][op.cmd = "publish" /\ op' # op =>
        \A t \in T : pointer'[t] # pointer[t] =>
            models[pointer'[t]].by = "train" /\ models[pointer'[t]].approved]_allVars

(* The invariants of HourlyModels through recoveries and publications, in one: their  *)
(* types, one active model of a target, and pointers to complete versions only.       *)
RecoverySafe == RecoveryTypeOK /\ OneActive /\ PointerComplete
=============================================================================
