----------------------------- MODULE HourlyModels -----------------------------
(***************************************************************************)
(* The life of an hourly model: training judges a candidate against the    *)
(* active model of its target, saves and uploads it, registers it and       *)
(* activates it (smog_ai/hourly/trainer.py); the residual corrector derives *)
(* a new version from the active one (smog_ai/hourly/incremental.py); the   *)
(* prediction stage registers a bootstrap model where there is none.        *)
(*                                                                         *)
(* The jobs are processes that share one SQLite file in WAL mode and one    *)
(* object store.  SQLite has one writer: a session becomes it at its first  *)
(* flush of a changed row and stays it until it commits or rolls back, and  *)
(* a SELECT of a session that has written nothing runs outside any          *)
(* transaction.  So the position of the first flush decides what is atomic. *)
(***************************************************************************)
EXTENDS Naturals, Sequences, FiniteSets, Functions

CONSTANTS
    Targets,     \* sequence: config.hourly_forecasting.targets
    Procs,       \* the processes
    Free,        \* the write lock of the database is not held
    MaxModels,   \* bound: versions that are ever saved
    MaxFaults    \* bound: calls that fail and processes that are killed

ASSUME ModelsAssumption ==
    /\ Targets \in Seq(STRING) /\ Targets # <<>>
    /\ \A i, j \in DOMAIN Targets : Targets[i] = Targets[j] => i = j
    /\ Free \notin Procs
    /\ MaxModels \in Nat /\ MaxFaults \in Nat

VARIABLES
    models,     \* the versions saved so far, in order
    active,     \* target -> versions whose row is active, as committed
    work,       \* the same in the open write transaction
    lock,       \* the session that has written and not yet committed
    uploaded,   \* version -> how many of its immutable objects are put
    pointer,    \* target -> version its pointer object names, 0 for none
    job,        \* process -> the command it runs
    at,         \* process -> the step it is about to take
    cursor,     \* process -> the phase of the job and the index of its target
    cand,       \* process -> the version it makes, and what it was judged against
    faults

store == <<active, work, lock>>
vars == <<models, store, uploaded, pointer, job, at, cursor, cand, faults>>

T == Range(Targets)
Versions == 1..MaxModels
NoVersion == 0
Objects == 3   \* binary, card and metrics of one version

(* weekly: one transaction for all targets (weekly-training, first-run);    *)
(* snapshot: commit_live_metadata, a transaction per target; candidate: the  *)
(* same with activation_policy candidate_only and no object store; local:    *)
(* the same with artifacts.upload_models off.                                *)
Jobs == {"weekly", "snapshot", "local", "candidate", "update", "predict"}
None == "none"
Phases == {"train", "update", "base"}
Steps == {"idle", "open", "look", "save", "upload", "row", "pointer", "compare", "commit"}

Model == [by : Phases, approved : BOOLEAN, base : 0..MaxModels]
Candidate == [base : 0..MaxModels, approved : BOOLEAN, v : 0..MaxModels]
Nothing == [base |-> NoVersion, approved |-> FALSE, v |-> NoVersion]

TypeOK ==
    /\ models \in Seq(Model) /\ Len(models) <= MaxModels
    /\ active \in [T -> SUBSET Versions]
    /\ work \in [T -> SUBSET Versions]
    /\ lock \in Procs \union {Free}
    /\ uploaded \in [Versions -> Nat]
    /\ pointer \in [T -> 0..MaxModels]
    /\ job \in [Procs -> Jobs \union {None}]
    /\ at \in [Procs -> Steps]
    /\ cursor \in [Procs -> [phase : Phases, i : DOMAIN Targets]]
    /\ cand \in [Procs -> Candidate]
    /\ faults \in 0..MaxFaults

-----------------------------------------------------------------------------
Target(p) == Targets[cursor[p].i]
Training(p) == cursor[p].phase = "train"
Live(p) == job[p] \in {"snapshot", "local", "candidate"}

(* A flush waits for the writer; see LockTimeout for the wait that ends. *)
CanWrite(p) == lock \in {p, Free}

(* What a SELECT of p reads: its own writes, or the committed rows. *)
View(p) == IF lock = p THEN work ELSE active

FirstCursor == [phase |-> "train", i |-> 1]

Goto(p, step) == at' = [at EXCEPT ![p] = step]
Takes(p, base, approved, v) ==
    cand' = [cand EXCEPT ![p] = [base |-> base, approved |-> approved, v |-> v]]
Moves(p, phase, i) ==
    /\ cursor' = [cursor EXCEPT ![p] = [phase |-> phase, i |-> i]]
    /\ Goto(p, IF phase = "train" THEN "open" ELSE "look")

(* A plausible bug: forgets the baselines of a training that commits as it goes. *)
AdvanceWithoutBaselines(p) ==
    /\ cand' = [cand EXCEPT ![p] = Nothing]
    /\ IF cursor[p].i < Len(Targets) THEN Moves(p, cursor[p].phase, cursor[p].i + 1)
       ELSE IF Training(p) /\ ~Live(p) THEN Moves(p, "base", 1)
       ELSE Goto(p, "commit") /\ UNCHANGED cursor

(* The next target of the phase, then the baselines, then the last commit. *)
Advance(p) ==
    /\ cand' = [cand EXCEPT ![p] = Nothing]
    /\ IF cursor[p].i < Len(Targets) THEN Moves(p, cursor[p].phase, cursor[p].i + 1)
       ELSE IF Training(p) /\ job[p] # "candidate" THEN Moves(p, "base", 1)
       ELSE Goto(p, "commit") /\ UNCHANGED cursor

Commit(p) ==
    /\ active' = View(p)
    /\ lock' = IF lock = p THEN Free ELSE lock
    /\ UNCHANGED work

Rests(p) ==
    /\ Goto(p, "idle")
    /\ job' = [job EXCEPT ![p] = None]
    /\ cursor' = [cursor EXCEPT ![p] = FirstCursor]
    /\ cand' = [cand EXCEPT ![p] = Nothing]

(* session_scope rolls the open transaction back; a kill has the same effect. *)
Abort(p) ==
    /\ work' = IF lock = p THEN active ELSE work
    /\ lock' = IF lock = p THEN Free ELSE lock
    /\ Rests(p)
    /\ UNCHANGED active

(* One target is over.  A training with commit_live_metadata commits here,   *)
(* and the handler of a failed target commits as well: it rolls nothing back. *)
Settle(p) ==
    /\ IF Live(p) /\ Training(p) THEN CanWrite(p) /\ Commit(p) ELSE UNCHANGED store
    /\ Advance(p)
    /\ UNCHANGED job

(* An exception: the training catches it, the other phases do not. *)
Fail(p) ==
    /\ faults < MaxFaults /\ faults' = faults + 1
    /\ IF Training(p) THEN Settle(p) ELSE Abort(p)

-----------------------------------------------------------------------------
Init ==
    /\ models = <<>>
    /\ active = [t \in T |-> {}] /\ work = active
    /\ lock = Free
    /\ uploaded = [v \in Versions |-> 0]
    /\ pointer = [t \in T |-> NoVersion]
    /\ job = [p \in Procs |-> None]
    /\ at = [p \in Procs |-> "idle"]
    /\ cursor = [p \in Procs |-> FirstCursor]
    /\ cand = [p \in Procs |-> Nothing]
    /\ faults = 0

FirstPhase(j) ==
    CASE j = "update" -> "update" [] j = "predict" -> "base" [] OTHER -> "train"

(* daily-maintenance runs the corrector in the session of its earlier stages,  *)
(* so the corrector may start as the writer.                                   *)
Start(p) ==
    /\ at[p] = "idle" /\ Len(models) < MaxModels
    /\ \E j \in Jobs :
          /\ job' = [job EXCEPT ![p] = j]
          /\ Moves(p, FirstPhase(j), 1)
          /\ lock' = lock \/ (j = "update" /\ lock = Free /\ lock' = p)
    /\ UNCHANGED <<models, active, work, uploaded, pointer, cand, faults>>

(* The TrainingRun row is flushed before the fit; live metadata commits it. *)
OpenRun(p) ==
    /\ at[p] = "open" /\ CanWrite(p)
    /\ IF Live(p) THEN Commit(p) ELSE lock' = p /\ UNCHANGED <<active, work>>
    /\ Goto(p, "look")
    /\ UNCHANGED <<models, uploaded, pointer, job, cursor, cand, faults>>

(* Too few rows, a fit that fails, or a candidate the gate rejects. *)
GiveUp(p) ==
    /\ at[p] = "look" /\ Training(p) /\ CanWrite(p)
    /\ Settle(p)
    /\ UNCHANGED <<models, uploaded, pointer, faults>>

Active(p) == IF View(p)[Target(p)] = {} THEN NoVersion
             ELSE CHOOSE v \in View(p)[Target(p)] : TRUE

(* A plausible bug: compares before the session has written, as with autoflush off. *)
JudgeUnlocked(p) ==
    /\ at[p] = "look" /\ Training(p)
    /\ \E approved \in BOOLEAN : Takes(p, Active(p), approved, NoVersion)
    /\ Goto(p, "save")
    /\ UNCHANGED <<models, store, uploaded, pointer, job, cursor, faults>>

(* _evaluate_active_model reads through a session with a changed TrainingRun, *)
(* so the query flushes first and the comparison runs inside the transaction. *)
Judge(p) ==
    /\ at[p] = "look" /\ Training(p) /\ CanWrite(p)
    /\ \E approved \in BOOLEAN : Takes(p, Active(p), approved, NoVersion)
    /\ lock' = p
    /\ Goto(p, "save")
    /\ UNCHANGED <<models, active, work, uploaded, pointer, job, cursor, faults>>

(* The corrector and the baselines read before they have written anything. *)
Look(p) ==
    /\ at[p] = "look" /\ ~Training(p)
    /\ \/ /\ cursor[p].phase = "update" => Active(p) # NoVersion
          /\ cursor[p].phase = "base" => Active(p) = NoVersion
          /\ Takes(p, Active(p), TRUE, NoVersion)
          /\ Goto(p, "save") /\ UNCHANGED cursor
       \/ /\ cursor[p].phase = "base" => Active(p) # NoVersion
          /\ Advance(p)
    /\ UNCHANGED <<models, store, uploaded, pointer, job, faults>>

(* The artifact and its recovery manifest on the local disk. *)
SaveArtifact(p) ==
    /\ at[p] = "save" /\ Len(models) < MaxModels
    /\ models' = Append(models, [by |-> cursor[p].phase,
                                 approved |-> cand[p].approved, base |-> cand[p].base])
    /\ Takes(p, cand[p].base, cand[p].approved, Len(models) + 1)
    /\ Goto(p, IF job[p] \in {"candidate", "local"} THEN "row" ELSE "upload")
    /\ UNCHANGED <<store, uploaded, pointer, job, cursor, faults>>

(* A plausible bug: leaves the card and the metrics for later. *)
UploadBinaryOnly(p) ==
    /\ at[p] = "upload"
    /\ uploaded' = [uploaded EXCEPT ![cand[p].v] = @ + 1]
    /\ Goto(p, "row")
    /\ UNCHANGED <<models, store, pointer, job, cursor, cand, faults>>

(* _upload_model: three immutable puts, in this order. *)
Upload(p) ==
    /\ at[p] = "upload"
    /\ uploaded' = [uploaded EXCEPT ![cand[p].v] = @ + 1]
    /\ Goto(p, IF uploaded[cand[p].v] + 1 = Objects THEN "row" ELSE "upload")
    /\ UNCHANGED <<models, store, pointer, job, cursor, cand, faults>>

Activates(p) == cand[p].approved /\ job[p] # "candidate"

(* A plausible bug: deactivates the row the job has read instead of every row of the target. *)
RegisterReadRow(p) ==
    /\ at[p] = "row" /\ CanWrite(p)
    /\ IF Activates(p)
       THEN /\ work' = [work EXCEPT ![Target(p)] = (@ \ {cand[p].base}) \union {cand[p].v}]
            /\ lock' = p
            /\ Goto(p, IF job[p] = "local" THEN "compare" ELSE "pointer")
            /\ UNCHANGED <<active, job, cursor, cand>>
       ELSE Settle(p)
    /\ UNCHANGED <<models, uploaded, pointer, faults>>

(* A plausible bug: deactivates the old model before it looks at the verdict of the gate. *)
RegisterUngated(p) ==
    /\ at[p] = "row" /\ CanWrite(p)
    /\ IF job[p] # "candidate"
       THEN /\ work' = [work EXCEPT ![Target(p)] = IF cand[p].approved THEN {cand[p].v} ELSE {}]
            /\ lock' = p
            /\ Goto(p, IF job[p] = "local" THEN "compare" ELSE "pointer")
            /\ UNCHANGED <<active, job, cursor, cand>>
       ELSE Settle(p)
    /\ UNCHANGED <<models, uploaded, pointer, faults>>

(* The ModelVersion row, inactive, and the UPDATEs of _activate. *)
Register(p) ==
    /\ at[p] = "row" /\ CanWrite(p)
    /\ IF Activates(p)
       THEN /\ work' = [work EXCEPT ![Target(p)] = {cand[p].v}]
            /\ lock' = p
            /\ Goto(p, IF job[p] = "local" THEN "compare" ELSE "pointer")
            /\ UNCHANGED <<active, job, cursor, cand>>
       ELSE Settle(p)
    /\ UNCHANGED <<models, uploaded, pointer, faults>>

PutPointer(p) ==
    /\ at[p] = "pointer"
    /\ pointer' = [pointer EXCEPT ![Target(p)] = cand[p].v]
    /\ Goto(p, "compare")
    /\ UNCHANGED <<models, store, uploaded, job, cursor, cand, faults>>

(* export_model_comparison and mark_selected, then the end of the target. *)
Compare(p) ==
    /\ at[p] = "compare"
    /\ Settle(p)
    /\ UNCHANGED <<models, uploaded, pointer, faults>>

(* The file, a put or, with mlflow.strict, the export or the mark raises. *)
CallFails(p) ==
    /\ at[p] \in {"save", "upload", "pointer", "compare"}
    /\ Fail(p)
    /\ UNCHANGED <<models, uploaded, pointer>>

Finish(p) ==
    /\ at[p] = "commit"
    /\ Commit(p)
    /\ Rests(p)
    /\ UNCHANGED <<models, uploaded, pointer, faults>>

(* busy_timeout: a flush that has waited too long raises and the job ends. *)
LockTimeout(p) ==
    /\ at[p] \in {"open", "look", "row"} /\ ~CanWrite(p)
    /\ at[p] = "look" => Training(p)
    /\ Abort(p)
    /\ UNCHANGED <<models, uploaded, pointer, faults>>

Killed(p) ==
    /\ at[p] # "idle" /\ faults < MaxFaults
    /\ faults' = faults + 1
    /\ Abort(p)
    /\ UNCHANGED <<models, uploaded, pointer>>

Step(p) ==
    \/ OpenRun(p) \/ GiveUp(p) \/ Judge(p) \/ Look(p) \/ SaveArtifact(p) \/ Upload(p)
    \/ Register(p) \/ PutPointer(p) \/ Compare(p) \/ CallFails(p) \/ Finish(p)
    \/ LockTimeout(p)

Next == \E p \in Procs : Start(p) \/ Step(p) \/ Killed(p)

Spec == Init /\ [][Next]_vars

-----------------------------------------------------------------------------
(* docs/ARCHITECTURE.md: one active model per target, in every committed state. *)
(* The jobs deactivate by an UPDATE of the target's rows, whatever they read.   *)
OneActive == \A t \in T : Cardinality(active[t]) <= 1

(* An immutable version is complete in the store before a pointer names it,    *)
(* so a reader of the pointer finds the binary, the card and the metrics.       *)
PointerComplete == \A t \in T : pointer[t] # NoVersion => uploaded[pointer[t]] = Objects

(* A target that has an active model never loses it: the handler of a failed    *)
(* target commits, and what it commits is never the deactivation alone.          *)
NeverWithoutModel == [][\A t \in T : active[t] # {} => active'[t] # {}]_vars

(* A trained model replaces exactly the model it was judged against: nothing    *)
(* another job commits comes between the comparison and the activation.         *)
JudgedReplacement ==
    [][\A t \in T : \A v \in active'[t] \ active[t] : models'[v].by = "train" =>
          /\ models'[v].approved
          /\ active[t] = IF models'[v].base = NoVersion THEN {} ELSE {models'[v].base}]_vars

(* A training or a prediction stage that ends, whatever became of its targets,  *)
(* leaves a model for every one of them: the candidates or the bootstrap models. *)
EveryTargetServed ==
    [][\A p \in Procs :
          (/\ at[p] = "commit" /\ at'[p] = "idle" /\ faults' = faults
           /\ job[p] \in {"weekly", "snapshot", "local", "predict"})
          => \A t \in T : active'[t] # {}]_vars

(* TECHNICAL_PROCESSING_PL.md 20.5: the corrector learns against the active    *)
(* champion, so what it activates replaces the model it was derived from.       *)
ResidualReplacesItsBase ==
    [][\A t \in T : \A v \in active'[t] \ active[t] :
          models'[v].by = "update" => active[t] = {models'[v].base}]_vars

(* TECHNICAL_PROCESSING_PL.md 10 and 16: activation is atomic, so while no job  *)
(* is running the pointer of a target names its active model.                   *)
AtomicActivation ==
    (\A p \in Procs : at[p] = "idle") =>
        \A t \in T : active[t] = IF pointer[t] = NoVersion THEN {} ELSE {pointer[t]}
==============================================================================
