-------------------------------- MODULE Pipeline --------------------------------
(***************************************************************************)
(* smog_ai/pipeline.py and the stages it runs: collection, validation,     *)
(* station matching, verification, hourly prediction, spatial surfaces and *)
(* the dashboard snapshot, with the maintenance and first-run commands of  *)
(* cli.py that run the same stages in fewer, longer transactions.          *)
(*                                                                         *)
(* A stage is one transaction and one step, but for those that take long:  *)
(* a prediction reads its origin and the clock, computes, and inserts and  *)
(* commits later (draft); maintenance and the models of first-run hold     *)
(* the write lock from training to their commit and put releases and       *)
(* snapshots in between.  Who needs the lock meanwhile waits for half a    *)
(* minute and ends: no run starts and no stage runs beside them.           *)
(*                                                                         *)
(* Time is counted in hours: "now" is a moment inside the hour now.  One   *)
(* air station stands for all of them, with one air and one weather series *)
(* and the targets PM10 and temperature_c.  Windows of days (7, 14 and 60) *)
(* are longer than the model's clock and left out.                         *)
(***************************************************************************)
EXTENDS Integers, FiniteSets, Sequences

CONSTANTS
    MaxHour,      \* bound on the clock
    Leads,        \* serving_leads, 1..serving_horizon_count
    MaxDelay,     \* maximum_source_delay_hours
    Near,         \* verify_tolerance_minutes in whole hours
    Readings,     \* what a source may say of its newest hour
    MaxModel,     \* bound on the versions training activates
    MaxRuns,      \* bound on runs of the pipeline
    MaxTasks,     \* bound on single stages and maintenance beside them
    MaxFaults     \* bound on stages lost, processes ended, uploads cut off, builds
                  \* without some surface

ASSUME PipelineAssumption ==
    /\ MaxHour \in Nat /\ MaxDelay \in Nat /\ Near \in Nat
    /\ MaxModel \in Nat \ {0}
    /\ MaxRuns \in Nat /\ MaxTasks \in Nat /\ MaxFaults \in Nat
    /\ Readings \subseteq {"null", "good", "bad"}
    /\ Leads \subseteq Nat \ {0} /\ IsFiniteSet(Leads)

Params == {"air", "weather"}

Hours == 0..MaxHour

Never == -1

\* What verification_status says of a forecast without an actual value.
Unlooked == -1
Awaiting == -2

HourlyStages ==
    <<"collect_gios", "collect_imgw", "validate", "match_stations",
      "export_object_store", "verify", "predict", "build_spatial_surfaces",
      "publish_documentation", "build_snapshot">>

FirstRunStages ==
    <<"collect_gios", "collect_imgw", "backfill_imgw_archive", "validate",
      "match_stations", "export_object_store">>

Stages == {HourlyStages[i] : i \in DOMAIN HourlyStages} \cup {"backfill_imgw_archive"}

\* An hour of a series: no row, a null value, a value in range, a value out of
\* range that nobody has looked at, a value marked is_valid = False.
Values == {"absent", "null", "good", "bad", "refuted"}

Forecast == [param : Params, origin : Hours, target : Nat \ {0},
             lead : Leads, model : 1..MaxModel]

Runs == [kind : {"none", "hourly_pipeline", "first_run_collection"},
         status : {"none", "running", "success", "partial_success"},
         todo : Seq(Stages \cup {"finish", "models", "snapshot"}),
         known : SUBSET Forecast, errors : BOOLEAN, usable : BOOLEAN]

\* A command beside the run has a process and transaction of its own.
Owners == {"run", "task"}

Drafts == [stage : {"none", "predict", "surfaces", "snapshot", "commit"},
           set : SUBSET Forecast, version : 1..MaxModel]

VARIABLES
    now,
    meas,       \* meas[p][h]: the measurement tables
    matched,    \* the air station has a row in station_matches
    collected,  \* collected[p]: hour of last_gios_success_at, last_imgw_success_at
    verdict,    \* verdict[f]: forecasts of the table and the hour that verified them
    model,      \* the active model version
    bundle,     \* the canonical pointer to operational data names a bundle
    manifests,  \* manifest.json of each release: what it says of operations
    release,    \* latest_spatial_pointer
    snapshot,   \* forecasts in the newest dashboard snapshot
    draft,      \* draft[o]: what a prediction or a maintenance has yet to commit
    run,        \* the newest row of collection_runs and its process; run.known are
                \* the forecasts of the table when it began
    runs, tasks, faults

vars == <<now, meas, matched, collected, verdict, model, bundle, manifests, release,
          snapshot, draft, run, runs, tasks, faults>>

counters == <<runs, tasks>>

Fault == faults < MaxFaults /\ faults' = faults + 1

Fails(failed) == IF failed = {} THEN UNCHANGED faults ELSE Fault

forecasts == DOMAIN verdict

NoRelease == [set |-> {}, status |-> [operations |-> <<>>, failed |-> {}]]

NoRun == [kind |-> "none", status |-> "none", todo |-> <<>>, known |-> {},
          errors |-> FALSE, usable |-> FALSE]

NoDraft == [stage |-> "none", set |-> {}, version |-> 1]

Init ==
    /\ now = 0
    /\ meas = [p \in Params |-> [h \in Hours |-> "absent"]]
    /\ matched = FALSE
    /\ collected = [p \in Params |-> Never]
    /\ verdict = <<>>
    /\ model = 1
    /\ bundle = FALSE
    /\ manifests = <<>>
    /\ release = NoRelease
    /\ snapshot = {}
    /\ draft = [o \in Owners |-> NoDraft]
    /\ run = NoRun
    /\ runs = 0 /\ tasks = 0 /\ faults = 0

Tick ==
    /\ now < MaxHour
    /\ now' = now + 1
    /\ UNCHANGED <<meas, matched, collected, verdict, model, bundle, manifests, release,
                   snapshot, draft, run, counters, faults>>

-----------------------------------------------------------------------------
(* What the stages compute.                                                *)

\* ON CONFLICT DO NOTHING: a row that is there stays as it is.
Inserted(m, p, offer) ==
    [m EXCEPT ![p] = [h \in Hours |->
        IF m[p][h] = "absent" /\ h \in DOMAIN offer THEN offer[h] ELSE m[p][h]]]

\* Only is_valid = False is ever written.
Validated(m) ==
    [p \in Params |-> [h \in Hours |-> IF m[p][h] = "bad" THEN "refuted" ELSE m[p][h]]]

Valid(m, p) == {h \in Hours : m[p][h] \in {"good", "bad"}}

\* The weather of an air station is read through its match.
Readable(m, p, match) == IF p = "weather" /\ ~match THEN {} ELSE Valid(m, p)

Lacking(p, k) == {h \in 0..k : meas[p][h] = "absent"}

\* GIOS lists the hours of a sensor up to its newest, which may still be null.
AirOffers ==
    {<<>>} \cup {[h \in Lacking("air", k) |-> IF h = k THEN last ELSE "good"] :
                    k \in 0..now, last \in Readings}

\* The live endpoint of IMGW has one observation of a station.
WeatherOffers == UNION {[{h} -> Readings \ {"null"}] : h \in {now - 1, now} \cap Hours}

ArchiveOffers(p) == {<<>>} \cup {[h \in Lacking(p, k) |-> "good"] : k \in 0..now}

Distance(a, b) == IF a < b THEN b - a ELSE a - b

\* julianday distance; the order of two equally near rows is the database's.
Nearest(S, target, early) ==
    CHOOSE h \in S : \A g \in S :
        \/ Distance(h, target) < Distance(g, target)
        \/ Distance(h, target) = Distance(g, target) /\ (IF early THEN h <= g ELSE g <= h)

\* As if those with a result were looked at again.
PendingOrVerified(v, t) == {f \in DOMAIN v : f.target <= t /\ v[f] # Awaiting}

\* Forecasts without a result or with a pending one.
Pending(v, t) == {f \in DOMAIN v : f.target <= t /\ v[f] = Unlooked}

Actual(m, match, f) ==
    {h \in Readable(m, f.param, match) : Distance(h, f.target) <= Near}

Verified(m, match, v, t, early) ==
    [f \in DOMAIN v |->
        IF f \notin Pending(v, t) THEN v[f]
        ELSE IF Actual(m, match, f) = {} THEN Awaiting
        ELSE Nearest(Actual(m, match, f), f.target, early)]

\* latest_common_origin_time: a series without rows is passed over.
Newest(m, match, p) ==
    CHOOSE h \in Readable(m, p, match) : \A g \in Readable(m, p, match) : g <= h

Sources(m, match) == {p \in Params : Readable(m, p, match) # {}}

Origin(m, match) ==
    IF Sources(m, match) = {} THEN Never
    ELSE CHOOSE o \in {Newest(m, match, p) : p \in Sources(m, match)} :
             \A p \in Sources(m, match) : o <= Newest(m, match, p)

\* next_full_hour
Anchor(t) == t + 1

\* The age is a fraction: an origin MaxDelay hours back is in time only on the full hour.
TooOld(origin, t, sharp) == t - origin > MaxDelay \/ (t - origin = MaxDelay /\ ~sharp)

\* As if the forecasts were created at the origin of their data.
ForecastedFromOrigin(m, match, version, t) ==
    LET origin == Origin(m, match)
    IN  {[param |-> p, origin |-> origin, target |-> Anchor(origin) + l - 1, lead |-> l,
          model |-> version] :
            p \in {q \in Params : \E h \in Readable(m, q, match) : h <= origin}, l \in Leads}

\* create_hourly_forecasts after its checks: the rows of _persist_predictions, which
\* compares their targets with the creation time only.
Forecasted(m, match, version, t) ==
    LET origin == Origin(m, match)
        grid == {[param |-> p, origin |-> origin, target |-> Anchor(t) + l - 1, lead |-> l,
                  model |-> version] :
                    p \in {q \in Params : \E h \in Readable(m, q, match) : h <= origin},
                    l \in Leads}
    IN  {f \in grid : f.target > t}

Persisted(v, F) == [f \in DOMAIN v \cup F |-> IF f \in DOMAIN v THEN v[f] ELSE Unlooked]

CanPredict(m, match, t, sharp) ==
    Origin(m, match) # Never /\ ~TooOld(Origin(m, match), t, sharp)

Predicted(m, match, version, t, sharp) ==
    IF CanPredict(m, match, t, sharp) THEN Forecasted(m, match, version, t) ELSE {}

\* Creation time within the model: the hour, then the version active in it.
Made(f) == f.target - f.lead

Later(f, g) ==
    \/ f.origin > g.origin
    \/ f.origin = g.origin /\ Made(f) > Made(g)
    \/ f.origin = g.origin /\ Made(f) = Made(g) /\ f.model >= g.model

\* _forecast_station_frames: the newest origin, then the newest row.
Surfaces(F) ==
    {f \in F : \A g \in F : f.param = g.param /\ f.lead = g.lead => Later(f, g)}

\* What build_public_operations_status shows of this system, and the surfaces that
\* could not be built: a failure of one is noted and the others are published.
Status(version, failed) ==
    [operations |-> <<runs, run.status, collected, version>>, failed |-> failed]

\* As if manifests could be written over.
ManifestWritable(S, status) == TRUE

\* An immutable object may be put again with the same content only.
ManifestFits(S, status) == S \in DOMAIN manifests => manifests[S] = status

-----------------------------------------------------------------------------
(* Who runs a stage: the pipeline in its order, or a command on its own.   *)

Running == run.status = "running" /\ run.todo # <<>>

At(s) == Running /\ Head(run.todo) = s

Turn(s) == At(s) /\ draft["run"] = NoDraft

\* Somebody holds the write lock from training to commit.
Working == \E o \in Owners : draft[o].stage \in {"surfaces", "snapshot", "commit"}

Alone(s) ==
    /\ tasks < MaxTasks /\ draft["task"] = NoDraft /\ ~Working
    /\ s \notin {"publish_documentation", "export_object_store"}

\* The stages a first training needs.
Required(s) == s \in {"collect_gios", "collect_imgw", "export_object_store"}

\* As if an exception were logged and nothing counted.
Ignored(s) ==
    \/ /\ At(s)
       /\ run' = [run EXCEPT !.todo = Tail(@), !.usable = @ /\ ~Required(s)]
       /\ UNCHANGED counters
    \/ /\ Alone(s)
       /\ tasks' = tasks + 1
       /\ UNCHANGED <<run, runs>>

\* The stage returned; errors counts what its statistics report.
Returns(s, errors) ==
    \/ /\ Turn(s)
       /\ run' = [run EXCEPT !.todo = Tail(@), !.errors = @ \/ errors]
       /\ UNCHANGED counters
    \/ /\ Alone(s)
       /\ tasks' = tasks + 1
       /\ UNCHANGED <<run, runs>>

\* The stage raised: its transaction is rolled back and the error counted.
Raises(s) ==
    \/ /\ At(s)
       /\ run' = [run EXCEPT !.todo = Tail(@), !.errors = TRUE, !.usable = @ /\ ~Required(s)]
       /\ UNCHANGED counters
    \/ /\ Alone(s)
       /\ tasks' = tasks + 1
       /\ UNCHANGED <<run, runs>>

tables == <<meas, matched, collected, verdict, model>>

published == <<bundle, manifests, release, snapshot>>

Busy == run.todo # <<>>

StartRun(kind, todo) ==
    /\ ~Busy /\ ~Working
    /\ runs < MaxRuns
    /\ runs' = runs + 1
    /\ run' = [NoRun EXCEPT !.kind = kind, !.status = "running", !.todo = todo,
                 !.known = IF kind = "hourly_pipeline" THEN forecasts ELSE {},
                 !.usable = (kind = "first_run_collection")]
    /\ UNCHANGED <<now, faults, tables, published, draft, tasks>>

StartHourly == StartRun("hourly_pipeline", Append(HourlyStages, "finish"))

StartFirstRun == StartRun("first_run_collection",
                          FirstRunStages \o <<"finish", "models", "snapshot">>)

\* The process is gone and its row stays.
Ended == [kind |-> run.kind, status |-> run.status, todo |-> <<>>, known |-> {},
          errors |-> FALSE, usable |-> FALSE]

Dropped(o) == [draft EXCEPT ![o] = NoDraft]

\* A stage is lost for another reason: no network, a locked database.
Lose == \E s \in Stages :
    /\ At(s)
    /\ Fault
    /\ Raises(s)
    /\ draft' = Dropped("run")
    /\ UNCHANGED <<now, tables, published>>

\* The process ends abruptly; its row keeps the status running.
Crash ==
    /\ Busy
    /\ Fault
    /\ run' = Ended
    /\ draft' = Dropped("run")
    /\ UNCHANGED <<now, tables, published, counters>>

\* So does a command's, at any point before its commit: what it has put stays.
TaskLost ==
    /\ draft["task"] # NoDraft
    /\ Fault
    /\ draft' = Dropped("task")
    /\ UNCHANGED <<now, tables, published, run, counters>>

-----------------------------------------------------------------------------
(* The stages.                                                             *)

\* A sensor that fails is skipped and counted, one without data is only noted;
\* last_gios_success_at is set all the same.
CollectGios ==
    /\ \E errors \in BOOLEAN :
        /\ Returns("collect_gios", errors)
        /\ IF errors THEN Fault ELSE UNCHANGED faults
        /\ \E offer \in IF errors THEN {<<>>} ELSE AirOffers :
              meas' = Inserted(meas, "air", offer)
    /\ collected' = [collected EXCEPT !["air"] = now]
    /\ UNCHANGED <<draft, now, matched, verdict, model, published>>

CollectImgw ==
    /\ Returns("collect_imgw", FALSE)
    /\ \E offer \in WeatherOffers : meas' = Inserted(meas, "weather", offer)
    /\ collected' = [collected EXCEPT !["weather"] = now]
    /\ UNCHANGED <<draft, now, faults, matched, verdict, model, published>>

\* A file that cannot be read is counted and the others go on.
BackfillImgwArchive ==
    /\ \E errors \in BOOLEAN :
        /\ Returns("backfill_imgw_archive", errors)
        /\ IF errors THEN Fault ELSE UNCHANGED faults
    /\ \E offer \in ArchiveOffers("weather") : meas' = Inserted(meas, "weather", offer)
    /\ UNCHANGED <<draft, now, matched, collected, verdict, model, published>>

\* A value out of range is an error of every run that still sees it.
Validate ==
    /\ Returns("validate", \E p \in Params, h \in Hours : meas[p][h] \in {"bad", "refuted"})
    /\ meas' = Validated(meas)
    /\ UNCHANGED <<draft, now, faults, matched, collected, verdict, model, published>>

MatchStations ==
    /\ Returns("match_stations", FALSE)
    /\ matched' = (matched \/ (collected["air"] # Never
                              /\ (collected["weather"] # Never \/ Valid(meas, "weather") # {})))
    /\ UNCHANGED <<draft, now, faults, meas, collected, verdict, model, published>>

\* The canonical pointer is moved only to a bundle with rows in every collection.
Whole == matched /\ \A p \in Params : \E h \in Hours : meas[p][h] # "absent"

ExportObjectStore ==
    /\ Turn("export_object_store")
    /\ run' = [run EXCEPT !.todo = Tail(@), !.usable = @ /\ Whole]
    /\ bundle' = (bundle \/ Whole)
    /\ UNCHANGED <<draft, now, faults, tables, manifests, release, snapshot, counters>>

Verify ==
    /\ Returns("verify", FALSE)
    /\ \E early \in BOOLEAN : verdict' = Verified(meas, matched, verdict, now, early)
    /\ UNCHANGED <<draft, now, faults, meas, matched, collected, model, published>>

\* Without an origin there is a warning, with an old one an error.
PredictNothing ==
    /\ Returns("predict", Origin(meas, matched) # Never)
    /\ \E sharp \in BOOLEAN : ~CanPredict(meas, matched, now, sharp)
    /\ UNCHANGED <<draft, now, faults, tables, published>>

Drafted(o, stage, F, version) ==
    draft' = [draft EXCEPT ![o] = [stage |-> stage, set |-> F, version |-> version]]

\* The origin, the active model and the creation time are read once.
PredictBegins ==
    /\ \E o \in Owners :
        /\ IF o = "run" THEN Turn("predict") /\ UNCHANGED tasks
           ELSE Alone("predict") /\ tasks' = tasks + 1
        /\ Drafted(o, "predict", Forecasted(meas, matched, model, now), model)
    /\ \E sharp \in BOOLEAN : CanPredict(meas, matched, now, sharp)
    /\ UNCHANGED <<now, faults, tables, published, run, runs>>

\* The rows are compared with the creation time only, and inserted and committed when
\* all are computed, whatever the hour is by then.
PredictCommits ==
    /\ ~Working
    /\ \E o \in Owners :
        /\ draft[o].stage = "predict"
        /\ verdict' = Persisted(verdict, draft[o].set)
        /\ draft' = Dropped(o)
        /\ IF o = "run" THEN At("predict") /\ run' = [run EXCEPT !.todo = Tail(@)]
           ELSE UNCHANGED run
    /\ UNCHANGED <<now, faults, meas, matched, collected, model, published, counters>>

WithManifest(S, status) ==
    [T \in DOMAIN manifests \cup {S} |-> IF T = S THEN status ELSE manifests[T]]

\* The set is named by its surfaces; the manifest is put before the pointer.
PutRelease(F, version) ==
    \E S \in (SUBSET Surfaces(F)) \ {{}} :
        LET status == Status(version, Surfaces(F) \ S)
        IN  /\ ManifestFits(S, status)
            /\ Fails(status.failed)
            /\ manifests' = WithManifest(S, status)
            /\ release' = [set |-> S, status |-> status]

\* The upload fails after the manifest, or the manifest differs from the one there is.
CutRelease(F, version) ==
    /\ \E S \in (SUBSET Surfaces(F)) \ {{}} :
        LET status == Status(version, Surfaces(F) \ S)
        IN  IF ManifestFits(S, status)
            THEN Fault /\ manifests' = WithManifest(S, status)
            ELSE Fails(status.failed) /\ UNCHANGED manifests
    /\ UNCHANGED release

BuildSpatialSurfaces ==
    /\ Returns("build_spatial_surfaces", FALSE)
    /\ PutRelease(forecasts, model)
    /\ UNCHANGED <<draft, now, tables, bundle, snapshot>>

\* Without a forecast there is a warning, without a single surface an error.
BuildNoSurface ==
    /\ Returns("build_spatial_surfaces", forecasts # {})
    /\ Fails(forecasts)
    /\ UNCHANGED <<draft, now, tables, published>>

SurfacesFail ==
    /\ Raises("build_spatial_surfaces")
    /\ CutRelease(forecasts, model)
    /\ UNCHANGED <<draft, now, tables, bundle, snapshot>>

PublishDocumentation ==
    /\ Turn("publish_documentation")
    /\ run' = [run EXCEPT !.todo = Tail(@)]
    /\ UNCHANGED <<draft, now, faults, tables, published, counters>>

SnapshotOf(F) ==
    IF F # {} \/ \E h \in Hours : meas["air"][h] \in {"good", "bad", "refuted"}
    THEN F ELSE snapshot

BuildSnapshot ==
    /\ Returns("build_snapshot", FALSE)
    /\ snapshot' = SnapshotOf(forecasts)
    /\ UNCHANGED <<draft, now, faults, tables, bundle, manifests, release>>

\* First training needs both collections and a whole bundle of this run.
FinishRun ==
    /\ Turn("finish")
    /\ run' = [Ended EXCEPT
          !.status = IF run.errors THEN "partial_success" ELSE "success",
          !.todo = IF run.kind = "hourly_pipeline" \/ run.usable THEN Tail(run.todo) ELSE @]
    /\ UNCHANGED <<draft, now, faults, tables, published, counters>>

-----------------------------------------------------------------------------
(* Transactions that hold several stages.                                  *)

Trained == {model, model + 1} \cap 1..MaxModel

\* Training and prediction: nothing is committed yet.
WorkBegins(o) ==
    /\ draft[o] = NoDraft /\ ~Working
    /\ \E version \in Trained, sharp \in BOOLEAN :
        Drafted(o, "surfaces", Predicted(meas, matched, version, now, sharp), version)

After(s) == run.status \in {"success", "partial_success"} /\ run.todo # <<>> /\ Head(run.todo) = s

\* The first transaction of first-run; documentation and snapshot come after it.
FirstRunModels ==
    /\ After("models")
    /\ WorkBegins("run")
    /\ UNCHANGED <<now, faults, tables, published, run, counters>>

Upkeep == ~Busy /\ tasks < MaxTasks /\ tasks' = tasks + 1

\* Weekly and monthly maintenance: one transaction, documentation and snapshot included.
Maintenance ==
    /\ Upkeep
    /\ WorkBegins("task")
    /\ bundle' = (bundle \/ Whole)
    /\ UNCHANGED <<now, faults, tables, manifests, release, snapshot, run, runs>>

Moved(o, stage) == draft' = [draft EXCEPT ![o].stage = stage]

\* What the transaction of o will have left in the table.
Uncommitted(o) == forecasts \cup draft[o].set

WorkSurfaces ==
    /\ \E o \in Owners :
        /\ draft[o].stage = "surfaces"
        /\ \/ PutRelease(Uncommitted(o), draft[o].version)
           \/ Fails(Uncommitted(o)) /\ UNCHANGED <<manifests, release>>
        /\ Moved(o, IF o = "task" THEN "snapshot" ELSE "commit")
    /\ UNCHANGED <<now, tables, bundle, snapshot, run, counters>>

\* An upload that fails raises, and the tables are as before training.
WorkSurfacesFail ==
    /\ \E o \in Owners :
        /\ draft[o].stage = "surfaces"
        /\ CutRelease(Uncommitted(o), draft[o].version)
        /\ draft' = Dropped(o)
        /\ run' = IF o = "run" THEN Ended ELSE run
    /\ UNCHANGED <<now, tables, bundle, snapshot, counters>>

\* build_snapshot_stage and, at once, the upload by retry_publications.
WorkSnapshot ==
    /\ draft["task"].stage = "snapshot"
    /\ snapshot' = SnapshotOf(Uncommitted("task"))
    /\ Moved("task", "commit")
    /\ UNCHANGED <<now, faults, tables, bundle, manifests, release, run, counters>>

WorkCommits ==
    /\ \E o \in Owners :
        /\ draft[o].stage = "commit"
        /\ verdict' = Persisted(verdict, draft[o].set)
        /\ model' = draft[o].version
        /\ draft' = Dropped(o)
        /\ IF o = "run" THEN After("models") /\ run' = [run EXCEPT !.todo = Tail(@)]
           ELSE UNCHANGED run
    /\ UNCHANGED <<now, faults, meas, matched, collected, published, counters>>

FirstRunSnapshot ==
    /\ After("snapshot")
    /\ snapshot' = SnapshotOf(forecasts)
    /\ run' = Ended
    /\ UNCHANGED <<now, faults, tables, bundle, manifests, release, draft, counters>>

\* Both backfills may fail and are passed over.
DailyMaintenance ==
    /\ Upkeep /\ draft["task"] = NoDraft
    /\ \E air \in ArchiveOffers("air"), weather \in ArchiveOffers("weather"), early \in BOOLEAN :
        LET m == Validated(Inserted(Inserted(meas, "air", air), "weather", weather))
        IN  meas' = m /\ verdict' = Verified(m, matched, verdict, now, early)
    /\ UNCHANGED <<now, faults, matched, collected, model, published, draft, run, runs>>

Step ==
    \/ StartHourly \/ StartFirstRun \/ Lose \/ Crash \/ TaskLost
    \/ CollectGios \/ CollectImgw \/ BackfillImgwArchive \/ Validate \/ MatchStations
    \/ ExportObjectStore \/ Verify \/ PredictNothing \/ PredictBegins \/ PredictCommits
    \/ BuildSpatialSurfaces \/ BuildNoSurface \/ SurfacesFail
    \/ PublishDocumentation \/ BuildSnapshot \/ FinishRun
    \/ FirstRunModels \/ Maintenance \/ WorkSurfaces \/ WorkSurfacesFail
    \/ WorkSnapshot \/ WorkCommits \/ FirstRunSnapshot \/ DailyMaintenance

Next == Tick \/ Step

Spec == Init /\ [][Next]_vars

-----------------------------------------------------------------------------
(* Properties.                                                             *)

\* The tables hold what they should, and every target lies behind the first hour.
TypeOK ==
    /\ now \in Hours
    /\ meas \in [Params -> [Hours -> Values]]
    /\ matched \in BOOLEAN /\ bundle \in BOOLEAN
    /\ collected \in [Params -> Hours \cup {Never}]
    /\ forecasts \subseteq Forecast
    /\ \A f \in forecasts : verdict[f] \in Hours \cup {Unlooked, Awaiting}
    /\ model \in 1..MaxModel
    /\ release.set \subseteq Forecast /\ snapshot \subseteq Forecast
    /\ draft \in [Owners -> Drafts]
    /\ run \in Runs
    /\ runs \in 0..MaxRuns /\ tasks \in 0..MaxTasks /\ faults \in 0..MaxFaults

\* Forecasts that are in the table or wait for their commit.
Created == forecasts \cup UNION {draft[o].set : o \in Owners}

\* No forecast is created (predictor.py:391, 522) once its target hour has begun or a
\* measurement of that hour is there, and nothing is committed that was not created so.
\* Its hour may have begun when it is committed: SavedBeforeKnown.
NoHindsight ==
    [][\A f \in Created' \ Created :
        f.target > now /\ (f.target \in Hours => meas[f.param][f.target] = "absent")]_vars

\* "Each forecast must be saved before the result is known" (ORIGINAL_SPECIFICATION_PL.txt:593):
\* it is in the table before its target hour has begun.
SavedBeforeKnown ==
    [][\A f \in forecasts' \ forecasts :
        f.target > now /\ (f.target \in Hours => meas[f.param][f.target] = "absent")]_vars

\* What the pointer says of its release is what the manifest under that name says,
\* whatever failed between the two and whoever built the same surfaces again.
PointerMatchesManifest ==
    release # NoRelease =>
        release.set \in DOMAIN manifests /\ manifests[release.set] = release.status

\* Verification never revises a result: an error once computed stays.
VerdictIsFinal ==
    [][\A f \in forecasts : verdict[f] \in Hours =>
        f \in forecasts' /\ verdict'[f] = verdict[f]]_vars

SameSurface(f, g) == f.param = g.param /\ f.lead = g.lead

\* A run of the whole pipeline that ends with success leaves a release and a
\* snapshot made of forecasts that are in the table, whatever was rolled back before.
\* Of the forecasts there were when it began, each is in the release, was replaced
\* there by a later one, or is named in the manifest among the surfaces that could not
\* be built; and they could not all fail.
GreenRunServesFresh ==
    [][run.kind = "hourly_pipeline" /\ run'.status = "success" /\ run.status = "running" =>
        /\ release.set \subseteq forecasts /\ snapshot \subseteq forecasts
        /\ run.known # {} => release.set # {}
        /\ \A g \in run.known :
             /\ \E f \in release.set \cup release.status.failed : SameSurface(f, g) /\ Later(f, g)
             /\ \A f \in release.set : SameSurface(f, g) => Later(f, g)]_vars

\* Section 13 of the specification: once the measurement is there, verification
\* fills in the error of a forecast that is due.
MeasuredIsVerified ==
    [][Verify => \A f \in forecasts' :
          f.target <= now /\ Actual(meas, matched, f) # {} => verdict'[f] \in Hours]_vars

\* The invariants of the pipeline in one: its types and a pointer true to its manifest.
Safe == TypeOK /\ PointerMatchesManifest
=================================================================================
