---------------------------- MODULE HourlyTraining ----------------------------
(***************************************************************************)
(* One run of train_hourly_models (smog_ai/hourly/trainer.py): the frames   *)
(* that are built from the measurements (smog_ai/features/builder.py,       *)
(* smog_ai/hourly/features.py) and bounded by the policy of the profile     *)
(* (smog_ai/hourly/training_policy.py), the out-of-fold weather that the    *)
(* air targets are given, the candidates under a budget of time, the choice *)
(* among them and the verdict that activates the choice.                    *)
(*                                                                         *)
(* Hours are clock hours and a measurement is the hour it was made.  The    *)
(* fits and their errors are choices: a candidate fails, or has an error    *)
(* from Scores, or no finite error at all.  Time is a flag that rises when  *)
(* the wall-clock budget of the run is used up.  What becomes of the        *)
(* registered rows and objects is HourlyModels.                             *)
(*                                                                         *)
(* Names that a component beside it has too carry Training or Measured: one *)
(* module of proofs extends this one, ProcessLease and Pipeline.            *)
(***************************************************************************)
EXTENDS Naturals, Sequences, FiniteSets, FiniteSetsExt, Functions

CONSTANTS
    LastMeasured,  \* bound: hours 0 .. LastMeasured have measurements
    AirStations, WeatherStations,   \* the local ids of the stations, numbers
    Match,         \* air station -> the weather station it is matched with
    Champions,     \* the sets of targets that may have an active model before
    Measured,      \* the sets of measurements a run may start from
    Order,         \* the targets as they are trained: weather, then air
    WeatherTargets,
    Algorithms,    \* target -> sequence of providers
    Horizons,      \* model horizons in hours
    Tolerance,     \* hours between an air measurement and the weather joined to it
    MaximumRows, KeepRecent,        \* the policy: cap, and hours always kept
    MinimumRows, MinimumTimes,      \* a target with less data is skipped
    Folds, FoldRows,                \* cross-fit: folds, and rows a fold needs
    HoldoutParts,  \* one origin time in so many is held out for validation
    Scores,        \* errors a fit may have on the held-out rows
    MinGain        \* by how much a choice must beat persistence and incumbent

Targets == Range(Order)
Air == Targets \ WeatherTargets
Over == Len(Order) + 1                   \* no target of Order is left
MeasuredHours == 0..LastMeasured
None == "none"
Infinite == Max(Scores) + MinGain + 1   \* no finite error (mae is None)
NoScore == 0                             \* no error at all
NoHour == LastMeasured + 1               \* no measurement

(* A configuration names each target once, and each provider of a target     *)
(* once: the plan of the candidates is kept by provider.                     *)
ASSUME TrainingAssumption ==
    /\ LastMeasured \in Nat /\ AirStations \subseteq Nat /\ WeatherStations \subseteq Nat
    /\ IsFiniteSet(AirStations) /\ IsFiniteSet(WeatherStations)
    /\ Match \in [AirStations -> WeatherStations]
    /\ \A m \in Measured : /\ m.air \in [AirStations -> SUBSET MeasuredHours]
                           /\ m.weather \in [WeatherStations -> SUBSET MeasuredHours]
                           /\ m.missing \subseteq Targets
    /\ Horizons \subseteq Nat \ {0} /\ IsFiniteSet(Horizons)
    /\ Scores \subseteq Nat \ {0} /\ IsFiniteSet(Scores) /\ Scores # {}
    /\ Order \in Seq(Targets) /\ Order # <<>> /\ IsInjective(Order)
    /\ WeatherTargets \subseteq Targets
    /\ \A t \in Targets : /\ Algorithms[t] \in Seq(Range(Algorithms[t]))
                          /\ Algorithms[t] # <<>> /\ IsInjective(Algorithms[t])
    /\ Tolerance \in Nat /\ MaximumRows \in Nat /\ KeepRecent \in Nat
    /\ MinimumRows \in Nat /\ MinimumTimes \in Nat /\ MinimumTimes >= 2
    /\ Folds \in Nat /\ Folds >= 2 /\ FoldRows \in Nat \ {0}
    /\ HoldoutParts \in Nat /\ HoldoutParts >= 2 /\ MinGain \in Nat \ {0}

VARIABLES
    measured,    \* the measurements of the session the run reads, and the
                 \* targets whose dataset is missing in the object store
    policy,      \* activation_policy of the run
    phase,       \* load, targets, fit, judge, crossfit, end; done or aborted
    turn,        \* index in Order of the target in hand
    fold,        \* the next fold of the cross-fit: weather target and number
    frames,      \* target -> rows of its bounded frame
    predicted,   \* weather target -> row -> last origin its model was fitted on
    exhausted,   \* the time budget is used up
    candidates,  \* of the target in hand: the fitted ones, in order
    plan,        \* target -> provider -> status in the candidate plan
    status,      \* target -> status of its TrainingRun
    active,      \* target -> its active model
    comparison      \* what the last choice was compared with

data == <<measured, policy>>
weather == <<fold, predicted>>
trainingVars == <<data, phase, turn, weather, frames, exhausted, candidates, plan, status, active, comparison>>

Providers == UNION {Range(Algorithms[t]) : t \in Targets}
Row == [station : AirStations \cup WeatherStations, origin : MeasuredHours, horizon : Horizons]
Candidate == [provider : Providers, score : Scores \cup {Infinite}]
Planned == {"planned", "trained", "failed", "skipped", "selected"}
Statuses == {None, "running", "skipped_insufficient_data", "failed", "success",
             "success_quality_experimental", "success_candidate_approved",
             "success_budget_truncated"}
Final == Statuses \ {None, "running"}

(* An active model is one of before this run, a bootstrap model, or one that *)
(* this run trained.                                                         *)
Models == {None, "old", "bootstrap", "trained"}
Errors == Scores \cup {Infinite, NoScore}
Comparison == [score : Errors, persistence : Errors, incumbent : Errors]
NoComparison == [score |-> NoScore, persistence |-> NoScore, incumbent |-> NoScore]

TrainingTypeOK ==
    /\ measured \in Measured
    /\ policy \in {"quality_gated", "candidate_only"}
    /\ phase \in {"load", "targets", "fit", "judge", "crossfit", "end", "done", "aborted"}
    /\ turn \in 1..Len(Order) + 1
    /\ fold \in [index : 0..Over, number : 1..Folds]
    /\ frames \in [Targets -> SUBSET Row]
    /\ DOMAIN predicted = WeatherTargets
    /\ \A w \in WeatherTargets :
          DOMAIN predicted[w] \subseteq Row /\ Range(predicted[w]) \subseteq MeasuredHours
    /\ exhausted \in BOOLEAN
    /\ candidates \in Seq(Candidate)
    /\ plan \in [Targets -> [Providers -> Planned]]
    /\ status \in [Targets -> Statuses]
    /\ active \in [Targets -> Models]
    /\ comparison \in Comparison

-----------------------------------------------------------------------------
(* The rows of a frame: an origin and an exact clock hour after it.  An      *)
(* hourly series is resampled, so an hour without a measurement is a row     *)
(* without a value: no origin for air and temperature, but one for the       *)
(* precipitation, whose accumulations are sparse on purpose.  A row of a     *)
(* weather target carries the weather station's own id as its station.       *)

Between(hours) == IF hours = {} THEN {} ELSE Min(hours)..Max(hours)

Series(target) == IF target \in Air THEN measured.air ELSE measured.weather

Origins(target, hours) == IF target = "precipitation_mm" THEN Between(hours) ELSE hours

TargetHour(row) == row.origin + row.horizon

Rows(target) ==
    {r \in Row : /\ r.station \in DOMAIN Series(target)
                 /\ LET hours == Series(target)[r.station]
                    IN  r.origin \in Origins(target, hours) /\ TargetHour(r) \in hours}

TimesOf(rows) == {r.origin : r \in rows}

(* The bounded selection: rows of the recent hours and rare events are       *)
(* mandatory, the rest is drawn by a hash of the row.  What is rare depends  *)
(* on the values: any rows may be.                                           *)
Recent(rows) == {r \in rows : r.origin + KeepRecent >= Max(TimesOf(rows))}

UpToCap(mandatory, rows) ==
    IF Cardinality(mandatory) >= MaximumRows THEN kSubset(MaximumRows, mandatory)
    ELSE {mandatory \cup drawn :
             drawn \in kSubset(MaximumRows - Cardinality(mandatory), rows \ mandatory)}

BoundedSelect(rows) ==
    IF Cardinality(rows) <= MaximumRows THEN {rows}
    ELSE UNION {UpToCap(Recent(rows) \cup {r}, rows) : r \in rows}

(* The weather of an air row: the measurement of the matched station that is *)
(* nearest to the origin, within the tolerance, the earlier of two.          *)
Apart(a, b) == IF a < b THEN b - a ELSE a - b

NearestWeather(row) ==
    LET near == {m \in measured.weather[Match[row.station]] :
                    Apart(m, row.origin) <= Tolerance}
    IN  IF near = {} THEN NoHour
        ELSE Min({m \in near : \A n \in near :
                    Apart(m, row.origin) <= Apart(n, row.origin)})

(* The predicted weather of an air row: that of the cross-fit whose row has  *)
(* the same key, else the weather joined to the origin.                      *)
WeatherOf(target, row) ==
    IF row \in DOMAIN predicted[target]
    THEN [from |-> "fold", hour |-> predicted[target][row]]
    ELSE [from |-> "origin", hour |-> NearestWeather(row)]

-----------------------------------------------------------------------------
(* Chronological parts.  Position counts the origin times of a frame up to   *)
(* one; the holdout is the last part of them, a fold of the cross-fit learns *)
(* the first blocks and predicts the next one.                               *)

Position(time, rows) == Cardinality({u \in TimesOf(rows) : u <= time})

Boundary(rows) ==
    LET n == Cardinality(TimesOf(rows))
    IN  Max({1, Min({n - 1, (n * (HoldoutParts - 1)) \div HoldoutParts})})

TrainRows(rows) == {r \in rows : Position(r.origin, rows) <= Boundary(rows)}
HoldoutRows(rows) == {r \in rows : Position(r.origin, rows) > Boundary(rows)}

FoldsOf(rows) == Min({Folds, Max({2, Cardinality(TimesOf(rows)) \div 2})})
FoldEnd(rows, i) == (i * Cardinality(TimesOf(rows))) \div (FoldsOf(rows) + 1)

FoldTrain(rows, i) == {r \in rows : Position(r.origin, rows) <= FoldEnd(rows, i)}
FoldValid(rows, i) == FoldTrain(rows, i + 1) \ FoldTrain(rows, i)

(* The keys of the cross-fit are the rows of the temperature frame, or of    *)
(* the precipitation frame where there is no temperature.                    *)
Basis == LET t == IF "temperature_c" \in Targets THEN frames["temperature_c"] ELSE {}
         IN  IF t # {} THEN t
             ELSE IF "precipitation_mm" \in Targets THEN frames["precipitation_mm"] ELSE {}

-----------------------------------------------------------------------------
Target == Order[turn]
Methods == Algorithms[Target]
Number == Cardinality({i \in DOMAIN Methods : plan[Target][Methods[i]] \notin {"planned"}}) + 1

\* Mutant: the first candidate has no claim to be completed.
ShouldContinueInTime(completed) == ~exhausted

ShouldContinue(completed) == ~exhausted \/ completed = 0

TrainingInit ==
    /\ measured \in Measured
    /\ policy \in {"quality_gated", "candidate_only"}
    /\ phase = "load" /\ turn = 1
    /\ fold = [index |-> 0, number |-> 1]
    /\ frames = [t \in Targets |-> {}]
    /\ predicted = [w \in WeatherTargets |-> <<>>]
    /\ exhausted = FALSE
    /\ candidates = <<>>
    /\ plan = [t \in Targets |-> [p \in Providers |-> "planned"]]
    /\ status = [t \in Targets |-> None]
    /\ \E champions \in Champions :
          active = [t \in Targets |-> IF t \in champions THEN "old" ELSE None]
    /\ comparison = NoComparison

(* The budget of time runs out, at any moment of a run.                      *)
TimeRunsOut ==
    /\ phase \notin {"done", "aborted"} /\ ~exhausted
    /\ exhausted' = TRUE
    /\ UNCHANGED <<data, phase, turn, weather, frames, candidates, plan, status, active, comparison>>

(* All frames are loaded and bounded first.  A dataset that is not in the    *)
(* object store is an empty frame; any other failure ends the whole run.     *)
Load ==
    /\ phase = "load"
    /\ \/ /\ \E rows \in IF Target \in measured.missing THEN {{}} ELSE BoundedSelect(Rows(Target)) :
                frames' = [frames EXCEPT ![Target] = rows]
          /\ IF turn < Len(Order) THEN turn' = turn + 1 /\ UNCHANGED phase
                                  ELSE turn' = 1 /\ phase' = "targets"
       \/ phase' = "aborted" /\ UNCHANGED <<turn, frames>>
    /\ UNCHANGED <<data, weather, exhausted, candidates, plan, status, active, comparison>>

(* The first air target has the weather cross-fitted, one weather target     *)
(* after the other.                                                          *)
NextWeather(i) ==
    Min({j \in (i + 1)..Len(Order) :
            Order[j] \in WeatherTargets /\ frames[Order[j]] # {}} \cup {Over})

TurnTo(i) ==
    /\ fold' = [index |-> i, number |-> 1]
    /\ phase' = IF i = Over THEN "targets" ELSE "crossfit"

StartCrossFit ==
    /\ phase = "targets" /\ Target \in Air /\ fold.index = 0
    /\ TurnTo(NextWeather(0))
    /\ UNCHANGED <<data, turn, frames, predicted, exhausted, candidates, plan, status, active, comparison>>

(* One fold: fitted by the provider this run selected for the target, on the *)
(* blocks before the one it predicts.  A fold without enough rows is left    *)
(* out, and so are all that remain when the budget is used up; a fit that    *)
(* fails fails the run, because no handler surrounds the cross-fit.          *)
Weather == Order[fold.index]

FoldFits ==
    LET rows == frames[Weather]
    IN  /\ ShouldContinue(1)
        /\ Cardinality(FoldTrain(rows, fold.number)) >= FoldRows
        /\ FoldValid(rows, fold.number) # {}

\* Mutant: the fold learns from the block it predicts.
LearntThrough(rows, i) == Max(TimesOf(FoldTrain(rows, i + 1)))

Learnt(rows, i) == Max(TimesOf(FoldTrain(rows, i)))

FoldPrediction(rows, i, before) ==
    LET valid == FoldValid(rows, i) \cap Basis
    IN  [r \in valid \cup DOMAIN before |-> IF r \in valid THEN Learnt(rows, i) ELSE before[r]]

FitFold ==
    /\ phase = "crossfit"
    /\ predicted' = IF FoldFits
                    THEN [predicted EXCEPT ![Weather] =
                               FoldPrediction(frames[Weather], fold.number, @)]
                    ELSE predicted
    /\ IF ShouldContinue(1) /\ fold.number < FoldsOf(frames[Weather])
       THEN fold' = [fold EXCEPT !.number = @ + 1] /\ UNCHANGED phase
       ELSE TurnTo(NextWeather(fold.index))
    /\ UNCHANGED <<data, turn, frames, exhausted, candidates, plan, status, active, comparison>>

FoldFails ==
    /\ phase = "crossfit" /\ FoldFits
    /\ phase' = "aborted"
    /\ UNCHANGED <<data, turn, weather, frames, exhausted, candidates, plan, status, active, comparison>>

-----------------------------------------------------------------------------
(* A target is opened, or skipped for want of rows or origin times.          *)
Enough(rows) == Cardinality(rows) >= MinimumRows /\ Cardinality(TimesOf(rows)) >= MinimumTimes

\* Mutant: a failure leaves its TrainingRun open.
MoveOnAfterFailure(outcome) ==
    /\ status' = IF outcome = "failed" THEN status ELSE [status EXCEPT ![Target] = outcome]
    /\ candidates' = <<>>
    /\ turn' = turn + 1
    /\ phase' = IF turn = Len(Order) THEN "end" ELSE "targets"

MoveOn(outcome) ==
    /\ status' = [status EXCEPT ![Target] = outcome]
    /\ candidates' = <<>>
    /\ turn' = turn + 1
    /\ phase' = IF turn = Len(Order) THEN "end" ELSE "targets"

Open ==
    /\ phase = "targets"
    /\ Target \in Air => fold.index = Over
    /\ IF Enough(frames[Target])
       THEN /\ phase' = "fit"
            /\ status' = [status EXCEPT ![Target] = "running"]
            /\ UNCHANGED <<turn, candidates>>
       ELSE MoveOn("skipped_insufficient_data")
    /\ comparison' = NoComparison
    /\ UNCHANGED <<data, weather, frames, exhausted, plan, active>>

(* The next candidate is fitted on the rows before the holdout and scored on *)
(* it.  A failure is a warning.  When the budget is used up and a candidate  *)
(* is complete, the rest is skipped.                                         *)
Mark(set, value) == [plan EXCEPT ![Target] = [p \in Providers |-> IF p \in set THEN value ELSE @[p]]]

FitCandidate ==
    /\ phase = "fit" /\ Number <= Len(Methods) /\ ShouldContinue(Len(candidates))
    /\ LET p == Methods[Number]
       IN  \/ \E s \in Scores \cup {Infinite} :
                 /\ candidates' = Append(candidates, [provider |-> p, score |-> s])
                 /\ plan' = Mark({p}, "trained")
           \/ /\ plan' = Mark({p}, "failed")
              /\ UNCHANGED candidates
    /\ UNCHANGED <<data, phase, turn, weather, frames, exhausted, status, active, comparison>>

SkipRest ==
    /\ phase = "fit" /\ Number <= Len(Methods) /\ ~ShouldContinue(Len(candidates))
    /\ plan' = Mark({Methods[i] : i \in Number..Len(Methods)}, "skipped")
    /\ UNCHANGED <<data, phase, turn, weather, frames, exhausted, candidates, status, active, comparison>>

(* The choice: the least error, the first of equals; persistence in its      *)
(* place when it does not gain enough over it.  No candidate fails the       *)
(* target.                                                                   *)
Best == LET least == Min({candidates[i].score : i \in DOMAIN candidates})
        IN  candidates[Min({i \in DOMAIN candidates : candidates[i].score = least})]

PersistenceScore ==
    LET fitted == {i \in DOMAIN candidates : candidates[i].provider = "persistence"}
    IN  IF fitted = {} THEN NoScore ELSE candidates[CHOOSE i \in fitted : TRUE].score

Compared(score) == score \notin {NoScore, Infinite}
GainsTooLittle(mine, theirs) == mine + MinGain > theirs

\* Mutant: the least error, without the comparison with persistence.
ChoiceByError == Best

Choice ==
    IF /\ Compared(PersistenceScore) /\ Best.provider # "persistence"
       /\ GainsTooLittle(Best.score, PersistenceScore)
    THEN [provider |-> "persistence", score |-> PersistenceScore]
    ELSE Best

Choose ==
    /\ phase = "fit" /\ Number > Len(Methods)
    /\ IF candidates = <<>> THEN MoveOn("failed")
                            ELSE phase' = "judge" /\ UNCHANGED <<turn, candidates, status>>
    /\ UNCHANGED <<data, weather, frames, exhausted, plan, active, comparison>>

-----------------------------------------------------------------------------
(* The verdict: the choice is compared with the active model of its target   *)
(* on the same held-out rows.  A precipitation model must pass its gate,     *)
(* another one must not be persistence; both must gain enough over an active *)
(* model, and one that cannot be evaluated lets nothing through.             *)
BeatsIncumbent(score, incumbent) ==
    active[Target] # None => Compared(incumbent) /\ ~GainsTooLittle(score, incumbent)

Rejected == Target # "precipitation_mm" /\ Choice.score = Infinite

Approved(incumbent, gate) ==
    /\ Choice.score # Infinite
    /\ IF Target = "precipitation_mm" THEN gate ELSE Choice.provider # "persistence"
    /\ BeatsIncumbent(Choice.score, incumbent)

Outcome(approved) ==
    IF ~approved THEN "success_quality_experimental"
    ELSE IF policy = "candidate_only" THEN "success_candidate_approved"
    ELSE IF exhausted THEN "success_budget_truncated" ELSE "success"

Register(incumbent, gate) ==
    /\ MoveOn(Outcome(Approved(incumbent, gate)))
    /\ comparison' = [score |-> Choice.score, persistence |-> PersistenceScore, incumbent |-> incumbent]
    /\ plan' = Mark({Choice.provider}, "selected")
    /\ active' = IF Approved(incumbent, gate) /\ policy = "quality_gated"
                 THEN [active EXCEPT ![Target] = "trained"]
                 ELSE active

Judge ==
    /\ phase = "judge" /\ ~Rejected
    /\ \E incumbent \in IF active[Target] = None THEN {NoScore} ELSE Scores \cup {NoScore},
          gate \in IF Target = "precipitation_mm" THEN BOOLEAN ELSE {TRUE} :
          Register(incumbent, gate)
    /\ UNCHANGED <<data, weather, frames, exhausted>>

(* The final fit, the rejection of an error that is not finite, or the       *)
(* registration fails: the target failed and the next one is trained.        *)
Fail ==
    /\ phase = "judge"
    /\ MoveOn("failed")
    /\ UNCHANGED <<data, weather, frames, exhausted, plan, active, comparison>>

(* At the end every target without a model gets a bootstrap model.           *)
Finish ==
    /\ phase = "end"
    /\ phase' = "done"
    /\ active' = IF policy = "candidate_only" THEN active
                 ELSE [t \in Targets |-> IF active[t] = None THEN "bootstrap" ELSE active[t]]
    /\ comparison' = NoComparison
    /\ UNCHANGED <<data, turn, weather, frames, exhausted, candidates, plan, status>>

TrainingNext ==
        \/ TimeRunsOut \/ Load \/ StartCrossFit \/ FitFold \/ FoldFails \/ Open
        \/ FitCandidate \/ SkipRest \/ Choose \/ Judge \/ Fail \/ Finish

TrainingSpec == TrainingInit /\ [][TrainingNext]_trainingVars /\ WF_trainingVars(TrainingNext)

-----------------------------------------------------------------------------
(* The cross-fit goes forward in time: whatever frames the caps, the gaps and *)
(* the short series leave, every weather that is predicted for a row comes    *)
(* from a model fitted on origins before the row's own (trainer.py:1352).     *)
PredictedFromPast ==
    \A w \in WeatherTargets : \A r \in DOMAIN predicted[w] : predicted[w][r] < r.origin

(* Candidates and incumbent are scored on origin times none of which is      *)
(* among those the candidates are fitted on, and both parts have rows,       *)
(* whatever rows the policy left in the frame (trainer.py:660).  The hours   *)
(* they are to predict may lie beyond the boundary: the code leaves no gap.  *)
HoldoutUnseen ==
    \A t \in Targets : phase = "targets" /\ turn = 1 /\ Enough(frames[t]) =>
        /\ TrainRows(frames[t]) # {} /\ HoldoutRows(frames[t]) # {}
        /\ \A r \in TrainRows(frames[t]), v \in HoldoutRows(frames[t]) : r.origin < v.origin

(* However early the time runs out and whichever fits fail, a target with    *)
(* enough data is not given up while a method is untried and none is         *)
(* complete (training_policy.py:540, trainer.py:1790).                       *)
BudgetNeverStarves ==
    \A t \in Targets : status[t] \in Final \ {"skipped_insufficient_data"} =>
        \/ \E p \in Providers : plan[t][p] \in {"trained", "selected"}
        \/ \A p \in Range(Algorithms[t]) : plan[t][p] = "failed"

(* The active model of a target is only replaced by a choice of this run     *)
(* that was compared with it and gains enough over it, and over persistence  *)
(* where that was scored; a bootstrap model only takes an empty place        *)
(* (trainer.py:2011, trainer.py:438, trainer.py:1244).                       *)
ActivatedImproves ==
    [][\A t \in Targets : active'[t] # active[t] =>
          /\ active'[t] = "bootstrap" => active[t] = None
          /\ active'[t] = "trained" =>
                /\ active[t] # None => /\ Compared(comparison'.incumbent)
                                       /\ ~GainsTooLittle(comparison'.score, comparison'.incumbent)
                /\ t # "precipitation_mm" /\ Compared(comparison'.persistence)
                      => ~GainsTooLittle(comparison'.score, comparison'.persistence)]_trainingVars

(* A failed target does not keep the others from being trained: a run ends   *)
(* with a verdict on every target, unless a frame cannot be loaded or a fold *)
(* of the cross-fit fails (trainer.py:2242, trainer.py:1659).                *)
EveryTargetDecided ==
    <>(phase = "aborted" \/ (phase = "done" /\ \A t \in Targets : status[t] \in Final))

(* The target whose first candidate is about to be fitted, if any.           *)
Trains == IF phase = "fit" /\ Number = 1 THEN Target ELSE None

(* What the documentation says and the code does not do (no run checks it): *)
(* the weather an air model is trained with knows nothing later than the     *)
(* origin of its row (docs/platform/TECHNICAL_PROCESSING_PL.md:203,           *)
(* docs/platform/MATHEMATICAL_MODEL_PL.md:37).  The measurement that fills    *)
(* the place of a prediction may be up to Tolerance later, and a fold has     *)
(* learnt what was measured up to a horizon after its last origin, with no    *)
(* gap before the rows it predicts.                                          *)
LatestLearnt(w, before) ==
    Max({TargetHour(r) : r \in {q \in frames[w] : q.origin <= before}})

NoFutureWeather ==
    Trains \in Air =>
        \A r \in frames[Trains], w \in WeatherTargets :
            LET x == WeatherOf(w, r)
            IN  IF x.from = "fold" THEN LatestLearnt(w, x.hour) <= r.origin
                ELSE x.hour = NoHour \/ x.hour <= r.origin

(* A predicted weather is that of the station the air station is matched     *)
(* with, which the code does not see to either (hourly/features.py:199).     *)
WeatherOfOwnStation ==
    Trains \in Air =>
        \A r \in frames[Trains], w \in WeatherTargets :
            r \in DOMAIN predicted[w] => Match[r.station] = r.station

(* The invariants of a training in one: its types, a cross-fit that goes forward in time *)
(* and a holdout that no candidate was fitted on.                                        *)
TrainingSafe == TrainingTypeOK /\ PredictedFromPast /\ HoldoutUnseen
===============================================================================
