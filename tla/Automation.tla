------------------------------ MODULE Automation ------------------------------
(***************************************************************************)
(* scripts/smog_ai_automation.py: the controller that runs the stages of a *)
(* profile as child processes, its checkpoint run.json and its resume.     *)
(*                                                                         *)
(* One automation run is modelled: the first controller starts it, the     *)
(* others are started with --resume, and any of them may end abruptly.     *)
(* The platform is Windows, where a dead owner of automation.lock is seen  *)
(* and taskkill ends a child.  Timeouts may fire at any moment, and an     *)
(* elapsed grace period too.                                               *)
(***************************************************************************)
EXTENDS Integers, FiniteSets

CONSTANTS
    Runners,     \* controller processes, each is started once
    First,       \* the one that starts the run
    Stages,      \* 1..n, the stages of the profile in order
    Hinted,      \* stages with a progress_hint
    Reports,     \* stages whose command writes logs/progress files
    Matched,     \* stages whose progress files match their own hint
    Leased,      \* stages whose command takes the process lease
    Partial,     \* stages with 4 among accepted_exit_codes
    NeedMlflow,  \* snapshot-train-hourly
    Slots,       \* places for child processes, a set of numbers
    NoChild,
    MaxForeign,  \* bound on commands another scheduled task or a person starts
    Wrecks       \* preflight may fail

ASSUME AutomationAssumption ==
    /\ First \in Runners
    /\ Stages = 1..Cardinality(Stages)
    /\ IsFiniteSet(Stages) /\ Stages # {}
    /\ Matched \subseteq Hinted \cap Reports
    /\ Hinted \cup Reports \cup Leased \cup Partial \cup NeedMlflow \subseteq Stages
    /\ Slots \subseteq Nat /\ NoChild \notin Slots
    /\ MaxForeign \in Nat
    /\ Wrecks \in BOOLEAN

NoRunner == "none"

NoStage == 0

Completed == {"success", "forced"}

VARIABLES
    run,     \* run.json
    lock,    \* owner written in automation.lock
    ctl,     \* ctl[r]: a controller
    child,   \* child[c]: a process running a command of the CLI
    lease,   \* the child that holds the process lease
    recent,  \* the stage whose last progress was written less than 2 seconds ago
    done,    \* done[s]: when the last child that did the work of s was started
    files,   \* files[s]: the same for its progress files with status success
    now,     \* moments that started_at, with its slack of five seconds, tells apart
    foreign

vars == <<run, lock, ctl, child, lease, recent, done, files, now, foreign>>

\* Pending, running and failed stages are treated alike by a resume: they are open.
Pending == [s \in Stages |-> "open"]

Doc(status, since, epoch, stages) ==
    [status |-> status, since |-> since, epoch |-> epoch, stages |-> stages]

NoDoc == Doc("none", 0, FALSE, Pending)

Off == [pc |-> "off", resume |-> FALSE, mem |-> NoDoc, i |-> 1, child |-> NoChild,
        back |-> "stage", ok |-> FALSE, seen |-> FALSE]

Vacant == [pc |-> "gone", job |-> 1, began |-> 0, note |-> "none", outcome |-> "none"]

Init ==
    /\ run = NoDoc
    /\ lock = NoRunner
    /\ ctl = [r \in Runners |-> Off]
    /\ child = [c \in Slots |-> Vacant]
    /\ lease = NoChild
    /\ recent = NoStage
    /\ done = [s \in Stages |-> 0]
    /\ files = done
    /\ now = 1
    /\ foreign = 0

Alive(c) == child[c].pc # "gone"

InControl == {"preflight", "stage", "launch", "adopted", "again", "poll"}

Over == {"ended", "refused", "dead"}

-----------------------------------------------------------------------------
(* Child processes: commands of smog_ai/cli.py.                            *)

Free == {c \in Slots : ~Alive(c) /\ \A r \in Runners : ctl[r].child # c}

\* Process ids mean nothing: the least free place is taken.
Spawn(c, s) ==
    /\ c \in Free
    /\ \A d \in Free : c <= d
    /\ child' = [child EXCEPT ![c] =
          [pc |-> IF s \in Leased THEN "started" ELSE "busy", job |-> s, began |-> now,
           note |-> IF s \in Reports THEN "running" ELSE "none", outcome |-> "none"]]

\* Only the progress files and the lease of such a command reach a controller.
ForeignStart ==
    /\ foreign < MaxForeign
    /\ \E c \in Slots, s \in Reports \cup Leased : Spawn(c, s)
    /\ foreign' = foreign + 1
    /\ UNCHANGED <<run, lock, ctl, lease, recent, done, files, now>>

ChildEnter(c) ==
    /\ child[c].pc = "started"
    /\ lease = NoChild
    /\ child' = [child EXCEPT ![c].pc = "busy"]
    /\ lease' = c
    /\ UNCHANGED <<run, lock, ctl, recent, done, files, now, foreign>>

\* The status a reporter is finished with.
NoteOf(outcome) ==
    CASE outcome = "success" -> "success"
      [] outcome \in {"partial", "refused"} -> "partial_success"
      [] outcome = "locked" -> "skipped_locked"
      [] OTHER -> "failed"

\* Exit code 0, 1, 4 with a result the controller accepts, 4 with one it refuses.
Outcomes(s) ==
    {"success", "failed"} \cup (IF s \in Partial THEN {"partial"} ELSE {})
                          \cup (IF s \in NeedMlflow THEN {} ELSE {"refused"})

TerminalNotes == {"success", "failed", "cancelled"}

\* Without a hint the newest progress file of any command is a stage's own.
MatchesHint(i, s) == i \notin Hinted \/ (s = i /\ s \in Matched)

\* terminal_seen_at of the controllers that poll.
ShowEnd(s) ==
    [r \in Runners |->
        IF ctl[r].pc = "poll" /\ MatchesHint(ctl[r].i, s)
        THEN [ctl[r] EXCEPT !.seen = TRUE] ELSE ctl[r]]

Later(f, s, moment) == IF f[s] < moment THEN [f EXCEPT ![s] = moment] ELSE f

WritesLast(c, outcome) ==
    LET s == child[c].job
        note == NoteOf(outcome)
    IN  /\ child' = [child EXCEPT ![c].pc = "idle", ![c].outcome = outcome,
                                  ![c].note = IF s \in Reports THEN note ELSE @]
        /\ IF s \in Reports /\ note \in TerminalNotes
           THEN ctl' = ShowEnd(s) /\ recent' = s
           ELSE UNCHANGED <<ctl, recent>>

ChildLocked(c) ==
    /\ child[c].pc = "started"
    /\ lease # NoChild
    /\ WritesLast(c, "locked")
    /\ UNCHANGED <<run, lock, lease, done, files, now, foreign>>

ChildFinish(c) ==
    /\ child[c].pc = "busy"
    /\ \E outcome \in Outcomes(child[c].job) :
          /\ WritesLast(c, outcome)
          /\ done' = IF outcome \in {"success", "partial"}
                     THEN Later(done, child[c].job, child[c].began) ELSE done
          /\ files' = IF outcome = "success" /\ child[c].job \in Reports
                      THEN Later(files, child[c].job, child[c].began) ELSE files
    /\ lease' = IF lease = c THEN NoChild ELSE lease
    /\ UNCHANGED <<run, lock, now, foreign>>

\* The process leaves; one whose threads linger may not for a long time.
ChildExit(c) ==
    /\ child[c].pc = "idle"
    /\ child' = [child EXCEPT ![c] = IF \E r \in Runners : ctl[r].child = c
                                  THEN [@ EXCEPT !.pc = "gone"] ELSE Vacant]
    /\ UNCHANGED <<run, lock, ctl, lease, recent, done, files, now, foreign>>

\* A child ends, or has ended, while r follows it; its exit is read once.
Forget(r, c) ==
    [child EXCEPT ![c] = IF \E q \in Runners \ {r} : ctl[q].child = c
                         THEN [@ EXCEPT !.pc = "gone"] ELSE Vacant]

WithoutLease(c) == IF lease = c THEN NoChild ELSE lease

TwoSeconds ==
    /\ recent # NoStage
    /\ recent' = NoStage
    /\ UNCHANGED <<run, lock, ctl, child, lease, done, files, now, foreign>>

-----------------------------------------------------------------------------
(* Controllers: start, lock, preflight.                                    *)

\* A checkpoint is looked for, and read, before the lock is asked for.
StartFresh(r) ==
    /\ r = First
    /\ ctl[r].pc = "off"
    /\ ctl' = [ctl EXCEPT ![r].pc = "check"]
    /\ UNCHANGED <<run, lock, child, lease, recent, done, files, now, foreign>>

\* A run that find_latest_resumable_run does not find is resumed by its --run-id.
StartResume(r) ==
    /\ ctl[r].pc = "off"
    /\ run.status # "none"
    /\ ctl' = [ctl EXCEPT ![r].pc = "check", ![r].resume = TRUE, ![r].mem = run]
    /\ UNCHANGED <<run, lock, child, lease, recent, done, files, now, foreign>>

LockCheck(r) ==
    /\ ctl[r].pc = "check"
    /\ ctl' = [ctl EXCEPT ![r].pc = IF lock # NoRunner /\ ctl[lock].pc \notin Over
                                    THEN "refused" ELSE "claim"]
    /\ UNCHANGED <<run, lock, child, lease, recent, done, files, now, foreign>>

LockWrite(r) ==
    /\ ctl[r].pc = "claim"
    /\ lock' = r
    /\ ctl' = [ctl EXCEPT ![r].pc = "preflight"]
    /\ UNCHANGED <<run, child, lease, recent, done, files, now, foreign>>

\* save() after every change of the state kept in memory.
Save(r, c) ==
    /\ ctl' = [ctl EXCEPT ![r] = c]
    /\ run' = c.mem

EndWith(r, mem) ==
    /\ ctl' = [ctl EXCEPT ![r] = [Off EXCEPT !.pc = "ended"]]
    /\ run' = mem

\* The exception handler and the finally of run(): the lock goes, whoever owns it.
Fail(r, mem) ==
    /\ EndWith(r, [mem EXCEPT !.status = "failed"])
    /\ lock' = NoRunner

\* The moment a run begins at: related_child_progress may not tell it from the present one.
Beginnings == {now, now + 1}

\* reconcile_resume_stages keeps what is complete.
FirstState(r, since) ==
    IF ctl[r].resume
    THEN [ctl[r].mem EXCEPT !.status = "running"]
    ELSE Doc("running", since, TRUE, Pending)

PreflightDone(r) ==
    /\ ctl[r].pc = "preflight"
    /\ \E since \in Beginnings :
        /\ Save(r, [ctl[r] EXCEPT !.pc = "stage", !.mem = FirstState(r, since)])
        /\ now' = IF ctl[r].resume THEN now ELSE since
    /\ UNCHANGED <<lock, child, lease, recent, done, files, foreign>>

\* The state is empty yet: a document without stages and started_epoch is saved.
PreflightFails(r) ==
    /\ Wrecks
    /\ ctl[r].pc = "preflight"
    /\ \E since \in Beginnings : Fail(r, Doc("failed", since, FALSE, Pending)) /\ now' = since
    /\ UNCHANGED <<child, lease, recent, done, files, foreign>>

-----------------------------------------------------------------------------
(* run_stage                                                               *)

Stage(r) == ctl[r].i

At(r, pc) == ctl[r].pc = pc /\ Stage(r) \in Stages

\* The stage is recorded as complete and the loop goes on.
Complete(r, status) ==
    Save(r, [ctl[r] EXCEPT !.pc = "stage", !.i = @ + 1, !.child = NoChild, !.seen = FALSE,
                           !.ok = FALSE, !.back = "stage",
                           !.mem.stages[Stage(r)] = status])

Skip(r) ==
    /\ At(r, "stage")
    /\ ctl[r].resume
    /\ ctl[r].mem.stages[Stage(r)] \in Completed
    /\ ctl' = [ctl EXCEPT ![r].i = @ + 1]
    /\ UNCHANGED <<run, lock, child, lease, recent, done, files, now, foreign>>

\* related_child_progress: files of this stage that were begun since the run began.
Related(r) ==
    {c \in Slots : child[c].job = Stage(r) /\ Stage(r) \in Matched
                     /\ child[c].began >= ctl[r].mem.since}

ActiveChildren(r) ==
    {c \in Related(r) : Alive(c) /\ child[c].note \notin TerminalNotes \cup {"skipped_locked"}}

HasSuccess(r) == Stage(r) \in Matched /\ files[Stage(r)] > 0 /\ files[Stage(r)] >= ctl[r].mem.since

\* adopt_or_recover_child is asked on a resume, and after exit code 5.
AsksForChild(r) ==
    \/ At(r, "stage") /\ ctl[r].resume /\ ctl[r].mem.stages[Stage(r)] \notin Completed
    \/ At(r, "again")

Adopt(r) ==
    /\ AsksForChild(r)
    /\ \E c \in ActiveChildren(r) :
          Save(r, [ctl[r] EXCEPT !.pc = "adopted", !.back = ctl[r].pc, !.child = c,
                                 !.ok = HasSuccess(r)])
    /\ UNCHANGED <<lock, child, lease, recent, done, files, now, foreign>>

Recover(r) ==
    /\ AsksForChild(r)
    /\ ActiveChildren(r) = {}
    /\ HasSuccess(r)
    /\ Complete(r, "success")
    /\ UNCHANGED <<lock, child, lease, recent, done, files, now, foreign>>

\* Exit code 5 stands when there is no one to adopt.
StillLocked(r) ==
    /\ At(r, "again")
    /\ ActiveChildren(r) = {} /\ ~HasSuccess(r)
    /\ Fail(r, ctl[r].mem)
    /\ UNCHANGED <<child, lease, recent, done, files, now, foreign>>

AdoptedSucceeds(r) ==
    /\ At(r, "adopted")
    /\ child[ctl[r].child].note = "success"
    /\ Complete(r, "success")
    /\ UNCHANGED <<lock, child, lease, recent, done, files, now, foreign>>

\* False is returned: to the start of a new child, or to the failure of exit code 5.
NotAdopted(r) ==
    IF ctl[r].back = "again"
    THEN Fail(r, ctl[r].mem)
    ELSE /\ ctl' = [ctl EXCEPT ![r].pc = "launch", ![r].child = NoChild, ![r].ok = FALSE]
         /\ UNCHANGED <<run, lock>>

AdoptedFails(r) ==
    /\ At(r, "adopted")
    /\ child[ctl[r].child].note \in {"failed", "cancelled"}
    /\ NotAdopted(r)
    /\ UNCHANGED <<child, lease, recent, done, files, now, foreign>>

StillUndecided(r) ==
    At(r, "adopted") /\ child[ctl[r].child].note \notin {"success", "failed", "cancelled"}

\* As if there were no deadline.
WaitIsOverOnDeath(r) == StillUndecided(r) /\ ~Alive(ctl[r].child)

\* After 15 seconds without the process, or at the deadline of the stage.
WaitIsOver(r) == StillUndecided(r)

AdoptedGivesUp(r) ==
    /\ WaitIsOver(r)
    /\ IF ctl[r].ok THEN Complete(r, "success") /\ UNCHANGED lock ELSE NotAdopted(r)
    /\ UNCHANGED <<child, lease, recent, done, files, now, foreign>>

MayLaunch(r) ==
    \/ At(r, "launch")
    \/ At(r, "stage") /\ ~ctl[r].resume
    \/ At(r, "stage") /\ AsksForChild(r) /\ ActiveChildren(r) = {} /\ ~HasSuccess(r)

\* The two seconds of slack before `started` belong to the previous stage too.
SeenAtOnce(r) == recent # NoStage /\ MatchesHint(Stage(r), recent)

Launch(r) ==
    /\ MayLaunch(r)
    /\ \E c \in Slots :
          /\ Spawn(c, Stage(r))
          /\ Save(r, [ctl[r] EXCEPT !.pc = "poll", !.child = c, !.seen = SeenAtOnce(r)])
    /\ UNCHANGED <<lock, lease, recent, done, files, now, foreign>>

MlflowAway(r) ==
    /\ MayLaunch(r)
    /\ Stage(r) \in NeedMlflow
    /\ Fail(r, ctl[r].mem)
    /\ UNCHANGED <<child, lease, recent, done, files, now, foreign>>

\* The loop that polls needs started_epoch of the state.
Polls(r) == At(r, "poll") /\ ctl[r].mem.epoch

\* KeyError: the run ends and the child stays.
PollBreaks(r) ==
    /\ At(r, "poll") /\ ~ctl[r].mem.epoch
    /\ Alive(ctl[r].child)
    /\ Fail(r, ctl[r].mem)
    /\ UNCHANGED <<child, lease, recent, done, files, now, foreign>>

Timeout(r) ==
    /\ Polls(r)
    /\ Alive(ctl[r].child)
    /\ child' = Forget(r, ctl[r].child)
    /\ lease' = WithoutLease(ctl[r].child)
    /\ Fail(r, ctl[r].mem)
    /\ UNCHANGED <<recent, done, files, now, foreign>>

\* 20 seconds after a terminal status was read in a progress file.
ForcedShutdown(r) ==
    /\ Polls(r)
    /\ ctl[r].seen
    /\ Alive(ctl[r].child)
    /\ child' = Forget(r, ctl[r].child)
    /\ lease' = WithoutLease(ctl[r].child)
    /\ Complete(r, "forced")
    /\ UNCHANGED <<lock, recent, done, files, now, foreign>>

\* accepted_exit_codes, and what the result behind code 4 says.
AcceptedIfAnyFour(s) == {"success"} \cup (IF s \in Partial THEN {"partial", "refused"} ELSE {})

AcceptedOutcomes(s) == {"success"} \cup (IF s \in Partial THEN {"partial"} ELSE {})

ChildEnded(r) == At(r, "poll") /\ ~Alive(ctl[r].child)

OutcomeOf(r) == child[ctl[r].child].outcome

Judge(r) ==
    /\ ChildEnded(r)
    /\ OutcomeOf(r) \in AcceptedOutcomes(Stage(r))
    /\ Complete(r, "success")
    /\ child' = Forget(r, ctl[r].child)
    /\ UNCHANGED <<lock, lease, recent, done, files, now, foreign>>

JudgeLocked(r) ==
    /\ ChildEnded(r)
    /\ OutcomeOf(r) = "locked"
    /\ Save(r, [ctl[r] EXCEPT !.pc = "again", !.child = NoChild])
    /\ child' = Forget(r, ctl[r].child)
    /\ UNCHANGED <<lock, lease, recent, done, files, now, foreign>>

JudgeFailed(r) ==
    /\ ChildEnded(r)
    /\ OutcomeOf(r) \notin AcceptedOutcomes(Stage(r)) \cup {"locked"}
    /\ Fail(r, ctl[r].mem)
    /\ child' = Forget(r, ctl[r].child)
    /\ UNCHANGED <<lease, recent, done, files, now, foreign>>

\* publication_check, cleanup and the final report.
Conclude(r) ==
    /\ ctl[r].pc = "stage"
    /\ Stage(r) \notin Stages
    /\ \/ Fail(r, ctl[r].mem)
       \/ /\ EndWith(r, [ctl[r].mem EXCEPT !.status = "success"])
          /\ lock' = NoRunner
    /\ UNCHANGED <<child, lease, recent, done, files, now, foreign>>

\* The controller's process ends: its child, its lock and run.json remain.
Crash(r) ==
    /\ ctl[r].pc \in InControl
    /\ ctl' = [ctl EXCEPT ![r] = [Off EXCEPT !.pc = "dead"]]
    /\ UNCHANGED <<run, lock, child, lease, recent, done, files, now, foreign>>

\* Repair-SmogAI-OrphanedRun.ps1, of a run without a controller: the next save of a
\* controller that lives would replace what it writes.
Repair ==
    /\ run.status = "running"
    /\ \A r \in Runners : ctl[r].pc \in Over \cup {"off"}
    /\ run' = [run EXCEPT !.status = "interrupted"]
    /\ UNCHANGED <<lock, ctl, child, lease, recent, done, files, now, foreign>>

Step(r) ==
    \/ LockCheck(r) \/ LockWrite(r) \/ PreflightDone(r) \/ PreflightFails(r)
    \/ Skip(r) \/ Adopt(r) \/ Recover(r) \/ StillLocked(r)
    \/ AdoptedSucceeds(r) \/ AdoptedFails(r) \/ AdoptedGivesUp(r)
    \/ Launch(r) \/ MlflowAway(r) \/ PollBreaks(r) \/ Timeout(r) \/ ForcedShutdown(r)
    \/ Judge(r) \/ JudgeLocked(r) \/ JudgeFailed(r) \/ Conclude(r)

Next ==
    \/ \E r \in Runners : StartFresh(r) \/ StartResume(r) \/ Step(r) \/ Crash(r)
    \/ \E c \in Slots : ChildEnter(c) \/ ChildLocked(c) \/ ChildFinish(c) \/ ChildExit(c)
    \/ ForeignStart \/ TwoSeconds \/ Repair

\* A started controller is scheduled; its children owe it nothing.
Fairness == \A r \in Runners : WF_vars(Step(r))

Spec == Init /\ [][Next]_vars /\ Fairness

-----------------------------------------------------------------------------
(* Properties.                                                             *)

Docs ==
    [status : {"none", "running", "failed", "interrupted", "success"}, since : Nat, epoch : BOOLEAN,
     stages : [Stages -> {"open"} \cup Completed]]

\* Every variable of the controllers, the children and the files has its type.
TypeOK ==
    /\ run \in Docs
    /\ lock \in Runners \cup {NoRunner}
    /\ ctl \in [Runners -> [pc : {"off", "check", "claim"} \cup InControl \cup Over,
                            resume : BOOLEAN, mem : Docs, i : Nat,
                            child : Slots \cup {NoChild}, back : {"stage", "again"},
                            ok : BOOLEAN, seen : BOOLEAN]]
    /\ child \in [Slots -> [pc : {"gone", "started", "busy", "idle"}, job : Stages, began : Nat,
                            note : TerminalNotes \cup {"none", "running", "partial_success", "skipped_locked"},
                            outcome : {"none", "success", "failed", "partial", "refused", "locked"}]]
    /\ lease \in Slots \cup {NoChild}
    /\ recent \in Stages \cup {NoStage}
    /\ done \in [Stages -> Nat] /\ files \in [Stages -> Nat]
    /\ now \in Nat /\ foreign \in 0..MaxForeign

\* A stage that run.json calls complete, and that was not shut down by force, was done
\* by a command started since the automation run began, or in the five seconds before it that
\* related_child_progress allows (1091), whichever controllers recorded, adopted, recovered or
\* resumed it; a run that is reported as successful has no other stage.
CompleteMeansDone ==
    /\ \A s \in Stages : run.stages[s] = "success" => done[s] >= run.since
    /\ run.status = "success" => \A s \in Stages : run.stages[s] \in Completed

\* "Zakonczono osierocony proces po zapisanym sukcesie": what is shut down by force, and
\* counted as success, had written its own success.
ForcedMeansDone ==
    \A s \in Stages : run.stages[s] = "forced" => done[s] >= run.since

\* "Przy wznowieniu zakonczone etapy zostana pominiete": a run that did not end well is one
\* that --resume looks for.
Resumable == {"failed", "running", "cancelled"}

UnfinishedIsResumable == run.status \in Resumable \cup {"none", "success"}

\* A controller that starts ends, even with a child that hangs, unless its process dies.
EveryControllerEnds ==
    \A r \in Runners : ctl[r].pc = "check" ~> ctl[r].pc \in Over

\* The invariants of a run in one: its types and what its document says of the stages.
Safe == TypeOK /\ CompleteMeansDone
===============================================================================
