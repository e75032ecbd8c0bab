---------------------------- MODULE ProcessLease ----------------------------
(***************************************************************************)
(* smog_ai/locking.py: the double lock that keeps scheduled commands from  *)
(* running twice.  One lock name is modelled: a Windows mutex per host,    *)
(* and one row of the process_locks table shared by every host.            *)
(*                                                                         *)
(* Time is relative.  row.left is expires_at - now; age[p] and hbAge[p]    *)
(* are the time since the main thread, or the heartbeat thread, of p read  *)
(* the clock.  Every SQL statement is one step: pysqlite opens its write   *)
(* transaction at the first INSERT, UPDATE or DELETE, so the SELECT that   *)
(* precedes it is outside of it and other processes may run in between.    *)
(*                                                                         *)
(* Names that a component beside it has too carry Lease: one module of     *)
(* proofs extends this one and Pipeline.                                   *)
(***************************************************************************)
EXTENDS Integers, FiniteSets

CONSTANTS
    Procs,          \* operating-system processes, one ProcessLease each
    Hosts,
    NoHost,         \* where a process is that the deployment does not have
    Deployments,    \* which process may run on which host
    WindowsHosts,   \* hosts where os.name = "nt"; others have no mutex
    Quiet,          \* processes with heartbeat_enabled = False
    NoProc,         \* no process
    Lease,          \* lease_seconds, in ticks
    BusyTimeout,    \* SQLite's busy_timeout, in ticks
    MaxLeaseFaults  \* bound on crashes and on failed database calls

ASSUME ProcessLeaseAssumption ==
    /\ NoHost \notin Hosts
    /\ Deployments \subseteq [Procs -> Hosts \cup {NoHost}]
    /\ WindowsHosts \subseteq Hosts
    /\ Quiet \subseteq Procs
    /\ NoProc \notin Procs
    /\ Lease \in Nat
    /\ BusyTimeout \in Nat
    /\ BusyTimeout < Lease
    /\ MaxLeaseFaults \in Nat

VARIABLES
    pc,       \* pc[p]: where p is in acquire / the command's body / release
    mutex,    \* mutex[h]: owner of the named mutex of host h
    row,      \* the process_locks row; owner = NoProc when there is none
    sawRow,   \* sawRow[p]: session.get returned a row to acquire
    age,
    hb,       \* hb[p]: the heartbeat thread of p
    hbAge,
    leaseFaults,
    hostOf    \* hostOf[p]: socket.gethostname() in p, never changed

locks == <<pc, mutex, row, sawRow, age, hb, hbAge, leaseFaults>>

leaseVars == <<locks, hostOf>>

\* A process between mutex.acquire() and mutex.release().
InLock == {"entered", "decided", "held", "releasing"}

\* A command runs its body, or is about to leave it: the lease is held.
Holds(p) == pc[p] \in {"held", "releasing"}

Gone(p) == pc[p] = "gone"

OnWindows(p) == hostOf[p] \in WindowsHosts

SameHost(p, q) == hostOf[p] = hostOf[q]

NoRow == [owner |-> NoProc, left |-> 0]

LeaseInit ==
    /\ pc = [p \in Procs |-> "idle"]
    /\ mutex = [h \in Hosts |-> NoProc]
    /\ row = NoRow
    /\ sawRow = [p \in Procs |-> FALSE]
    /\ age = [p \in Procs |-> 0]
    /\ hb = [p \in Procs |-> "none"]
    /\ hbAge = [p \in Procs |-> 0]
    /\ leaseFaults = 0
    /\ hostOf \in Deployments

LeaseFault == leaseFaults < MaxLeaseFaults /\ leaseFaults' = leaseFaults + 1

MutexAfterRelease(p) ==
    IF mutex[hostOf[p]] = p THEN [mutex EXCEPT ![hostOf[p]] = NoProc] ELSE mutex

\* What _process_is_running(pid of p) may answer: a pid that is gone may have
\* been reused, or the probe may fail and answer conservatively.
MayProbeAlive(p, answer) == Gone(p) \/ answer

-----------------------------------------------------------------------------
(* ProcessLease.acquire *)

\* Mutant: an existing mutex is taken for an owned one, without the wait.
EnterMutexUnowned(p) ==
    /\ pc[p] = "idle" /\ hostOf[p] # NoHost
    /\ mutex' = IF OnWindows(p) THEN [mutex EXCEPT ![hostOf[p]] = p] ELSE mutex
    /\ pc' = [pc EXCEPT ![p] = "entered"]
    /\ UNCHANGED <<row, sawRow, age, hb, hbAge, leaseFaults>>

\* self.mutex.acquire(): a no-op off Windows.  A busy mutex raises
\* LockUnavailable and the process stays idle, free to be started again.
EnterMutex(p) ==
    /\ pc[p] = "idle" /\ hostOf[p] # NoHost
    /\ OnWindows(p) => mutex[hostOf[p]] = NoProc
    /\ mutex' = IF OnWindows(p) THEN [mutex EXCEPT ![hostOf[p]] = p] ELSE mutex
    /\ pc' = [pc EXCEPT ![p] = "entered"]
    /\ UNCHANGED <<row, sawRow, age, hb, hbAge, leaseFaults>>

\* Mutant: the expiry of the row is not looked at.
BlockedForever(p, answer) ==
    /\ row.owner \notin {NoProc, p}
    /\ SameHost(p, row.owner) => answer

\* The row belongs to somebody who must be taken to be running.
Blocked(p, answer) ==
    /\ row.owner \notin {NoProc, p}
    /\ row.left > 0
    /\ SameHost(p, row.owner) => answer

\* now = utc_now(); session.get(ProcessLock): the decision is taken here.
ReadRow(p) ==
    /\ pc[p] = "entered"
    /\ \E answer \in BOOLEAN :
        /\ row.owner # NoProc => MayProbeAlive(row.owner, answer)
        /\ ~Blocked(p, answer)
    /\ sawRow' = [sawRow EXCEPT ![p] = row.owner # NoProc]
    /\ age' = [age EXCEPT ![p] = 0]
    /\ pc' = [pc EXCEPT ![p] = "decided"]
    /\ UNCHANGED <<mutex, row, hb, hbAge, leaseFaults>>

\* raise LockUnavailable; the except clause releases the mutex.
Refuse(p) ==
    /\ pc[p] = "entered"
    /\ \E answer \in BOOLEAN :
        /\ row.owner # NoProc => MayProbeAlive(row.owner, answer)
        /\ Blocked(p, answer)
    /\ mutex' = MutexAfterRelease(p)
    /\ pc' = [pc EXCEPT ![p] = "idle"]
    /\ UNCHANGED <<row, sawRow, age, hb, hbAge, leaseFaults>>

\* The flush finds what session.get found: an INSERT finds no row, and an
\* UPDATE by primary key still finds one, whoever owns it by now.
WriteMatches(p) == sawRow[p] = (row.owner # NoProc)

\* INSERT or UPDATE and COMMIT; then the heartbeat thread starts.
WriteRow(p) ==
    /\ pc[p] = "decided"
    /\ WriteMatches(p)
    /\ row' = [owner |-> p, left |-> Lease - age[p]]
    /\ hb' = [hb EXCEPT ![p] = IF p \in Quiet THEN "none" ELSE "waiting"]
    /\ pc' = [pc EXCEPT ![p] = "held"]
    /\ UNCHANGED <<mutex, sawRow, age, hbAge, leaseFaults>>

\* The except clause releases the mutex and re-raises.
AbortAcquire(p) ==
    /\ mutex' = MutexAfterRelease(p)
    /\ pc' = [pc EXCEPT ![p] = "idle"]
    /\ UNCHANGED <<row, sawRow, age, hb, hbAge>>

\* IntegrityError on a duplicate INSERT, StaleDataError on a lost UPDATE.
WriteConflict(p) ==
    /\ pc[p] = "decided"
    /\ ~WriteMatches(p)
    /\ AbortAcquire(p)
    /\ UNCHANGED leaseFaults

\* The busy timeout ends, or the database fails in another way.
AcquireError(p) ==
    /\ pc[p] \in {"entered", "decided"}
    /\ AbortAcquire(p)
    /\ LeaseFault

-----------------------------------------------------------------------------
(* ProcessLease._heartbeat_loop, a daemon thread of p *)

\* The thread returns, silently, when the row is gone or somebody else's.
HeartbeatRead(p) ==
    /\ hb[p] = "waiting"
    /\ ~Gone(p)
    /\ hb' = [hb EXCEPT ![p] = IF row.owner = p THEN "read" ELSE "returned"]
    /\ hbAge' = [hbAge EXCEPT ![p] = 0]
    /\ UNCHANGED <<pc, mutex, row, sawRow, age, leaseFaults>>

\* while not _stop.wait(...): once release has begun the loop ends.
HeartbeatAgain(p) == IF pc[p] = "held" THEN "waiting" ELSE "returned"

\* Mutant: the heartbeat writes every column of the row it holds.
HeartbeatWriteOwner(p) ==
    /\ hb[p] = "read"
    /\ row' = IF row.owner = NoProc THEN row
              ELSE [owner |-> p, left |-> Lease - hbAge[p]]
    /\ hb' = [hb EXCEPT ![p] = HeartbeatAgain(p)]
    /\ UNCHANGED <<pc, mutex, sawRow, age, hbAge, leaseFaults>>

\* UPDATE ... WHERE lock_name = ?: no test of the owner in the statement.
HeartbeatWrite(p) ==
    /\ hb[p] = "read"
    /\ row' = IF row.owner = NoProc THEN row
              ELSE [row EXCEPT !.left = Lease - hbAge[p]]
    /\ hb' = [hb EXCEPT ![p] = HeartbeatAgain(p)]
    /\ UNCHANGED <<pc, mutex, sawRow, age, hbAge, leaseFaults>>

\* except Exception: continue.
HeartbeatError(p) ==
    /\ hb[p] = "read"
    /\ hb' = [hb EXCEPT ![p] = HeartbeatAgain(p)]
    /\ LeaseFault
    /\ UNCHANGED <<pc, mutex, row, sawRow, age, hbAge>>

-----------------------------------------------------------------------------
(* ProcessLease.release *)

\* _stop.set() and join: the join gives up on a thread that is in a write.
StopHeartbeat(p) ==
    /\ pc[p] = "held"
    /\ hb' = [hb EXCEPT ![p] = IF @ = "waiting" THEN "returned" ELSE @]
    /\ pc' = [pc EXCEPT ![p] = "releasing"]
    /\ UNCHANGED <<mutex, row, sawRow, age, hbAge, leaseFaults>>

\* DELETE ... WHERE owner_token = ?, then mutex.release() in the finally.
Release(p) ==
    /\ pc[p] = "releasing"
    /\ row' = IF row.owner = p THEN NoRow ELSE row
    /\ mutex' = MutexAfterRelease(p)
    /\ pc' = [pc EXCEPT ![p] = "released"]
    /\ UNCHANGED <<sawRow, age, hb, hbAge, leaseFaults>>

\* The DELETE fails; the finally clause still releases the mutex.
ReleaseError(p) ==
    /\ pc[p] = "releasing"
    /\ mutex' = MutexAfterRelease(p)
    /\ pc' = [pc EXCEPT ![p] = "released"]
    /\ LeaseFault
    /\ UNCHANGED <<row, sawRow, age, hb, hbAge>>

-----------------------------------------------------------------------------
(* The operating system and the clock *)

\* The process ends; Windows abandons its mutex to the next waiter.
Terminate(p) ==
    /\ mutex' = MutexAfterRelease(p)
    /\ pc' = [pc EXCEPT ![p] = "gone"]
    /\ hb' = [hb EXCEPT ![p] = "none"]
    /\ UNCHANGED <<row, sawRow, age, hbAge>>

Exit(p)  == pc[p] = "released" /\ Terminate(p) /\ UNCHANGED leaseFaults

Die(p) == pc[p] \notin {"idle", "gone"} /\ Terminate(p) /\ LeaseFault

\* The scheduler starts the command again: a new process, whose uuid4 token
\* no row holds.
Start(p) ==
    /\ pc[p] = "gone"
    /\ row.owner # p
    /\ pc' = [pc EXCEPT ![p] = "idle"]
    /\ UNCHANGED <<mutex, row, sawRow, age, hb, hbAge, leaseFaults>>

\* A write waits for another at most busy_timeout: then it is made or fails.
LeaseTick ==
    /\ \A p \in Procs :
        /\ pc[p] = "decided" => age[p] < BusyTimeout
        /\ hb[p] = "read" => hbAge[p] < BusyTimeout
    /\ row' = [row EXCEPT !.left = IF @ > 0 THEN @ - 1 ELSE @]
    /\ age' = [p \in Procs |-> IF pc[p] = "decided" THEN age[p] + 1 ELSE age[p]]
    /\ hbAge' = [p \in Procs |-> IF hb[p] = "read" THEN hbAge[p] + 1 ELSE hbAge[p]]
    /\ UNCHANGED <<pc, mutex, sawRow, hb, leaseFaults>>

-----------------------------------------------------------------------------
LeaseStep(p) ==
    \/ EnterMutex(p) \/ ReadRow(p) \/ Refuse(p)
    \/ WriteRow(p) \/ WriteConflict(p) \/ AcquireError(p)
    \/ HeartbeatRead(p) \/ HeartbeatWrite(p) \/ HeartbeatError(p)
    \/ StopHeartbeat(p) \/ Release(p) \/ ReleaseError(p)
    \/ Exit(p) \/ Die(p) \/ Start(p)

LeaseNext == (LeaseTick \/ \E p \in Procs : LeaseStep(p)) /\ UNCHANGED hostOf

LeaseSpec == LeaseInit /\ [][LeaseNext]_leaseVars

\* The scheduler starts each command again and again, the processor runs
\* every process, time passes, and a command's body ends (the scheduler's
\* time limit sees to it).  Crashes and errors are never obliged.
AcquireStep(p) == ReadRow(p) \/ Refuse(p) \/ WriteRow(p) \/ WriteConflict(p)

Fairness ==
    /\ WF_locks(LeaseTick)
    /\ \A p \in Procs :
        /\ WF_locks(EnterMutex(p))
        /\ WF_locks(AcquireStep(p))
        /\ WF_locks(HeartbeatWrite(p))
        /\ WF_locks(StopHeartbeat(p))
        /\ WF_locks(Release(p))
        /\ WF_locks(Exit(p))
        /\ WF_locks(Start(p))

FairSpec == LeaseSpec /\ Fairness

-----------------------------------------------------------------------------
(* Properties *)

LeaseTypeOK ==
    /\ pc \in [Procs -> {"idle", "released", "gone"} \cup InLock]
    /\ mutex \in [Hosts -> Procs \cup {NoProc}]
    /\ row \in [owner : Procs \cup {NoProc}, left : 0..Lease]
    /\ sawRow \in [Procs -> BOOLEAN]
    /\ age \in [Procs -> 0..BusyTimeout]
    /\ hb \in [Procs -> {"none", "waiting", "read", "returned"}]
    /\ hbAge \in [Procs -> 0..BusyTimeout]
    /\ leaseFaults \in 0..MaxLeaseFaults
    /\ hostOf \in Deployments

\* Every process runs on one Windows machine: the deployment of the scripts.
SingleWindowsHost ==
    \A p, q \in Procs : OnWindows(p) /\ hostOf[p] = hostOf[q]

\* On one Windows machine two commands under one lock name never run at once
\* (docs/platform/TRAINING_SNAPSHOT_BRIDGE_PL.md:74).
MutualExclusion ==
    SingleWindowsHost => \A p, q \in Procs : Holds(p) /\ Holds(q) => p = q

\* While a command runs its body, the row names it, even when the lease is
\* quiet and has expired under it: on one Windows machine nobody takes the
\* row over from a running command, and a late heartbeat or a failed release
\* of another command never replaces its owner.
RowNamesHolder ==
    SingleWindowsHost => \A p \in Procs : Holds(p) => row.owner = p

\* A row left behind by a process that died, or whose DELETE failed, does
\* not block the command for ever: it is deleted or taken over.
AbandonedRowRecovered ==
    \A p \in Procs : (row.owner = p /\ Gone(p)) ~> row.owner # p
=============================================================================
