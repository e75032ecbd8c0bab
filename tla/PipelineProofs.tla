---------------------------- MODULE PipelineProofs ----------------------------
(* The lease that scheduled runs hold, the pipeline they run, and the training  *)
(* run.  ProcessLease on every deployment, for any number of processes and       *)
(* crashes and any lease; Pipeline for any clock, leads, delays, readings, model *)
(* versions and bounds on runs, tasks and faults; HourlyTraining for any         *)
(* measurements, targets, methods, errors and policy.  The three share no state: *)
(* the lease is what lets Pipeline and HourlyTraining have one run at a time.    *)
EXTENDS ProcessLease, Pipeline, HourlyTraining, FiniteSetTheorems, SequenceTheorems,
        WellFoundedInduction, TLAPS

-----------------------------------------------------------------------------
(* The lease                                                               *)

LEMMA InitLeaseTypeOK == LeaseInit => LeaseTypeOK
  BY ProcessLeaseAssumption DEF LeaseInit, LeaseTypeOK, NoRow, InLock

LEMMA NextLeaseTypeOK == LeaseTypeOK /\ [LeaseNext]_leaseVars => LeaseTypeOK'
<1> SUFFICES ASSUME LeaseTypeOK, [LeaseNext]_leaseVars
             PROVE  LeaseTypeOK'
  OBVIOUS
<1> USE ProcessLeaseAssumption DEF LeaseTypeOK, InLock
<1>h. hostOf' = hostOf
  BY DEF LeaseNext, leaseVars
<1> USE <1>h
<1>1. CASE UNCHANGED leaseVars
  BY <1>1 DEF leaseVars, locks
<1>2. CASE LeaseTick
  <2>1. row'.left \in 0..Lease /\ row'.owner = row.owner
    BY <1>2 DEF LeaseTick
  <2>2. row' \in [owner : Procs \cup {NoProc}, left : 0..Lease]
    BY <2>1, <1>2 DEF LeaseTick
  <2>3. age' \in [Procs -> 0..BusyTimeout] /\ hbAge' \in [Procs -> 0..BusyTimeout]
    BY <1>2 DEF LeaseTick
  <2> QED
    BY <2>2, <2>3, <1>2 DEF LeaseTick
<1>3. ASSUME NEW p \in Procs, LeaseStep(p)
      PROVE  LeaseTypeOK'
  <2>0. MutexAfterRelease(p) \in [Hosts -> Procs \cup {NoProc}]
    BY DEF MutexAfterRelease
  <2> USE <2>0 DEF LeaseFault
  <2>1. CASE EnterMutex(p)
    BY <2>1 DEF EnterMutex
  <2>2. CASE ReadRow(p)
    BY <2>2 DEF ReadRow
  <2>3. CASE Refuse(p)
    BY <2>3 DEF Refuse
  <2>4. CASE WriteRow(p)
    BY <2>4 DEF WriteRow
  <2>5. CASE WriteConflict(p)
    BY <2>5 DEF WriteConflict, AbortAcquire
  <2>6. CASE AcquireError(p)
    BY <2>6 DEF AcquireError, AbortAcquire
  <2>7. CASE HeartbeatRead(p)
    BY <2>7 DEF HeartbeatRead
  <2>8. CASE HeartbeatWrite(p)
    BY <2>8 DEF HeartbeatWrite, HeartbeatAgain
  <2>9. CASE HeartbeatError(p)
    BY <2>9 DEF HeartbeatError, HeartbeatAgain
  <2>10. CASE StopHeartbeat(p)
    BY <2>10 DEF StopHeartbeat
  <2>11. CASE Release(p)
    BY <2>11 DEF Release, NoRow
  <2>12. CASE ReleaseError(p)
    BY <2>12 DEF ReleaseError
  <2>13. CASE Exit(p)
    BY <2>13 DEF Exit, Terminate
  <2>14. CASE Die(p)
    BY <2>14 DEF Die, Terminate
  <2>15. CASE Start(p)
    BY <2>15 DEF Start
  <2> QED
    BY <1>3, <2>1, <2>2, <2>3, <2>4, <2>5, <2>6, <2>7, <2>8, <2>9, <2>10,
       <2>11, <2>12, <2>13, <2>14, <2>15 DEF LeaseStep
<1> QED
  BY <1>1, <1>2, <1>3 DEF LeaseNext

\* Every variable keeps its type, whatever the hosts and the faults: no step
\* of acquire, of the heartbeat thread or of release writes a row that names
\* no process or a lease longer than lease_seconds (locking.py:231-338).
THEOREM LeaseTypeCorrect == LeaseSpec => []LeaseTypeOK
<1>1. LeaseInit => LeaseTypeOK
  BY InitLeaseTypeOK
<1>2. LeaseTypeOK /\ [LeaseNext]_leaseVars => LeaseTypeOK'
  BY NextLeaseTypeOK
<1> QED
  BY <1>1, <1>2, PTL DEF LeaseSpec

-----------------------------------------------------------------------------
\* The mutex of the host belongs to the process between acquire and release.
MutexHeld == \A p \in Procs : pc[p] \in InLock => mutex[hostOf[p]] = p

\* What the two locks promise together on one Windows host; inductive.
LockInv == LeaseTypeOK /\ (SingleWindowsHost => MutexHeld /\ RowNamesHolder)

LEMMA MutexExcludes ==
  ASSUME SingleWindowsHost, MutexHeld,
         NEW p \in Procs, NEW q \in Procs,
         pc[p] \in InLock, pc[q] \in InLock
  PROVE  p = q
  BY DEF SingleWindowsHost, MutexHeld

LEMMA NextLockInv ==
  ASSUME LockInv, [LeaseNext]_leaseVars
  PROVE  LockInv'
<1> USE ProcessLeaseAssumption
<1>1. LeaseTypeOK'
  BY NextLeaseTypeOK DEF LockInv
<1>2. hostOf' = hostOf /\ (SingleWindowsHost' <=> SingleWindowsHost)
  BY DEF LeaseNext, leaseVars, SingleWindowsHost, OnWindows
<1> SUFFICES ASSUME SingleWindowsHost
             PROVE  MutexHeld' /\ RowNamesHolder'
  BY <1>1, <1>2 DEF LockInv
<1>3. LeaseTypeOK /\ MutexHeld /\ RowNamesHolder
  BY DEF LockInv
<1> USE <1>2, <1>3 DEF LeaseTypeOK, MutexHeld, RowNamesHolder, Holds
<1>4. CASE UNCHANGED leaseVars
  BY <1>4 DEF leaseVars, locks
<1>5. CASE LeaseTick
  BY <1>5 DEF LeaseTick
<1>6. ASSUME NEW p \in Procs, LeaseStep(p)
      PROVE  MutexHeld' /\ RowNamesHolder'
  <2>1. \A q \in Procs : q # p => ~(pc[p] \in InLock /\ pc[q] \in InLock)
    BY MutexExcludes
  <2>2. OnWindows(p) /\ \A q \in Procs : hostOf[q] = hostOf[p]
    BY DEF SingleWindowsHost
  <2> USE <2>1, <2>2 DEF InLock, MutexAfterRelease
  <2>3. CASE EnterMutex(p)
    BY <2>3 DEF EnterMutex
  <2>4. CASE ReadRow(p)
    BY <2>4 DEF ReadRow
  <2>5. CASE Refuse(p)
    BY <2>5 DEF Refuse
  <2>6. CASE WriteRow(p)
    BY <2>6 DEF WriteRow
  <2>7. CASE WriteConflict(p) \/ AcquireError(p)
    BY <2>7 DEF WriteConflict, AcquireError, AbortAcquire
  <2>8. CASE HeartbeatRead(p)
    BY <2>8 DEF HeartbeatRead
  <2>9. CASE HeartbeatWrite(p)
    BY <2>9 DEF HeartbeatWrite
  <2>10. CASE HeartbeatError(p)
    BY <2>10 DEF HeartbeatError
  <2>11. CASE StopHeartbeat(p)
    BY <2>11 DEF StopHeartbeat
  <2>12. CASE Release(p)
    BY <2>12 DEF Release
  <2>13. CASE ReleaseError(p)
    BY <2>13 DEF ReleaseError
  <2>14. CASE Exit(p) \/ Die(p)
    BY <2>14 DEF Exit, Die, Terminate
  <2>15. CASE Start(p)
    BY <2>15 DEF Start
  <2> QED
    BY <1>6, <2>3, <2>4, <2>5, <2>6, <2>7, <2>8, <2>9, <2>10, <2>11, <2>12,
       <2>13, <2>14, <2>15 DEF LeaseStep
<1> QED
  BY <1>4, <1>5, <1>6 DEF LeaseNext

LEMMA LockInvariant == LeaseSpec => []LockInv
<1>1. LeaseInit => LockInv
  BY InitLeaseTypeOK DEF LeaseInit, LockInv, MutexHeld, RowNamesHolder, Holds, InLock
<1>2. LockInv /\ [LeaseNext]_leaseVars => LockInv'
  BY NextLockInv
<1> QED
  BY <1>1, <1>2, PTL DEF LeaseSpec

\* On one Windows host two commands under one lock name never run at once,
\* however leases expire, heartbeats straggle and processes die.
THEOREM WindowsExclusion == LeaseSpec => []MutualExclusion
<1>1. LockInv => MutualExclusion
  BY MutexExcludes DEF LockInv, MutualExclusion, Holds, InLock
<1> QED
  BY <1>1, LockInvariant, PTL

\* On one Windows host the process_locks row names the running command, also
\* when its quiet lease has expired: only the owner of the mutex writes an
\* owner_token, and a late heartbeat changes the expiry alone.
THEOREM WindowsRowNamesHolder == LeaseSpec => []RowNamesHolder
<1>1. LockInv => RowNamesHolder
  BY DEF LockInv, RowNamesHolder
<1> QED
  BY <1>1, LockInvariant, PTL

-----------------------------------------------------------------------------
(* Least and greatest members                                              *)

LEMMA LeastNatural ==
  ASSUME NEW S \in SUBSET Nat, S # {}
  PROVE  \E p \in S : \A q \in S : p <= q
<1> DEFINE Less == {pair \in Nat \X Nat : pair[1] < pair[2]}
<1>1. IsWellFoundedOn(Less, Nat)
  BY NatLessThanWellFounded DEF OpToRel
<1>2. PICK p \in S : \A q \in S : <<q, p>> \notin Less
  <2> HIDE DEF Less
  <2> QED
    BY <1>1, WFMin
<1>3. ASSUME NEW q \in S, q < p
      PROVE  FALSE
  <2>1. <<q, p>> \in Nat \X Nat /\ <<q, p>>[1] = q /\ <<q, p>>[2] = p
    BY <1>2
  <2> QED
    BY <1>2, <1>3, <2>1
<1> QED
  BY <1>2, <1>3

LEMMA LastHour ==
  ASSUME NEW S \in SUBSET Hours, S # {}
  PROVE  \E h \in S : \A g \in S : g <= h
<1> USE PipelineAssumption DEF Hours
<1> DEFINE Left == {MaxHour - h : h \in S}
<1>0. \A h \in S : h \in Int /\ MaxHour - h \in Nat
  OBVIOUS
<1>1. Left \in SUBSET Nat /\ Left # {}
  BY <1>0
<1>2. PICK n \in Left : \A m \in Left : n <= m
  BY <1>1, LeastNatural
<1>3. PICK h \in S : n = MaxHour - h
  BY <1>2
<1>4. \A g \in S : MaxHour - g \in Left
  OBVIOUS
<1>5. \A g \in S : n <= MaxHour - g
  BY <1>2, <1>4
<1> HIDE DEF Left
<1> QED
  BY <1>0, <1>3, <1>5

\* The row that is nearest to a target is one of those it is chosen among.
LEMMA NearestThere ==
  ASSUME NEW S \in SUBSET Hours, S # {}, NEW target \in Nat, NEW early \in BOOLEAN
  PROVE  Nearest(S, target, early) \in S
<1> USE PipelineAssumption DEF Hours
<1> DEFINE Far == {Distance(h, target) : h \in S}
<1>1. \A h \in S : Distance(h, target) \in Nat
  BY DEF Distance
<1>2. Far \in SUBSET Nat /\ Far # {}
  BY <1>1
<1>3. PICK n \in Far : \A m \in Far : n <= m
  BY <1>2, LeastNatural
<1> DEFINE T == {h \in S : Distance(h, target) = n}
<1>4. T \in SUBSET Hours /\ T \in SUBSET Nat /\ T # {}
  BY <1>3
<1>5. \A h \in T, g \in S : Distance(h, target) = n /\ Distance(h, target) <= Distance(g, target)
  <2>1. \A g \in S : Distance(g, target) \in Far
    OBVIOUS
  <2> QED
    BY <1>3, <2>1
<1>6. PICK h \in T : \A g \in T : IF early THEN h <= g ELSE g <= h
  <2> HIDE DEF T, Hours
  <2>1. CASE early
    BY <1>4, <2>1, LeastNatural
  <2>2. CASE ~early
    BY <1>4, <2>2, LastHour
  <2> QED
    BY <2>1, <2>2
<1>7. \A g \in S : \/ Distance(h, target) < Distance(g, target)
                   \/ /\ Distance(h, target) = Distance(g, target)
                      /\ IF early THEN h <= g ELSE g <= h
  <2> SUFFICES ASSUME NEW g \in S, Distance(h, target) = Distance(g, target)
               PROVE  IF early THEN h <= g ELSE g <= h
    BY <1>1, <1>3, <1>5, <1>6
  <2>1. g \in T
    BY <1>5, <1>6
  <2> QED
    BY <1>6, <2>1
<1>8. h \in S
  BY <1>6
<1> HIDE DEF T, Far
<1> QED
  BY <1>7, <1>8 DEF Nearest

-----------------------------------------------------------------------------
(* What the stages compute                                                 *)

Tables == [Params -> [Hours -> Values]]

LEMMA ReadableHours ==
  ASSUME NEW m, NEW p \in Params, NEW match \in BOOLEAN
  PROVE  Readable(m, p, match) \in SUBSET Hours
BY DEF Readable, Valid

LEMMA NewestReadable ==
  ASSUME NEW m, NEW match \in BOOLEAN, NEW p \in Sources(m, match)
  PROVE  /\ Newest(m, match, p) \in Hours
         /\ Newest(m, match, p) \in Readable(m, p, match)
         /\ \A g \in Readable(m, p, match) : g <= Newest(m, match, p)
<1>1. p \in Params /\ Readable(m, p, match) # {}
  BY DEF Sources
<1>2. Readable(m, p, match) \in SUBSET Hours
  BY <1>1, ReadableHours
<1>3. \E h \in Readable(m, p, match) : \A g \in Readable(m, p, match) : g <= h
  BY <1>1, <1>2, LastHour
<1> QED
  BY <1>2, <1>3 DEF Newest

\* The common origin is an hour that every readable series reaches and that some
\* series has a value at.
LEMMA OriginReadable ==
  ASSUME NEW m, NEW match \in BOOLEAN, Sources(m, match) # {}
  PROVE  /\ Origin(m, match) \in Hours
         /\ \E p \in Sources(m, match) : Origin(m, match) \in Readable(m, p, match)
<1> DEFINE Tops == {Newest(m, match, p) : p \in Sources(m, match)}
<1>1. \A p \in Sources(m, match) :
         /\ Newest(m, match, p) \in Hours
         /\ Newest(m, match, p) \in Readable(m, p, match)
  BY NewestReadable
<1>2. Tops \in SUBSET Nat /\ Tops # {}
  <2>1. Hours \in SUBSET Nat
    BY PipelineAssumption DEF Hours
  <2> HIDE DEF Hours
  <2> QED
    BY <1>1, <2>1
<1>3. PICK o \in Tops : \A n \in Tops : o <= n
  BY <1>2, LeastNatural
<1>4. \A p \in Sources(m, match) : o <= Newest(m, match, p)
  BY <1>3
<1>5. Origin(m, match) \in Tops
  <2> HIDE DEF Tops
  <2>1. \E x \in Tops : \A p \in Sources(m, match) : x <= Newest(m, match, p)
    BY <1>3, <1>4
  <2>2. Origin(m, match) = CHOOSE x \in Tops : \A p \in Sources(m, match) : x <= Newest(m, match, p)
    BY DEF Origin, Tops
  <2> QED
    BY <2>1, <2>2
<1> QED
  BY <1>1, <1>5

LEMMA OriginType ==
  ASSUME NEW m, NEW match \in BOOLEAN
  PROVE  /\ Origin(m, match) \in Hours \cup {Never}
         /\ Origin(m, match) # Never <=> Sources(m, match) # {}
<1>1. Sources(m, match) = {} => Origin(m, match) = Never
  BY DEF Origin
<1>2. Never \notin Hours
  BY PipelineAssumption DEF Hours, Never
<1> QED
  BY <1>1, <1>2, OriginReadable

\* What a prediction adds: forecasts of the active version, made now for a later hour.
LEMMA ForecastedType ==
  ASSUME NEW m, NEW match \in BOOLEAN, NEW version \in 1..MaxModel, NEW t \in Hours,
         Origin(m, match) # Never, NEW f \in Forecasted(m, match, version, t)
  PROVE  f \in Forecast /\ f.target > t /\ Made(f) = t
<1> USE PipelineAssumption
<1>1. Origin(m, match) \in Hours
  BY OriginType
<1>2. f.target > t
  BY DEF Forecasted
<1>3. PICK p \in Params, l \in Leads :
         f = [param |-> p, origin |-> Origin(m, match), target |-> Anchor(t) + l - 1, lead |-> l,
              model |-> version]
  BY DEF Forecasted
<1>4. t \in Nat /\ l \in Nat \ {0} /\ Anchor(t) + l - 1 = t + l /\ t + l \in Nat \ {0}
  BY DEF Hours, Anchor
<1> QED
  BY <1>1, <1>2, <1>3, <1>4 DEF Forecast, Made

\* A prediction that is not refused has rows; they are made now, for later hours.
LEMMA ForecastedThere ==
  ASSUME NEW m, NEW match \in BOOLEAN, NEW version, NEW t \in Hours, Leads # {},
         Origin(m, match) # Never
  PROVE  Forecasted(m, match, version, t) # {}
<1> USE PipelineAssumption
<1>0. t \in Nat /\ Hours \subseteq Int
  BY DEF Hours
<1>1. PICK q \in Params : Origin(m, match) \in Readable(m, q, match)
  BY OriginType, OriginReadable DEF Sources
<1>2. Origin(m, match) \in Hours
  BY OriginType
<1>3. PICK l \in Leads : l \in Nat \ {0}
  OBVIOUS
<1> DEFINE f == [param |-> q, origin |-> Origin(m, match), target |-> Anchor(t) + l - 1,
                 lead |-> l, model |-> version]
<1>4. q \in {r \in Params : \E k \in Readable(m, r, match) : k <= Origin(m, match)}
  <2>0. \A o \in Hours : o <= o
    BY <1>0
  <2>1. Origin(m, match) <= Origin(m, match)
    BY <1>2, <2>0
  <2> QED
    BY <1>1, <2>1
<1>5. f.target > t
  BY <1>0, <1>3 DEF Anchor
<1>6. f \in Forecasted(m, match, version, t)
  BY <1>3, <1>4, <1>5 DEF Forecasted
<1> QED
  BY <1>6

\* Inserting keeps every row and its result; the new rows have none.
LEMMA PersistedGrows ==
  ASSUME NEW v, NEW F, NEW w, w = Persisted(v, F)
  PROVE  /\ DOMAIN w = DOMAIN v \cup F
         /\ \A f \in DOMAIN v : w[f] = v[f]
         /\ \A f \in F \ DOMAIN v : w[f] = Unlooked
BY DEF Persisted

\* Verification keeps every row and every result; a new result is an hour.
LEMMA VerifiedKeeps ==
  ASSUME NEW m, NEW match \in BOOLEAN, NEW t \in Hours, NEW early \in BOOLEAN,
         NEW v, DOMAIN v \subseteq Forecast,
         \A f \in DOMAIN v : v[f] \in Hours \cup {Unlooked, Awaiting},
         NEW w, w = Verified(m, match, v, t, early)
  PROVE  /\ DOMAIN w = DOMAIN v
         /\ \A f \in DOMAIN v : /\ w[f] \in Hours \cup {Unlooked, Awaiting}
                                /\ v[f] \in Hours => w[f] = v[f]
<1>1. DOMAIN w = DOMAIN v
  BY DEF Verified
<1>2. Unlooked \notin Hours /\ Awaiting \notin Hours
  BY PipelineAssumption DEF Hours, Unlooked, Awaiting
<1>3. ASSUME NEW f \in DOMAIN v
      PROVE  /\ w[f] \in Hours \cup {Unlooked, Awaiting}
             /\ v[f] \in Hours => w[f] = v[f]
  <2>1. f \in Forecast /\ f.param \in Params /\ f.target \in Nat
    BY DEF Forecast
  <2>2. Actual(m, match, f) \in SUBSET Hours
    BY <2>1, ReadableHours DEF Actual
  <2>3. Actual(m, match, f) # {} => Nearest(Actual(m, match, f), f.target, early) \in Hours
    BY <2>1, <2>2, NearestThere
  <2>4. w[f] = IF f \notin Pending(v, t) THEN v[f]
               ELSE IF Actual(m, match, f) = {} THEN Awaiting
               ELSE Nearest(Actual(m, match, f), f.target, early)
    BY DEF Verified
  <2>5. f \in Pending(v, t) => v[f] = Unlooked
    BY DEF Pending
  <2> QED
    BY <1>2, <2>3, <2>4, <2>5
<1> QED
  BY <1>1, <1>3

LEMMA SurfacesThere == ASSUME NEW F PROVE Surfaces(F) \subseteq F
BY DEF Surfaces

\* A measurement, once made, stays, but for the mark of a bad one.
LEMMA InsertedType ==
  ASSUME NEW m \in Tables, NEW p \in Params, NEW offer,
         \A h \in DOMAIN offer : offer[h] \in Values
  PROVE  Inserted(m, p, offer) \in Tables
BY DEF Inserted, Tables

LEMMA ValidatedType ==
  ASSUME NEW m \in Tables
  PROVE  Validated(m) \in Tables
BY DEF Validated, Tables, Values

-----------------------------------------------------------------------------
(* Who runs a stage                                                        *)

Entries == Stages \cup {"finish", "models", "snapshot"}

LEMMA StageNames ==
  Stages = {"collect_gios", "collect_imgw", "validate", "match_stations",
            "export_object_store", "verify", "predict", "build_spatial_surfaces",
            "publish_documentation", "build_snapshot", "backfill_imgw_archive"}
<1>1. DOMAIN HourlyStages = 1..10
  BY DEF HourlyStages
<1>2. \A i \in 1..10 : i \in {1, 2, 3, 4, 5, 6, 7, 8, 9, 10}
  OBVIOUS
<1>3. /\ HourlyStages[1] = "collect_gios" /\ HourlyStages[2] = "collect_imgw"
      /\ HourlyStages[3] = "validate" /\ HourlyStages[4] = "match_stations"
      /\ HourlyStages[5] = "export_object_store" /\ HourlyStages[6] = "verify"
      /\ HourlyStages[7] = "predict" /\ HourlyStages[8] = "build_spatial_surfaces"
      /\ HourlyStages[9] = "publish_documentation" /\ HourlyStages[10] = "build_snapshot"
  BY DEF HourlyStages
<1>4. 1 \in 1..10 /\ 2 \in 1..10 /\ 3 \in 1..10 /\ 4 \in 1..10 /\ 5 \in 1..10 /\ 6 \in 1..10
      /\ 7 \in 1..10 /\ 8 \in 1..10 /\ 9 \in 1..10 /\ 10 \in 1..10
  OBVIOUS
<1> DEFINE Named == {"collect_gios", "collect_imgw", "validate", "match_stations",
            "export_object_store", "verify", "predict", "build_spatial_surfaces",
            "publish_documentation", "build_snapshot"}
<1>5. {HourlyStages[i] : i \in 1..10} = Named
  <2>1. \A i \in 1..10 : HourlyStages[i] \in Named
    BY <1>2, <1>3
  <2>2. \A s \in Named : \E i \in 1..10 : HourlyStages[i] = s
    BY <1>3, <1>4
  <2> HIDE DEF Named
  <2> QED
    BY <2>1, <2>2
<1> QED
  BY <1>1, <1>5 DEF Stages

LEMMA RunStarts ==
  /\ Append(HourlyStages, "finish") \in Seq(Entries)
  /\ FirstRunStages \o <<"finish", "models", "snapshot">> \in Seq(Entries)
<1>1. HourlyStages \in Seq(Entries) /\ "finish" \in Entries
  BY StageNames DEF HourlyStages, Entries
<1>2. FirstRunStages \in Seq(Entries) /\ <<"finish", "models", "snapshot">> \in Seq(Entries)
  BY StageNames DEF FirstRunStages, Entries
<1> QED
  BY <1>1, <1>2

Counted == run' \in Runs /\ runs' \in 0..MaxRuns /\ tasks' \in 0..MaxTasks

LEMMA CountedStage ==
  ASSUME TypeOK, NEW s, NEW errors \in BOOLEAN, Returns(s, errors) \/ Raises(s)
  PROVE  Counted
<1> USE PipelineAssumption DEF TypeOK
<1>1. CASE At(s)
  <2>0. run \in Runs /\ run.todo # <<>>
    BY <1>1 DEF At, Running
  <2>1. run.errors \in BOOLEAN /\ run.usable \in BOOLEAN
    BY DEF Runs
  <2>2. Tail(run.todo) \in Seq(Stages \cup {"finish", "models", "snapshot"})
    BY <2>0 DEF Runs
  <2>3. ASSUME run' = [run EXCEPT !.todo = Tail(@), !.errors = @ \/ errors]
        PROVE  run' \in Runs
    <3>1. (run.errors \/ errors) \in BOOLEAN
      OBVIOUS
    <3> QED
      BY <2>2, <2>3, <3>1 DEF Runs
  <2>4. ASSUME run' = [run EXCEPT !.todo = Tail(@), !.errors = TRUE, !.usable = @ /\ ~Required(s)]
        PROVE  run' \in Runs
    <3>1. (run.usable /\ ~Required(s)) \in BOOLEAN
      OBVIOUS
    <3> QED
      BY <2>2, <2>4, <3>1 DEF Runs
  <2>5. ASSUME UNCHANGED <<run, runs>>, tasks < MaxTasks, tasks' = tasks + 1
        PROVE  Counted
    BY <2>5 DEF Counted
  <2> QED
    BY <2>3, <2>4, <2>5 DEF Returns, Raises, Counted, counters, Alone
<1>2. CASE ~At(s)
  BY <1>2 DEF Returns, Raises, Counted, Alone, Turn
<1> QED
  BY <1>1, <1>2

LEMMA OffersTyped ==
  /\ \A offer \in AirOffers : \A h \in DOMAIN offer : offer[h] \in Values
  /\ \A offer \in WeatherOffers : \A h \in DOMAIN offer : offer[h] \in Values
  /\ \A p \in Params : \A offer \in ArchiveOffers(p) : \A h \in DOMAIN offer : offer[h] \in Values
<1>1. Readings \subseteq Values /\ "good" \in Values
  BY PipelineAssumption DEF Values
<1>2. \A h \in DOMAIN <<>> : <<>>[h] \in Values
  OBVIOUS
<1>3. ASSUME NEW offer \in AirOffers, NEW h \in DOMAIN offer
      PROVE  offer[h] \in Values
  <2>1. CASE offer = <<>>
    BY <2>1, <1>2
  <2>2. CASE \E k \in 0..now, last \in Readings :
               offer = [g \in Lacking("air", k) |-> IF g = k THEN last ELSE "good"]
    BY <2>2, <1>1
  <2> QED
    BY <2>1, <2>2 DEF AirOffers
<1>4. ASSUME NEW offer \in WeatherOffers, NEW h \in DOMAIN offer
      PROVE  offer[h] \in Values
  BY <1>1 DEF WeatherOffers
<1>5. ASSUME NEW p \in Params, NEW offer \in ArchiveOffers(p), NEW h \in DOMAIN offer
      PROVE  offer[h] \in Values
  BY <1>1, <1>2 DEF ArchiveOffers
<1> QED
  BY <1>3, <1>4, <1>5

\* Releases are made of forecasts, whether or not all their surfaces could be built.
LEMMA PutReleaseType ==
  ASSUME release.set \subseteq Forecast, faults \in 0..MaxFaults,
         NEW F \in SUBSET Forecast, NEW version,
         PutRelease(F, version) \/ CutRelease(F, version)
  PROVE  release'.set \subseteq Forecast /\ faults' \in 0..MaxFaults
<1> USE PipelineAssumption
<1>1. CASE PutRelease(F, version)
  <2>1. PICK S \in (SUBSET Surfaces(F)) \ {{}} :
          /\ Fails(Status(version, Surfaces(F) \ S).failed)
          /\ release' = [set |-> S, status |-> Status(version, Surfaces(F) \ S)]
    BY <1>1 DEF PutRelease
  <2>2. release'.set = S /\ S \subseteq Surfaces(F)
    BY <2>1
  <2> QED
    BY <2>1, <2>2, SurfacesThere DEF Fails, Fault
<1>2. CASE CutRelease(F, version)
  <2>1. release' = release /\ \E failed : Fault \/ Fails(failed)
    BY <1>2 DEF CutRelease
  <2> QED
    BY <2>1 DEF Fails, Fault
<1> QED
  BY <1>1, <1>2

LEMMA SnapshotType ==
  ASSUME NEW F
  PROVE  SnapshotOf(F) = F \/ SnapshotOf(F) = snapshot
BY DEF SnapshotOf

LEMMA InitTypeOK == Init => TypeOK
<1> SUFFICES ASSUME Init PROVE TypeOK
  OBVIOUS
<1> USE PipelineAssumption
<1>1. NoRun \in Runs
  <2>1. <<>> \in Seq(Stages \cup {"finish", "models", "snapshot"})
    OBVIOUS
  <2> QED
    BY <2>1 DEF NoRun, Runs
<1>2. meas \in [Params -> [Hours -> Values]]
  BY DEF Init, Values
<1>3. DOMAIN verdict = {}
  BY DEF Init
<1>4. now \in Hours /\ collected \in [Params -> Hours \cup {Never}] /\ model \in 1..MaxModel
  BY DEF Init, Hours
<1>5. release.set = {} /\ snapshot = {}
  BY DEF Init, NoRelease
<1>6. runs \in 0..MaxRuns /\ tasks \in 0..MaxTasks /\ faults \in 0..MaxFaults
  BY DEF Init
<1>7. draft \in [Owners -> Drafts]
  BY DEF Init, NoDraft, Drafts
<1> QED
  BY <1>1, <1>2, <1>3, <1>4, <1>5, <1>6, <1>7 DEF Init, TypeOK, forecasts

\* The rest of a run is a run, whatever else its row says.
LEMMA RestOfRun ==
  ASSUME run \in Runs, NEW r,
         \/ run.todo # <<>> /\ r = [run EXCEPT !.todo = Tail(@)]
         \/ run.todo # <<>> /\ r = [run EXCEPT !.todo = Tail(@), !.usable = @ /\ Whole]
         \/ r = Ended
         \/ /\ run.todo # <<>>
            /\ r = [Ended EXCEPT
                      !.status = IF run.errors THEN "partial_success" ELSE "success",
                      !.todo = IF run.kind = "hourly_pipeline" \/ run.usable THEN Tail(run.todo)
                               ELSE @]
  PROVE  r \in Runs
<1>1. /\ run.todo # <<>> => Tail(run.todo) \in Seq(Stages \cup {"finish", "models", "snapshot"})
      /\ <<>> \in Seq(Stages \cup {"finish", "models", "snapshot"})
  BY DEF Runs
<1>2. (run.usable /\ Whole) \in BOOLEAN
  OBVIOUS
<1>3. Ended \in Runs
  BY <1>1 DEF Ended, Runs
<1>4. CASE r = Ended
  BY <1>3, <1>4
<1>5. CASE \/ run.todo # <<>> /\ r = [run EXCEPT !.todo = Tail(@)]
           \/ run.todo # <<>> /\ r = [run EXCEPT !.todo = Tail(@), !.usable = @ /\ Whole]
  BY <1>1, <1>2, <1>5 DEF Runs
<1>6. CASE /\ run.todo # <<>>
           /\ r = [Ended EXCEPT
                      !.status = IF run.errors THEN "partial_success" ELSE "success",
                      !.todo = IF run.kind = "hourly_pipeline" \/ run.usable THEN Tail(run.todo)
                               ELSE @]
  <2>1. PICK e \in Runs : e = Ended
    BY <1>3
  <2>2. PICK said, todo :
          /\ said = (IF run.errors THEN "partial_success" ELSE "success")
          /\ todo = IF run.kind = "hourly_pipeline" \/ run.usable THEN Tail(run.todo) ELSE e.todo
    OBVIOUS
  <2>3. r = [e EXCEPT !.status = said, !.todo = todo]
    BY <1>6, <2>1, <2>2
  <2>4. /\ todo \in Seq(Stages \cup {"finish", "models", "snapshot"})
        /\ said \in {"success", "partial_success"}
    BY <1>1, <1>6, <2>2 DEF Runs
  <2> QED
    BY <2>3, <2>4 DEF Runs
<1> QED
  BY <1>4, <1>5, <1>6

-----------------------------------------------------------------------------
(* What is drafted and not committed yet                                   *)

LEMMA DroppedDraft ==
  ASSUME draft \in [Owners -> Drafts], NEW o \in Owners, draft' = Dropped(o)
  PROVE  /\ draft' \in [Owners -> Drafts]
         /\ draft'[o].set = {} /\ draft'[o].stage = "none"
         /\ \A q \in Owners : q # o => draft'[q] = draft[q]
<1>1. NoDraft \in Drafts /\ NoDraft.set = {} /\ NoDraft.stage = "none"
  BY PipelineAssumption DEF NoDraft, Drafts
<1> QED
  BY <1>1 DEF Dropped

LEMMA MovedDraft ==
  ASSUME draft \in [Owners -> Drafts], NEW o \in Owners, NEW stage \in {"snapshot", "commit"},
         Moved(o, stage)
  PROVE  /\ draft' \in [Owners -> Drafts]
         /\ draft'[o].set = draft[o].set /\ draft'[o].stage = stage
         /\ \A q \in Owners : q # o => draft'[q] = draft[q]
<1>1. PICK d \in Drafts : d = draft[o]
  OBVIOUS
<1>2. [d EXCEPT !.stage = stage] = [stage |-> stage, set |-> d.set, version |-> d.version]
  BY DEF Drafts
<1>3. draft' = [draft EXCEPT ![o] = [d EXCEPT !.stage = stage]]
  BY <1>1 DEF Moved
<1>4. [stage |-> stage, set |-> d.set, version |-> d.version] \in Drafts
  BY DEF Drafts
<1> QED
  BY <1>1, <1>2, <1>3, <1>4

LEMMA NewDraft ==
  ASSUME draft \in [Owners -> Drafts], NEW o \in Owners, NEW stage \in {"predict", "surfaces"},
         NEW F \in SUBSET Forecast, NEW version \in 1..MaxModel, Drafted(o, stage, F, version)
  PROVE  /\ draft' \in [Owners -> Drafts]
         /\ draft'[o].set = F /\ draft'[o].stage = stage
         /\ \A q \in Owners : q # o => draft'[q] = draft[q]
<1>1. [stage |-> stage, set |-> F, version |-> version] \in Drafts
  BY DEF Drafts
<1> QED
  BY <1>1 DEF Drafted

\* A prediction of the version that is active makes its rows now.
LEMMA PredictBeginsDraft ==
  ASSUME TypeOK, PredictBegins
  PROVE  \E o \in Owners, F \in SUBSET Forecast :
            /\ Drafted(o, "predict", F, model)
            /\ \A f \in F : f.target > now /\ Made(f) = now
            /\ Leads # {} => F # {}
            /\ Origin(meas, matched) # Never
<1>1. PICK o \in Owners : Drafted(o, "predict", Forecasted(meas, matched, model, now), model)
  BY DEF PredictBegins
<1>2. Origin(meas, matched) # Never
  BY DEF PredictBegins, CanPredict
<1>3. matched \in BOOLEAN /\ model \in 1..MaxModel /\ now \in Hours
  BY DEF TypeOK
<1>4. \A f \in Forecasted(meas, matched, model, now) :
         f \in Forecast /\ f.target > now /\ Made(f) = now
  BY <1>2, <1>3, ForecastedType
<1>5. Leads # {} => Forecasted(meas, matched, model, now) # {}
  BY <1>2, <1>3, ForecastedThere
<1> QED
  BY <1>1, <1>2, <1>4, <1>5

\* So do training and prediction in one transaction.
LEMMA WorkBeginsDraft ==
  ASSUME TypeOK, NEW o \in Owners, WorkBegins(o)
  PROVE  \E version \in 1..MaxModel, F \in SUBSET Forecast :
            /\ Drafted(o, "surfaces", F, version)
            /\ \A f \in F : f.target > now /\ Made(f) = now
            /\ F # {} => Origin(meas, matched) # Never
<1>1. PICK version \in Trained, sharp \in BOOLEAN :
         Drafted(o, "surfaces", Predicted(meas, matched, version, now, sharp), version)
  BY DEF WorkBegins
<1>2. version \in 1..MaxModel
  BY DEF Trained
<1>3. matched \in BOOLEAN /\ now \in Hours
  BY DEF TypeOK
<1>4. \A f \in Predicted(meas, matched, version, now, sharp) :
         /\ f \in Forecast /\ f.target > now /\ Made(f) = now
         /\ Origin(meas, matched) # Never
  BY <1>2, <1>3, ForecastedType DEF Predicted, CanPredict
<1> QED
  BY <1>1, <1>2, <1>4

\* How drafts change: one is lost or committed, moves to its next stage, or begins.
LEMMA DraftMoves ==
  ASSUME TypeOK, [Next]_vars
  PROVE  \/ draft' = draft
         \/ \E o \in Owners : draft' = Dropped(o)
         \/ \E o \in Owners, stage \in {"snapshot", "commit"} :
              draft[o].stage \in {"surfaces", "snapshot"} /\ Moved(o, stage)
         \/ PredictBegins
         \/ (FirstRunModels \/ Maintenance) /\ \E o \in Owners : WorkBegins(o)
<1> USE DEF Owners
<1>1. CASE Lose \/ Crash \/ TaskLost \/ PredictCommits \/ WorkSurfacesFail \/ WorkCommits
  BY <1>1 DEF Lose, Crash, TaskLost, PredictCommits, WorkSurfacesFail, WorkCommits
<1>2. CASE WorkSurfaces
  BY <1>2 DEF WorkSurfaces
<1>3. CASE WorkSnapshot
  BY <1>3 DEF WorkSnapshot
<1>4. CASE FirstRunModels \/ Maintenance
  BY <1>4 DEF FirstRunModels, Maintenance
<1>5. CASE UNCHANGED vars \/ Tick \/ StartHourly \/ StartFirstRun
  BY <1>5 DEF vars, Tick, StartHourly, StartFirstRun, StartRun
<1>6. CASE CollectGios \/ CollectImgw \/ BackfillImgwArchive \/ Validate \/ MatchStations
  BY <1>6 DEF CollectGios, CollectImgw, BackfillImgwArchive, Validate, MatchStations
<1>7. CASE ExportObjectStore \/ Verify \/ PredictNothing \/ PublishDocumentation
  BY <1>7 DEF ExportObjectStore, Verify, PredictNothing, PublishDocumentation
<1>8. CASE BuildSpatialSurfaces \/ BuildNoSurface \/ SurfacesFail \/ BuildSnapshot
  BY <1>8 DEF BuildSpatialSurfaces, BuildNoSurface, SurfacesFail, BuildSnapshot
<1>9. CASE FinishRun \/ FirstRunSnapshot \/ DailyMaintenance
  BY <1>9 DEF FinishRun, FirstRunSnapshot, DailyMaintenance
<1> QED
  BY <1>1, <1>2, <1>3, <1>4, <1>5, <1>6, <1>7, <1>8, <1>9 DEF Next, Step

\* What is drafted has its type, and what is new in it was made now for a later hour.
LEMMA DraftsTyped ==
  ASSUME TypeOK, [Next]_vars
  PROVE  /\ draft' \in [Owners -> Drafts]
         /\ \A q \in Owners : \A f \in draft'[q].set \ draft[q].set :
               /\ f \in Forecast /\ f.target > now /\ Made(f) = now
               /\ Origin(meas, matched) # Never
<1>0. draft \in [Owners -> Drafts] /\ model \in 1..MaxModel
  BY DEF TypeOK
<1>1. CASE draft' = draft
  BY <1>0, <1>1
<1>2. CASE \E o \in Owners : draft' = Dropped(o)
  BY <1>0, <1>2, DroppedDraft
<1>3. CASE \E o \in Owners, stage \in {"snapshot", "commit"} : Moved(o, stage)
  BY <1>0, <1>3, MovedDraft
<1>4. ASSUME NEW o \in Owners, NEW F \in SUBSET Forecast, NEW version \in 1..MaxModel,
             NEW stage \in {"predict", "surfaces"}, Drafted(o, stage, F, version),
             \A f \in F : f.target > now /\ Made(f) = now,
             F # {} => Origin(meas, matched) # Never
      PROVE  /\ draft' \in [Owners -> Drafts]
             /\ \A q \in Owners : \A f \in draft'[q].set \ draft[q].set :
                   /\ f \in Forecast /\ f.target > now /\ Made(f) = now
                   /\ Origin(meas, matched) # Never
  <2>1. /\ draft' \in [Owners -> Drafts] /\ draft'[o].set = F
        /\ \A q \in Owners : q # o => draft'[q] = draft[q]
    BY <1>0, <1>4, NewDraft
  <2> QED
    BY <1>4, <2>1
<1>5. CASE PredictBegins
  BY <1>0, <1>4, <1>5, PredictBeginsDraft
<1>6. CASE \E o \in Owners : WorkBegins(o)
  BY <1>4, <1>6, WorkBeginsDraft
<1> QED
  BY <1>1, <1>2, <1>3, <1>5, <1>6, DraftMoves

LEMMA NextTypeOK == TypeOK /\ [Next]_vars => TypeOK'
<1> SUFFICES ASSUME TypeOK, [Next]_vars PROVE TypeOK'
  OBVIOUS
<1> USE PipelineAssumption
<1>0. /\ now \in Hours /\ meas \in Tables /\ matched \in BOOLEAN /\ bundle \in BOOLEAN
      /\ collected \in [Params -> Hours \cup {Never}]
      /\ DOMAIN verdict \subseteq Forecast
      /\ \A f \in DOMAIN verdict : verdict[f] \in Hours \cup {Unlooked, Awaiting}
      /\ model \in 1..MaxModel
      /\ release.set \subseteq Forecast /\ snapshot \subseteq Forecast
      /\ draft \in [Owners -> Drafts] /\ run \in Runs
      /\ runs \in 0..MaxRuns /\ tasks \in 0..MaxTasks /\ faults \in 0..MaxFaults
  BY DEF TypeOK, Tables, forecasts
<1> SUFFICES /\ now' \in Hours /\ meas' \in Tables /\ matched' \in BOOLEAN /\ bundle' \in BOOLEAN
             /\ collected' \in [Params -> Hours \cup {Never}]
             /\ DOMAIN verdict' \subseteq Forecast
             /\ \A f \in DOMAIN verdict' : verdict'[f] \in Hours \cup {Unlooked, Awaiting}
             /\ model' \in 1..MaxModel
             /\ release'.set \subseteq Forecast /\ snapshot' \subseteq Forecast
             /\ run' \in Runs
             /\ runs' \in 0..MaxRuns /\ tasks' \in 0..MaxTasks /\ faults' \in 0..MaxFaults
  <2>1. draft' \in [Owners -> Drafts]
    BY DraftsTyped
  <2> QED
    BY <2>1 DEF TypeOK, Tables, forecasts
<1> USE DEF tables, published, counters
<1>1. CASE UNCHANGED vars
  BY <1>0, <1>1 DEF vars
<1>2. CASE Tick
  BY <1>0, <1>2 DEF Tick, Hours
<1>3. ASSUME NEW kind \in {"hourly_pipeline", "first_run_collection"},
             NEW todo \in Seq(Entries), StartRun(kind, todo)
      PROVE  TypeOK'
  <2>1. run' \in Runs
    <3>1. /\ run'.kind = kind /\ run'.status = "running" /\ run'.todo = todo
          /\ run'.known = (IF kind = "hourly_pipeline" THEN forecasts ELSE {})
          /\ run'.errors = FALSE /\ run'.usable = (kind = "first_run_collection")
          /\ run' = [kind |-> kind, status |-> "running", todo |-> todo,
                     known |-> IF kind = "hourly_pipeline" THEN forecasts ELSE {},
                     errors |-> FALSE, usable |-> (kind = "first_run_collection")]
      BY <1>3 DEF StartRun, NoRun
    <3>2. (IF kind = "hourly_pipeline" THEN forecasts ELSE {}) \in SUBSET Forecast
      BY <1>0 DEF forecasts
    <3> QED
      BY <1>0, <3>1, <3>2 DEF Runs, Entries
  <2>2. runs' \in 0..MaxRuns
    BY <1>0, <1>3 DEF StartRun
  <2> QED
    BY <1>0, <1>3, <2>1, <2>2 DEF StartRun, TypeOK, Tables, forecasts
<1>4. CASE StartHourly
  BY <1>3, <1>4, RunStarts DEF StartHourly, TypeOK, Tables, forecasts
<1>5. CASE StartFirstRun
  BY <1>3, <1>5, RunStarts DEF StartFirstRun, TypeOK, Tables, forecasts
<1>6. CASE Lose
  <2>1. PICK s \in Stages : Raises(s) /\ Fault /\ UNCHANGED <<now, tables, published>>
    BY <1>6 DEF Lose
  <2>2. Counted
    BY <2>1, CountedStage
  <2> QED
    BY <1>0, <2>1, <2>2 DEF Counted, Fault
<1>7. CASE Crash
  <2>1. run' \in Runs
    BY <1>0, <1>7, RestOfRun DEF Crash, Busy
  <2> QED
    BY <1>0, <1>7, <2>1 DEF Crash, Fault
<1>8. CASE CollectGios
  <2>0. PICK errors \in BOOLEAN :
          /\ Returns("collect_gios", errors)
          /\ IF errors THEN Fault ELSE UNCHANGED faults
          /\ \E offer \in IF errors THEN {<<>>} ELSE AirOffers :
                meas' = Inserted(meas, "air", offer)
    BY <1>8 DEF CollectGios
  <2>1. PICK offer \in AirOffers : meas' = Inserted(meas, "air", offer)
    <3>1. <<>> \in AirOffers
      BY DEF AirOffers
    <3> QED
      BY <2>0, <3>1
  <2>2. Counted
    BY <2>0, CountedStage
  <2>3. meas' \in Tables
    BY <1>0, <2>1, OffersTyped, InsertedType DEF Params
  <2>4. collected' \in [Params -> Hours \cup {Never}]
    BY <1>0, <1>8 DEF CollectGios, Params
  <2>5. faults' \in 0..MaxFaults
    BY <1>0, <2>0 DEF Fault
  <2> QED
    BY <1>0, <1>8, <2>2, <2>3, <2>4, <2>5 DEF CollectGios, Counted
<1>9. CASE CollectImgw
  <2>1. PICK offer \in WeatherOffers : meas' = Inserted(meas, "weather", offer)
    BY <1>9 DEF CollectImgw
  <2>2. Counted
    BY <1>9, CountedStage DEF CollectImgw
  <2>3. meas' \in Tables
    BY <1>0, <2>1, OffersTyped, InsertedType DEF Params
  <2>4. collected' \in [Params -> Hours \cup {Never}]
    BY <1>0, <1>9 DEF CollectImgw, Params
  <2> QED
    BY <1>0, <1>9, <2>2, <2>3, <2>4 DEF CollectImgw, Counted
<1>10. CASE BackfillImgwArchive
  <2>1. PICK offer \in ArchiveOffers("weather"), errors \in BOOLEAN :
          /\ IF errors THEN Fault ELSE UNCHANGED faults
          /\ Returns("backfill_imgw_archive", errors)
          /\ meas' = Inserted(meas, "weather", offer)
    BY <1>10 DEF BackfillImgwArchive
  <2>2. Counted
    BY <2>1, CountedStage
  <2>3. meas' \in Tables
    BY <1>0, <2>1, OffersTyped, InsertedType DEF Params
  <2>5. faults' \in 0..MaxFaults
    BY <1>0, <2>1 DEF Fault
  <2> QED
    BY <1>0, <1>10, <2>2, <2>3, <2>5 DEF BackfillImgwArchive, Counted
<1>11. CASE Validate
  <2>1. Counted
    <3>1. (\E p \in Params, h \in Hours : meas[p][h] \in {"bad", "refuted"}) \in BOOLEAN
      OBVIOUS
    <3> QED
      BY <1>11, <3>1, CountedStage DEF Validate
  <2>2. meas' \in Tables
    BY <1>0, <1>11, ValidatedType DEF Validate
  <2> QED
    BY <1>0, <1>11, <2>1, <2>2 DEF Validate, Counted
<1>12. CASE MatchStations
  <2>1. Counted
    BY <1>12, CountedStage DEF MatchStations
  <2>2. matched' \in BOOLEAN
    BY <1>12 DEF MatchStations
  <2> QED
    BY <1>0, <1>12, <2>1, <2>2 DEF MatchStations, Counted
<1>13. CASE ExportObjectStore
  <2>1. run' \in Runs
    BY <1>0, <1>13, RestOfRun DEF ExportObjectStore, Turn, At, Running
  <2>2. bundle' \in BOOLEAN
    BY <1>13 DEF ExportObjectStore
  <2> QED
    BY <1>0, <1>13, <2>1, <2>2 DEF ExportObjectStore
<1>14. CASE Verify
  <2>1. Counted
    BY <1>14, CountedStage DEF Verify
  <2>2. PICK early \in BOOLEAN : verdict' = Verified(meas, matched, verdict, now, early)
    BY <1>14 DEF Verify
  <2>3. /\ DOMAIN verdict' = DOMAIN verdict
        /\ \A f \in DOMAIN verdict : verdict'[f] \in Hours \cup {Unlooked, Awaiting}
    BY <1>0, <2>2, VerifiedKeeps
  <2> QED
    BY <1>0, <1>14, <2>1, <2>3 DEF Verify, Counted
<1>39. ASSUME NEW F \in SUBSET Forecast, verdict' = Persisted(verdict, F)
       PROVE  /\ DOMAIN verdict' \subseteq Forecast
              /\ \A f \in DOMAIN verdict' : verdict'[f] \in Hours \cup {Unlooked, Awaiting}
  <2>1. /\ DOMAIN verdict' = DOMAIN verdict \cup F
        /\ \A f \in DOMAIN verdict : verdict'[f] = verdict[f]
        /\ \A f \in F \ DOMAIN verdict : verdict'[f] = Unlooked
    BY <1>39 DEF Persisted
  <2> QED
    BY <1>0, <2>1
<1>15. CASE PredictNothing
  <2>1. (Origin(meas, matched) # Never) \in BOOLEAN
    OBVIOUS
  <2>2. Counted
    BY <1>15, <2>1, CountedStage DEF PredictNothing
  <2> QED
    BY <1>0, <1>15, <2>2 DEF PredictNothing, Counted
<1>30. CASE PredictBegins
  <2>1. tasks' \in 0..MaxTasks
    BY <1>0, <1>30 DEF PredictBegins, Alone
  <2> QED
    BY <1>0, <1>30, <2>1 DEF PredictBegins
<1>31. CASE PredictCommits
  <2>1. PICK o \in Owners :
          /\ verdict' = Persisted(verdict, draft[o].set)
          /\ run' = run \/ (At("predict") /\ run' = [run EXCEPT !.todo = Tail(@)])
    BY <1>31 DEF PredictCommits
  <2>2. run' \in Runs
    BY <1>0, <2>1, RestOfRun DEF At, Running
  <2>3. draft[o].set \subseteq Forecast
    BY <1>0 DEF Drafts
  <2>4. /\ DOMAIN verdict' \subseteq Forecast
        /\ \A f \in DOMAIN verdict' : verdict'[f] \in Hours \cup {Unlooked, Awaiting}
    BY <1>0, <1>39, <2>1, <2>3
  <2> QED
    BY <1>0, <1>31, <2>2, <2>4 DEF PredictCommits
<1>16. CASE BuildSpatialSurfaces
  <2>1. Counted
    BY <1>16, CountedStage DEF BuildSpatialSurfaces
  <2>2. release'.set \subseteq Forecast /\ faults' \in 0..MaxFaults
    BY <1>0, <1>16, PutReleaseType DEF BuildSpatialSurfaces, forecasts
  <2> QED
    BY <1>0, <1>16, <2>1, <2>2 DEF BuildSpatialSurfaces, Counted
<1>32. CASE BuildNoSurface
  <2>1. Counted
    <3>1. (forecasts # {}) \in BOOLEAN
      OBVIOUS
    <3> QED
      BY <1>32, <3>1, CountedStage DEF BuildNoSurface
  <2>2. faults' \in 0..MaxFaults
    BY <1>0, <1>32 DEF BuildNoSurface, Fails, Fault
  <2> QED
    BY <1>0, <1>32, <2>1, <2>2 DEF BuildNoSurface, Counted
<1>17. CASE SurfacesFail
  <2>1. Counted
    BY <1>17, CountedStage DEF SurfacesFail
  <2>2. release'.set \subseteq Forecast /\ faults' \in 0..MaxFaults
    BY <1>0, <1>17, PutReleaseType DEF SurfacesFail, forecasts
  <2> QED
    BY <1>0, <1>17, <2>1, <2>2 DEF SurfacesFail, Counted
<1>18. CASE PublishDocumentation
  <2>1. run' \in Runs
    BY <1>0, <1>18, RestOfRun DEF PublishDocumentation, Turn, At, Running
  <2> QED
    BY <1>0, <1>18, <2>1 DEF PublishDocumentation
<1>19. CASE BuildSnapshot
  <2>1. Counted
    BY <1>19, CountedStage DEF BuildSnapshot
  <2>2. snapshot' \subseteq Forecast
    BY <1>0, <1>19, SnapshotType DEF BuildSnapshot, forecasts
  <2> QED
    BY <1>0, <1>19, <2>1, <2>2 DEF BuildSnapshot, Counted
<1>20. CASE FinishRun
  <2>1. run' \in Runs
    BY <1>0, <1>20, RestOfRun DEF FinishRun, Turn, At, Running
  <2> QED
    BY <1>0, <1>20, <2>1 DEF FinishRun
<1>21. CASE FirstRunModels
  BY <1>0, <1>21 DEF FirstRunModels
<1>22. CASE FirstRunSnapshot
  <2>1. run' \in Runs
    BY <1>0, <1>22, RestOfRun DEF FirstRunSnapshot, After
  <2>2. snapshot' \subseteq Forecast
    BY <1>0, <1>22, SnapshotType DEF FirstRunSnapshot, forecasts
  <2> QED
    BY <1>0, <1>22, <2>1, <2>2 DEF FirstRunSnapshot
<1>23. CASE Maintenance
  <2>1. bundle' \in BOOLEAN /\ tasks' \in 0..MaxTasks
    BY <1>0, <1>23 DEF Maintenance, Upkeep
  <2> QED
    BY <1>0, <1>23, <2>1 DEF Maintenance
<1>33. ASSUME NEW o \in Owners
      PROVE  Uncommitted(o) \in SUBSET Forecast
  BY <1>0 DEF Uncommitted, Drafts, forecasts
<1>34. CASE WorkSurfaces
  <2>1. PICK o \in Owners :
          \/ PutRelease(Uncommitted(o), draft[o].version)
          \/ Fails(Uncommitted(o)) /\ UNCHANGED <<manifests, release>>
    BY <1>34 DEF WorkSurfaces
  <2>2. release'.set \subseteq Forecast /\ faults' \in 0..MaxFaults
    <3>1. CASE PutRelease(Uncommitted(o), draft[o].version)
      <4>1. PICK F \in SUBSET Forecast : PutRelease(F, draft[o].version)
        BY <1>33, <3>1
      <4> QED
        BY <1>0, <4>1, PutReleaseType
    <3>2. CASE Fails(Uncommitted(o)) /\ UNCHANGED <<manifests, release>>
      BY <1>0, <3>2 DEF Fails, Fault
    <3> QED
      BY <2>1, <3>1, <3>2
  <2> QED
    BY <1>0, <1>34, <2>2 DEF WorkSurfaces
<1>35. CASE WorkSurfacesFail
  <2>1. PICK o \in Owners :
          /\ CutRelease(Uncommitted(o), draft[o].version)
          /\ run' = Ended \/ run' = run
    BY <1>35 DEF WorkSurfacesFail
  <2>2. release'.set \subseteq Forecast /\ faults' \in 0..MaxFaults
    <3>1. PICK F \in SUBSET Forecast : CutRelease(F, draft[o].version)
      BY <1>33, <2>1
    <3> QED
      BY <1>0, <3>1, PutReleaseType
  <2>3. run' \in Runs
    BY <1>0, <2>1, RestOfRun
  <2> QED
    BY <1>0, <1>35, <2>2, <2>3 DEF WorkSurfacesFail
<1>36. CASE WorkSnapshot
  <2>1. "task" \in Owners /\ snapshot' = SnapshotOf(Uncommitted("task"))
    BY <1>36 DEF WorkSnapshot, Owners
  <2>2. snapshot' \subseteq Forecast
    BY <1>0, <1>33, <2>1, SnapshotType
  <2> QED
    BY <1>0, <1>36, <2>2 DEF WorkSnapshot
<1>37. CASE WorkCommits
  <2>1. PICK o \in Owners :
          /\ draft[o].stage = "commit"
          /\ verdict' = Persisted(verdict, draft[o].set) /\ model' = draft[o].version
          /\ run' = run \/ (run.todo # <<>> /\ run' = [run EXCEPT !.todo = Tail(@)])
    BY <1>37 DEF WorkCommits, After
  <2>2. draft[o].set \subseteq Forecast /\ model' \in 1..MaxModel
    BY <1>0, <2>1 DEF Drafts
  <2>3. /\ DOMAIN verdict' \subseteq Forecast
        /\ \A f \in DOMAIN verdict' : verdict'[f] \in Hours \cup {Unlooked, Awaiting}
    BY <1>0, <1>39, <2>1, <2>2
  <2>4. run' \in Runs
    BY <1>0, <2>1, RestOfRun
  <2> QED
    BY <1>0, <1>37, <2>2, <2>3, <2>4 DEF WorkCommits
<1>38. CASE TaskLost
  BY <1>0, <1>38 DEF TaskLost, Fault
<1>24. CASE DailyMaintenance
  <2>1. PICK air \in ArchiveOffers("air"), sky \in ArchiveOffers("weather"), early \in BOOLEAN :
          LET m == Validated(Inserted(Inserted(meas, "air", air), "weather", sky))
          IN  meas' = m /\ verdict' = Verified(m, matched, verdict, now, early)
    BY <1>24 DEF DailyMaintenance
  <2>2. meas' \in Tables
    <3>1. Inserted(meas, "air", air) \in Tables
      BY <1>0, OffersTyped, InsertedType DEF Params
    <3>2. Inserted(Inserted(meas, "air", air), "weather", sky) \in Tables
      BY <3>1, OffersTyped, InsertedType DEF Params
    <3> QED
      BY <2>1, <3>2, ValidatedType
  <2>3. verdict' = Verified(meas', matched, verdict, now, early)
    BY <2>1
  <2>4. /\ DOMAIN verdict' = DOMAIN verdict
        /\ \A f \in DOMAIN verdict : verdict'[f] \in Hours \cup {Unlooked, Awaiting}
    BY <1>0, <2>3, VerifiedKeeps
  <2> QED
    BY <1>0, <1>24, <2>2, <2>4 DEF DailyMaintenance, Upkeep
<1> QED
  BY <1>1, <1>2, <1>4, <1>5, <1>6, <1>7, <1>8, <1>9, <1>10, <1>11, <1>12, <1>13, <1>14, <1>15,
     <1>16, <1>17, <1>18, <1>19, <1>20, <1>21, <1>22, <1>23, <1>24, <1>30, <1>31, <1>32, <1>34,
     <1>35, <1>36, <1>37, <1>38 DEF Next, Step

\* The tables, the run, what is drafted and the counters keep their types, and every
\* target lies behind the first hour, whatever is rolled back or killed between a
\* prediction and its commit (pipeline.py:49-111, cli.py:2489-2882, snapshot.py:201).
THEOREM TypeCorrect == Spec => []TypeOK
<1>1. TypeOK /\ [Next]_vars => TypeOK'
  BY NextTypeOK
<1> QED
  BY <1>1, InitTypeOK, PTL DEF Spec

-----------------------------------------------------------------------------
(* The pointer and its manifest                                            *)

LEMMA PutReleaseMatches ==
  ASSUME PointerMatchesManifest, NEW F, NEW version, PutRelease(F, version)
  PROVE  PointerMatchesManifest'
<1>1. PICK S, said : /\ manifests' = WithManifest(S, said)
                     /\ release' = [set |-> S, status |-> said]
  BY DEF PutRelease
<1>2. DOMAIN manifests' = DOMAIN manifests \cup {S} /\ manifests'[S] = said
  BY <1>1 DEF WithManifest
<1>3. release'.set = S /\ release'.status = said
  BY <1>1
<1> QED
  BY <1>2, <1>3 DEF PointerMatchesManifest

\* A manifest that is put, whether or not the pointer follows, is no other one.
LEMMA CutReleaseMatches ==
  ASSUME PointerMatchesManifest, NEW F, NEW version, CutRelease(F, version)
  PROVE  PointerMatchesManifest'
<1>1. PICK S, said :
         \/ ManifestFits(S, said) /\ manifests' = WithManifest(S, said)
         \/ manifests' = manifests
  BY DEF CutRelease
<1>2. release' = release
  BY DEF CutRelease
<1>3. CASE manifests' = manifests
  BY <1>2, <1>3 DEF PointerMatchesManifest
<1>4. CASE ManifestFits(S, said) /\ manifests' = WithManifest(S, said)
  <2>1. DOMAIN manifests' = DOMAIN manifests \cup {S}
    BY <1>4 DEF WithManifest
  <2>2. \A T \in DOMAIN manifests : manifests'[T] = manifests[T]
    BY <1>4 DEF WithManifest, ManifestFits
  <2> QED
    BY <1>2, <2>1, <2>2 DEF PointerMatchesManifest
<1> QED
  BY <1>1, <1>3, <1>4

\* Who moves the pointer: the stage, or a transaction with a prediction of its own.
LEMMA ReleaseMoves ==
  ASSUME [Next]_vars
  PROVE  \/ UNCHANGED <<manifests, release>>
         \/ BuildSpatialSurfaces \/ SurfacesFail \/ WorkSurfaces \/ WorkSurfacesFail
<1> USE DEF published
<1>1. CASE UNCHANGED vars \/ Tick \/ StartHourly \/ StartFirstRun \/ Lose \/ Crash \/ TaskLost
  BY <1>1 DEF vars, Tick, StartHourly, StartFirstRun, StartRun, Lose, Crash, TaskLost
<1>2. CASE CollectGios \/ CollectImgw \/ BackfillImgwArchive \/ Validate \/ MatchStations
  BY <1>2 DEF CollectGios, CollectImgw, BackfillImgwArchive, Validate, MatchStations
<1>3. CASE ExportObjectStore \/ Verify \/ PredictNothing \/ PredictBegins \/ PredictCommits
  BY <1>3 DEF ExportObjectStore, Verify, PredictNothing, PredictBegins, PredictCommits
<1>4. CASE BuildNoSurface \/ PublishDocumentation \/ BuildSnapshot \/ FinishRun
  BY <1>4 DEF BuildNoSurface, PublishDocumentation, BuildSnapshot, FinishRun
<1>5. CASE FirstRunModels \/ Maintenance \/ WorkSnapshot \/ WorkCommits
  BY <1>5 DEF FirstRunModels, Maintenance, WorkSnapshot, WorkCommits
<1>6. CASE FirstRunSnapshot \/ DailyMaintenance
  BY <1>6 DEF FirstRunSnapshot, DailyMaintenance
<1> QED
  BY <1>1, <1>2, <1>3, <1>4, <1>5, <1>6 DEF Next, Step

LEMMA NextPointer ==
  ASSUME PointerMatchesManifest, [Next]_vars
  PROVE  PointerMatchesManifest'
<1>1. CASE UNCHANGED <<manifests, release>>
  BY <1>1 DEF PointerMatchesManifest
<1>2. CASE BuildSpatialSurfaces
  BY <1>2, PutReleaseMatches DEF BuildSpatialSurfaces
<1>3. CASE SurfacesFail
  BY <1>3, CutReleaseMatches DEF SurfacesFail
<1>4. CASE WorkSurfaces
  BY <1>1, <1>4, PutReleaseMatches DEF WorkSurfaces
<1>5. CASE WorkSurfacesFail
  BY <1>5, CutReleaseMatches DEF WorkSurfacesFail
<1> QED
  BY <1>1, <1>2, <1>3, <1>4, <1>5, ReleaseMoves

\* What the pointer says of its release is what the immutable manifest under its name
\* says, whichever stage, task or maintenance built the surfaces, whichever of them could
\* not be built, and whatever failed between manifest and pointer or was rolled back
\* behind it (service.py:615-853, local.py:50, cli.py:2817-2875).
THEOREM PipelineSafe == Spec => []Safe
<1>1. Init => PointerMatchesManifest
  BY DEF Init, PointerMatchesManifest
<1>2. PointerMatchesManifest /\ [Next]_vars => PointerMatchesManifest'
  BY NextPointer
<1>3. Spec => []PointerMatchesManifest
  BY <1>1, <1>2, PTL DEF Spec
<1> QED
  BY <1>3, TypeCorrect, PTL DEF Safe

-----------------------------------------------------------------------------
(* Forecasts and their results                                             *)

\* Nothing is measured before its hour.
Observed == \A p \in Params, h \in Hours : h > now => meas[p][h] = "absent"

\* Offers reach up to the hour that has begun.
LEMMA OffersObserved ==
  ASSUME TypeOK
  PROVE  /\ \A offer \in AirOffers : \A h \in DOMAIN offer \cap Hours : h <= now
         /\ \A offer \in WeatherOffers : \A h \in DOMAIN offer \cap Hours : h <= now
         /\ \A p \in Params : \A offer \in ArchiveOffers(p) : \A h \in DOMAIN offer \cap Hours : h <= now
<1> USE PipelineAssumption DEF Hours
<1>0. now \in Nat
  BY DEF TypeOK
<1>1. \A p, k : Lacking(p, k) \subseteq 0..k
  BY DEF Lacking
<1>2. ASSUME NEW offer \in AirOffers, NEW h \in DOMAIN offer \cap Hours
      PROVE  h <= now
  <2>1. CASE offer = <<>>
    <3>1. h \in DOMAIN <<>>
      BY <2>1
    <3> QED
      BY <3>1
  <2>2. CASE \E k \in 0..now, last \in Readings :
               offer = [g \in Lacking("air", k) |-> IF g = k THEN last ELSE "good"]
    <3>1. PICK k \in 0..now : h \in Lacking("air", k)
      BY <2>2
    <3>2. h \in 0..k
      BY <1>1, <3>1
    <3> QED
      BY <1>0, <3>1, <3>2
  <2> QED
    BY <2>1, <2>2 DEF AirOffers
<1>3. ASSUME NEW offer \in WeatherOffers, NEW h \in DOMAIN offer \cap Hours
      PROVE  h <= now
  <2>1. PICK g \in {now - 1, now} : offer \in [{g} -> Readings \ {"null"}]
    BY DEF WeatherOffers
  <2>2. h = g
    BY <2>1
  <2> QED
    BY <1>0, <2>1, <2>2
<1>4. ASSUME NEW p \in Params, NEW offer \in ArchiveOffers(p), NEW h \in DOMAIN offer \cap Hours
      PROVE  h <= now
  <2>1. CASE offer = <<>>
    <3>1. h \in DOMAIN <<>>
      BY <2>1
    <3> QED
      BY <3>1
  <2>2. CASE \E k \in 0..now : offer = [g \in Lacking(p, k) |-> "good"]
    <3>1. PICK k \in 0..now : h \in Lacking(p, k)
      BY <2>2
    <3>2. h \in 0..k
      BY <1>1, <3>1
    <3> QED
      BY <1>0, <3>1, <3>2
  <2> QED
    BY <2>1, <2>2 DEF ArchiveOffers
<1> QED
  BY <1>2, <1>3, <1>4

Blank(m, t) == \A p \in Params, h \in Hours : h > t => m[p][h] = "absent"

LEMMA InsertedBlank ==
  ASSUME NEW t \in Int, NEW m \in Tables, Blank(m, t), NEW p \in Params, NEW offer,
         \A h \in DOMAIN offer \cap Hours : h <= t
  PROVE  Blank(Inserted(m, p, offer), t)
<1>1. Hours \subseteq Int
  BY PipelineAssumption DEF Hours
<1> QED
  BY <1>1 DEF Blank, Inserted, Tables

LEMMA ValidatedBlank ==
  ASSUME NEW t, NEW m, Blank(m, t)
  PROVE  Blank(Validated(m), t)
BY DEF Blank, Validated

LEMMA NextObserved ==
  ASSUME TypeOK, Observed, [Next]_vars
  PROVE  Observed'
<1> USE DEF tables
<1>0. meas \in Tables /\ now \in Hours /\ now \in Int /\ Blank(meas, now)
  BY PipelineAssumption DEF TypeOK, Tables, Observed, Blank, Hours
<1>1. CASE UNCHANGED <<meas, now>>
  BY <1>1 DEF Observed
<1>2. CASE Tick
  <2>1. now' = now + 1 /\ meas' = meas
    BY <1>2 DEF Tick
  <2>2. Hours \subseteq Int
    BY PipelineAssumption DEF Hours
  <2> QED
    BY <1>0, <2>1, <2>2 DEF Observed
<1>3. CASE Blank(meas', now) /\ now' = now
  BY <1>3 DEF Observed, Blank
<1>4. CASE CollectGios
  <2>1. PICK offer \in AirOffers : meas' = Inserted(meas, "air", offer)
    BY <1>4 DEF CollectGios, AirOffers
  <2>2. Blank(meas', now)
    BY <1>0, <2>1, OffersObserved, InsertedBlank DEF Params
  <2> QED
    BY <1>3, <1>4, <2>2 DEF CollectGios
<1>5. CASE CollectImgw
  <2>1. PICK offer \in WeatherOffers : meas' = Inserted(meas, "weather", offer)
    BY <1>5 DEF CollectImgw
  <2>2. Blank(meas', now)
    BY <1>0, <2>1, OffersObserved, InsertedBlank DEF Params
  <2> QED
    BY <1>3, <1>5, <2>2 DEF CollectImgw
<1>6. CASE BackfillImgwArchive
  <2>1. PICK offer \in ArchiveOffers("weather") : meas' = Inserted(meas, "weather", offer)
    BY <1>6 DEF BackfillImgwArchive
  <2>2. Blank(meas', now)
    BY <1>0, <2>1, OffersObserved, InsertedBlank DEF Params
  <2> QED
    BY <1>3, <1>6, <2>2 DEF BackfillImgwArchive
<1>7. CASE Validate
  BY <1>0, <1>3, <1>7, ValidatedBlank DEF Validate
<1>8. CASE DailyMaintenance
  <2>1. PICK air \in ArchiveOffers("air"), sky \in ArchiveOffers("weather") :
          meas' = Validated(Inserted(Inserted(meas, "air", air), "weather", sky))
    BY <1>8 DEF DailyMaintenance
  <2>2. /\ Inserted(meas, "air", air) \in Tables
        /\ Blank(Inserted(meas, "air", air), now)
    BY <1>0, OffersObserved, OffersTyped, InsertedType, InsertedBlank DEF Params
  <2>3. Blank(Inserted(Inserted(meas, "air", air), "weather", sky), now)
    BY <1>0, <2>2, OffersObserved, InsertedBlank DEF Params
  <2>4. Blank(meas', now)
    BY <2>1, <2>3, ValidatedBlank
  <2> QED
    BY <1>3, <1>8, <2>4 DEF DailyMaintenance
<1>9. CASE UNCHANGED vars \/ StartHourly \/ StartFirstRun \/ Lose \/ Crash \/ TaskLost
  BY <1>1, <1>9 DEF vars, StartHourly, StartFirstRun, StartRun, Lose, Crash, TaskLost
<1>10. CASE MatchStations \/ ExportObjectStore \/ Verify \/ PredictNothing \/ PredictBegins
  BY <1>1, <1>10 DEF MatchStations, ExportObjectStore, Verify, PredictNothing, PredictBegins
<1>11. CASE PredictCommits \/ BuildSpatialSurfaces \/ BuildNoSurface \/ SurfacesFail
  BY <1>1, <1>11 DEF PredictCommits, BuildSpatialSurfaces, BuildNoSurface, SurfacesFail
<1>12. CASE PublishDocumentation \/ BuildSnapshot \/ FinishRun \/ FirstRunModels \/ Maintenance
  BY <1>1, <1>12 DEF PublishDocumentation, BuildSnapshot, FinishRun, FirstRunModels, Maintenance
<1>13. CASE WorkSurfaces \/ WorkSurfacesFail \/ WorkSnapshot \/ WorkCommits \/ FirstRunSnapshot
  BY <1>1, <1>13 DEF WorkSurfaces, WorkSurfacesFail, WorkSnapshot, WorkCommits, FirstRunSnapshot
<1> QED
  BY <1>2, <1>4, <1>5, <1>6, <1>7, <1>8, <1>9, <1>10, <1>11, <1>12, <1>13 DEF Next, Step

\* No step takes a forecast back or revises its result; what comes into the table was
\* drafted before.
LEMMA ForecastsGrow ==
  ASSUME TypeOK, [Next]_vars
  PROVE  /\ forecasts \subseteq forecasts' /\ forecasts' \subseteq Created
         /\ \A f \in forecasts : verdict[f] \in Hours => verdict'[f] = verdict[f]
<1> USE DEF forecasts, tables
<1>0. /\ now \in Hours /\ matched \in BOOLEAN
      /\ DOMAIN verdict \subseteq Forecast
      /\ \A f \in DOMAIN verdict : verdict[f] \in Hours \cup {Unlooked, Awaiting}
  BY DEF TypeOK
<1>a. DOMAIN verdict \subseteq Created
  BY DEF Created
<1>1. CASE UNCHANGED verdict
  BY <1>1, <1>a
<1>2. CASE Verify
  <2>1. PICK early \in BOOLEAN : verdict' = Verified(meas, matched, verdict, now, early)
    BY <1>2 DEF Verify
  <2> QED
    BY <1>0, <1>a, <2>1, VerifiedKeeps
<1>3. CASE PredictCommits \/ WorkCommits
  <2>1. PICK o \in Owners : verdict' = Persisted(verdict, draft[o].set)
    BY <1>3 DEF PredictCommits, WorkCommits
  <2>2. draft[o].set \subseteq Created
    BY DEF Created
  <2>3. /\ DOMAIN verdict' = DOMAIN verdict \cup draft[o].set
        /\ \A f \in DOMAIN verdict : verdict'[f] = verdict[f]
    BY <2>1 DEF Persisted
  <2> QED
    BY <1>a, <2>2, <2>3
<1>5. CASE DailyMaintenance
  <2>1. PICK early \in BOOLEAN : verdict' = Verified(meas', matched, verdict, now, early)
    BY <1>5 DEF DailyMaintenance
  <2> QED
    BY <1>0, <1>a, <2>1, VerifiedKeeps
<1>6. CASE UNCHANGED vars \/ Tick \/ StartHourly \/ StartFirstRun \/ Lose \/ Crash \/ TaskLost
  BY <1>1, <1>6 DEF vars, Tick, StartHourly, StartFirstRun, StartRun, Lose, Crash, TaskLost
<1>7. CASE CollectGios \/ CollectImgw \/ BackfillImgwArchive \/ Validate \/ MatchStations
  BY <1>1, <1>7 DEF CollectGios, CollectImgw, BackfillImgwArchive, Validate, MatchStations
<1>8. CASE ExportObjectStore \/ PredictNothing \/ PredictBegins \/ BuildSpatialSurfaces
  BY <1>1, <1>8 DEF ExportObjectStore, PredictNothing, PredictBegins, BuildSpatialSurfaces
<1>9. CASE BuildNoSurface \/ SurfacesFail \/ PublishDocumentation \/ BuildSnapshot
  BY <1>1, <1>9 DEF BuildNoSurface, SurfacesFail, PublishDocumentation, BuildSnapshot
<1>10. CASE FinishRun \/ FirstRunModels \/ Maintenance \/ WorkSurfaces \/ WorkSurfacesFail
  BY <1>1, <1>10 DEF FinishRun, FirstRunModels, Maintenance, WorkSurfaces, WorkSurfacesFail
<1>11. CASE WorkSnapshot \/ FirstRunSnapshot
  BY <1>1, <1>11 DEF WorkSnapshot, FirstRunSnapshot
<1> QED
  BY <1>2, <1>3, <1>5, <1>6, <1>7, <1>8, <1>9, <1>10, <1>11 DEF Next, Step

\* A forecast that no one had yet was made now, for a later hour, from something readable.
LEMMA CreatedGrows ==
  ASSUME TypeOK, [Next]_vars, NEW f \in Created' \ Created
  PROVE  /\ f \in Forecast /\ f.target > now /\ Made(f) = now
         /\ Origin(meas, matched) # Never
<1>1. f \notin forecasts'
  BY ForecastsGrow
<1>2. PICK q \in Owners : f \in draft'[q].set
  BY <1>1 DEF Created
<1>3. f \notin draft[q].set
  BY DEF Created
<1> QED
  BY <1>2, <1>3, DraftsTyped

\* A forecast is created before its target hour has begun and before any measurement of
\* that hour is there, and no row is committed that was not created so: in a stage, a
\* task, first-run or a maintenance, the commit of which may come hours later
\* (predictor.py:374-522, time_contract.py:61).
THEOREM ForecastsWithoutHindsight == Spec => NoHindsight
<1>1. Init => TypeOK /\ Observed
  <2>1. Init => Observed
    BY DEF Init, Observed
  <2> QED
    BY <2>1, InitTypeOK
<1>2. TypeOK /\ Observed /\ [Next]_vars => (TypeOK /\ Observed)'
  BY NextTypeOK, NextObserved
<1>3. TypeOK /\ Observed /\ [Next]_vars =>
        [\A f \in Created' \ Created :
           f.target > now /\ (f.target \in Hours => meas[f.param][f.target] = "absent")]_vars
  <2> SUFFICES ASSUME TypeOK, Observed, [Next]_vars, NEW f \in Created' \ Created
               PROVE  f.target > now /\ (f.target \in Hours => meas[f.param][f.target] = "absent")
    OBVIOUS
  <2>1. f \in Forecast /\ f.target > now
    BY CreatedGrows
  <2>2. f.param \in Params
    BY <2>1 DEF Forecast
  <2> QED
    BY <2>1, <2>2 DEF Observed
<1> QED
  BY <1>1, <1>2, <1>3, PTL DEF Spec, NoHindsight

\* A result that verification has computed is never computed again and never taken back
\* (verifier.py:107-172).
THEOREM ResultsAreFinal == Spec => VerdictIsFinal
<1>1. TypeOK /\ [Next]_vars =>
        [\A f \in forecasts : verdict[f] \in Hours =>
           f \in forecasts' /\ verdict'[f] = verdict[f]]_vars
  BY ForecastsGrow
<1> QED
  BY <1>1, TypeCorrect, PTL DEF Spec, VerdictIsFinal

-----------------------------------------------------------------------------
(* A green run serves fresh forecasts                                      *)

LEMMA SurfacesReach ==
  ASSUME NEW F \in SUBSET Forecast, \A f \in F : Made(f) \in Hours, NEW g \in F
  PROVE  \E f \in Surfaces(F) : f.param = g.param /\ f.lead = g.lead /\ Later(f, g)
<1> DEFINE G == {f \in F : f.param = g.param /\ f.lead = g.lead}
<1>0. /\ g \in G
      /\ \A f \in G : f \in F /\ f.origin \in Hours /\ Made(f) \in Hours /\ f.model \in 1..MaxModel
      /\ \A f \in G : f.origin \in Int /\ Made(f) \in Int /\ f.model \in Int
  BY PipelineAssumption DEF Forecast, Hours
<1>1. PICK o \in {f.origin : f \in G} : \A q \in {f.origin : f \in G} : q <= o
  <2>1. {f.origin : f \in G} \in SUBSET Hours /\ {f.origin : f \in G} # {}
    BY <1>0
  <2> QED
    BY <2>1, LastHour
<1> DEFINE H == {f \in G : f.origin = o}
<1>2. H # {} /\ \A f \in G : f.origin <= o
  BY <1>1
<1>3. PICK k \in {Made(f) : f \in H} : \A q \in {Made(f) : f \in H} : q <= k
  <2>1. {Made(f) : f \in H} \in SUBSET Hours /\ {Made(f) : f \in H} # {}
    BY <1>0, <1>2
  <2> HIDE DEF H
  <2> QED
    BY <2>1, LastHour
<1> DEFINE I == {f \in H : Made(f) = k}
<1>4. I # {} /\ \A f \in H : Made(f) <= k
  BY <1>3
<1>5. PICK n \in {MaxModel - f.model : f \in I} : \A q \in {MaxModel - f.model : f \in I} : n <= q
  <2>1. \A f \in I : MaxModel - f.model \in Nat
    BY <1>0, PipelineAssumption
  <2>2. {MaxModel - f.model : f \in I} \in SUBSET Nat /\ {MaxModel - f.model : f \in I} # {}
    BY <1>4, <2>1
  <2> HIDE DEF I
  <2> QED
    BY <2>2, LeastNatural
<1>6. PICK f \in I : n = MaxModel - f.model
  BY <1>5
<1>7. \A e \in I : e.model <= f.model
  <2> SUFFICES ASSUME NEW e \in I PROVE e.model <= f.model
    OBVIOUS
  <2>1. n <= MaxModel - e.model
    BY <1>5
  <2>2. e.model \in Int /\ f.model \in Int /\ MaxModel \in Int
    BY <1>0, <1>6, PipelineAssumption
  <2> QED
    BY <1>6, <2>1, <2>2
<1>8. f \in G /\ \A e \in G : Later(f, e)
  <2> SUFFICES ASSUME NEW e \in G PROVE f \in G /\ Later(f, e)
    BY <1>0
  <2>1. f \in G /\ f.origin = o /\ Made(f) = k
    BY <1>6
  <2>2. e.origin <= o /\ (e.origin = o => e \in H)
    BY <1>2
  <2>3. e \in H => Made(e) <= k
    BY <1>4
  <2>4. e \in H /\ Made(e) = k => e.model <= f.model
    BY <1>7
  <2>5. o \in Int /\ k \in Int /\ e.origin \in Int /\ Made(e) \in Int /\ e.model \in Int
        /\ f.model \in Int
    BY <1>0, <2>1
  <2> HIDE DEF G, H, I
  <2> QED
    BY <2>1, <2>2, <2>3, <2>4, <2>5 DEF Later
<1>9. f \in F /\ f.param = g.param /\ f.lead = g.lead /\ Later(f, g)
  BY <1>0, <1>8
<1>10. f \in Surfaces(F)
  <2> SUFFICES ASSUME NEW e \in F, f.param = e.param, f.lead = e.lead
               PROVE  Later(f, e)
    BY <1>9 DEF Surfaces
  <2>1. e \in G
    BY <1>9
  <2> QED
    BY <1>8, <2>1
<1> QED
  BY <1>9, <1>10

\* The stages of the hourly run, with its end, by how many are left.
Plan == Append(HourlyStages, "finish")

Stage(left) == Plan[12 - left]

LEMMA PlanStages ==
  /\ Plan \in Seq(Entries) /\ Len(Plan) = 11
  /\ \A n \in 1..11 :
       /\ Stage(n) = "validate" <=> n = 9
       /\ Stage(n) = "predict" <=> n = 5
       /\ Stage(n) = "build_spatial_surfaces" <=> n = 4
       /\ Stage(n) = "build_snapshot" <=> n = 2
       /\ Stage(n) = "finish" <=> n = 1
       /\ Stage(n) \notin {"models", "snapshot"}
<1>1. /\ Len(HourlyStages) = 10 /\ HourlyStages \in Seq(Entries) /\ "finish" \in Entries
  BY StageNames DEF HourlyStages, Entries
<1>2. Plan \in Seq(Entries) /\ Len(Plan) = 11
  <2>1. \A s \in Seq(Entries), e \in Entries : Len(Append(s, e)) = Len(s) + 1
    OBVIOUS
  <2>2. Len(Plan) = Len(HourlyStages) + 1
    BY <1>1, <2>1 DEF Plan
  <2> QED
    BY <1>1, <2>2, RunStarts DEF Plan
<1>3. /\ Plan[1] = "collect_gios" /\ Plan[2] = "collect_imgw" /\ Plan[3] = "validate"
      /\ Plan[4] = "match_stations" /\ Plan[5] = "export_object_store" /\ Plan[6] = "verify"
      /\ Plan[7] = "predict" /\ Plan[8] = "build_spatial_surfaces"
      /\ Plan[9] = "publish_documentation" /\ Plan[10] = "build_snapshot"
      /\ Plan[11] = "finish"
  BY DEF Plan, HourlyStages
<1>4. \A n \in 1..11 : n \in {1, 2, 3, 4, 5, 6, 7, 8, 9, 10, 11}
  OBVIOUS
<1> QED
  BY <1>2, <1>3, <1>4 DEF Stage

Hourly == run.kind = "hourly_pipeline" /\ run.status = "running" /\ run.todo # <<>>

\* A run of the pipeline has a tail of its plan before it, nobody holds the write lock for
\* long beside it, and the forecasts it found are still there.
InPlan ==
    Hourly => /\ Len(run.todo) \in 1..11
              /\ \A i \in 1..Len(run.todo) : run.todo[i] = Stage(Len(run.todo) + 1 - i)
              /\ ~Working /\ run.known \subseteq forecasts

\* A prediction that was not refused has rows to commit.
Drafting == \A o \in Owners : draft[o].stage = "predict" => draft[o].set # {} \/ Leads = {}

\* Forecasts are made in hours that have begun.
Dated == \A f \in Created : Made(f) \in Hours

\* What the pointer and the dashboard show, be it of forecasts rolled back since.
Shown == release.set \cup snapshot

\* There is a readable value, or a refuted one: what forecasts and surfaces come from.
Sighted ==
    \E p \in Params, h \in Hours :
        meas[p][h] \in {"good", "bad", "refuted"} /\ (p = "air" \/ matched)

Sourced == Shown \cup Created # {} => Sighted

\* A value that no validation will take away.
Sound == \E p \in Params, h \in Hours : meas[p][h] = "good" /\ (p = "air" \/ matched)

\* The release is of the forecasts in the table, and every one the run found is in it, has
\* a successor there, or is named as one whose surface could not be built.
Reached ==
    /\ release.set \subseteq forecasts
    /\ run.known # {} => release.set # {}
    /\ \A g \in run.known :
         /\ \E f \in release.set \cup release.status.failed : SameSurface(f, g) /\ Later(f, g)
         /\ \A f \in release.set : SameSurface(f, g) => Later(f, g)

\* What a run without errors has established: by its validation that nothing is shown, or
\* that there is something to predict from; by its prediction that there are forecasts; by
\* its surfaces that they are served; by its snapshot that the dashboard shows them.
Established ==
    Hourly /\ ~run.errors =>
        /\ Len(run.todo) <= 8 => Shown = {} \/ forecasts # {} \/ Sound
        /\ Len(run.todo) <= 4 => Shown = {} \/ forecasts # {}
        /\ Len(run.todo) <= 3 => Reached
        /\ Len(run.todo) <= 1 => snapshot \subseteq forecasts

GreenInv == TypeOK /\ InPlan /\ Drafting /\ Dated /\ Sourced /\ Established

\* A value stays good or doubtful once it is there, and a match stays.
LEMMA MeasuredStays ==
  ASSUME TypeOK, [Next]_vars
  PROVE  /\ \A p \in Params, h \in Hours :
              /\ meas[p][h] = "good" => meas'[p][h] = "good"
              /\ meas[p][h] \in {"bad", "refuted"} => meas'[p][h] \in {"bad", "refuted"}
         /\ matched => matched'
<1> USE DEF tables
<1> DEFINE Stays(m, n) == \A p \in Params, h \in Hours :
              /\ m[p][h] = "good" => n[p][h] = "good"
              /\ m[p][h] \in {"bad", "refuted"} => n[p][h] \in {"bad", "refuted"}
<1>0. meas \in Tables
  BY DEF TypeOK, Tables
<1>1. ASSUME NEW m \in Tables, NEW q \in Params, NEW offer
      PROVE  Stays(m, Inserted(m, q, offer))
  BY DEF Inserted, Tables
<1>2. ASSUME NEW m \in Tables
      PROVE  Stays(m, Validated(m))
  BY DEF Validated, Tables
<1>3. CASE meas' = meas /\ (matched => matched')
  BY <1>3
<1>4. CASE CollectGios \/ CollectImgw \/ BackfillImgwArchive
  <2>1. matched' = matched
    BY <1>4 DEF CollectGios, CollectImgw, BackfillImgwArchive
  <2>2. CASE CollectGios
    <3>1. PICK offer \in AirOffers : meas' = Inserted(meas, "air", offer)
      BY <2>2 DEF CollectGios, AirOffers
    <3> QED
      BY <1>0, <1>1, <2>1, <3>1 DEF Params
  <2>3. CASE CollectImgw
    <3>1. PICK offer \in WeatherOffers : meas' = Inserted(meas, "weather", offer)
      BY <2>3 DEF CollectImgw
    <3> QED
      BY <1>0, <1>1, <2>1, <3>1 DEF Params
  <2>4. CASE BackfillImgwArchive
    <3>1. PICK offer \in ArchiveOffers("weather") : meas' = Inserted(meas, "weather", offer)
      BY <2>4 DEF BackfillImgwArchive
    <3> QED
      BY <1>0, <1>1, <2>1, <3>1 DEF Params
  <2> QED
    BY <1>4, <2>2, <2>3, <2>4
<1>5. CASE Validate
  BY <1>0, <1>2, <1>5 DEF Validate
<1>6. CASE DailyMaintenance
  <2>1. PICK air \in ArchiveOffers("air"), sky \in ArchiveOffers("weather") :
          meas' = Validated(Inserted(Inserted(meas, "air", air), "weather", sky))
    BY <1>6 DEF DailyMaintenance
  <2> DEFINE a == Inserted(meas, "air", air)
             b == Inserted(a, "weather", sky)
  <2>2. a \in Tables /\ Stays(meas, a)
    BY <1>0, <1>1, OffersTyped, InsertedType DEF Params
  <2>3. b \in Tables /\ Stays(a, b)
    <3> HIDE DEF a
    <3> QED
      BY <2>2, <1>1, OffersTyped, InsertedType DEF Params
  <2>4. Stays(b, Validated(b))
    <3> HIDE DEF b
    <3> QED
      BY <2>3, <1>2
  <2>5. meas' = Validated(b) /\ matched' = matched
    BY <2>1, <1>6 DEF DailyMaintenance
  <2> HIDE DEF a, b
  <2> QED
    BY <2>2, <2>3, <2>4, <2>5
<1>7. CASE MatchStations
  BY <1>3, <1>7 DEF MatchStations
<1>8. CASE UNCHANGED vars \/ Tick \/ StartHourly \/ StartFirstRun \/ Lose \/ Crash \/ TaskLost
  BY <1>3, <1>8 DEF vars, Tick, StartHourly, StartFirstRun, StartRun, Lose, Crash, TaskLost
<1>9. CASE ExportObjectStore \/ Verify \/ PredictNothing \/ PredictBegins \/ PredictCommits
  BY <1>3, <1>9 DEF ExportObjectStore, Verify, PredictNothing, PredictBegins, PredictCommits
<1>10. CASE BuildSpatialSurfaces \/ BuildNoSurface \/ SurfacesFail \/ PublishDocumentation
  BY <1>3, <1>10 DEF BuildSpatialSurfaces, BuildNoSurface, SurfacesFail, PublishDocumentation
<1>11. CASE BuildSnapshot \/ FinishRun \/ FirstRunModels \/ FirstRunSnapshot \/ Maintenance
  BY <1>3, <1>11 DEF BuildSnapshot, FinishRun, FirstRunModels, FirstRunSnapshot, Maintenance
<1>12. CASE WorkSurfaces \/ WorkSurfacesFail \/ WorkSnapshot \/ WorkCommits
  BY <1>3, <1>12 DEF WorkSurfaces, WorkSurfacesFail, WorkSnapshot, WorkCommits
<1> HIDE DEF Stays
<1> QED
  BY <1>4, <1>5, <1>6, <1>7, <1>8, <1>9, <1>10, <1>11, <1>12 DEF Next, Step

LEMMA SightedStays ==
  ASSUME TypeOK, [Next]_vars
  PROVE  (Sighted => Sighted') /\ (Sound => Sound')
BY MeasuredStays DEF Sighted, Sound

\* Where something can be predicted, something can be read; and from a sound value
\* something can be predicted.
LEMMA OriginSighted ==
  ASSUME TypeOK
  PROVE  /\ Origin(meas, matched) # Never => Sighted
         /\ Sound => Origin(meas, matched) # Never
<1>1. matched \in BOOLEAN
  BY DEF TypeOK
<1>2. ASSUME Origin(meas, matched) # Never
      PROVE  Sighted
  <2>1. PICK p \in Params : Readable(meas, p, matched) # {}
    BY <1>1, <1>2, OriginType DEF Sources
  <2>2. PICK h : h \in Readable(meas, p, matched)
    BY <2>1
  <2>3. (p = "air" \/ matched) /\ h \in Valid(meas, p)
    BY <1>1, <2>2 DEF Readable, Params
  <2>4. h \in Hours /\ meas[p][h] \in {"good", "bad", "refuted"}
    BY <2>3 DEF Valid
  <2> QED
    BY <2>3, <2>4 DEF Sighted
<1>3. ASSUME Sound
      PROVE  Origin(meas, matched) # Never
  <2>1. PICK p \in Params, h \in Hours : meas[p][h] = "good" /\ (p = "air" \/ matched)
    BY <1>3 DEF Sound
  <2>2. h \in Readable(meas, p, matched)
    BY <2>1 DEF Readable, Valid
  <2>3. Sources(meas, matched) # {}
    BY <2>1, <2>2 DEF Sources
  <2> QED
    BY <1>1, <2>3, OriginType
<1> QED
  BY <1>2, <1>3

\* A validation that finds nothing doubtful leaves what it saw sound.
Doubtful == \E p \in Params, h \in Hours : meas[p][h] \in {"bad", "refuted"}

LEMMA SightedSound ==
  ASSUME TypeOK, Sighted, ~Doubtful
  PROVE  Sound
BY DEF Sighted, Doubtful, Sound

\* Who writes a snapshot: the stage, a maintenance before its commit, or first-run.
LEMMA SnapshotMoves ==
  ASSUME [Next]_vars
  PROVE  snapshot' = snapshot \/ BuildSnapshot \/ WorkSnapshot \/ FirstRunSnapshot
<1> USE DEF published
<1>1. CASE UNCHANGED vars \/ Tick \/ StartHourly \/ StartFirstRun \/ Lose \/ Crash \/ TaskLost
  BY <1>1 DEF vars, Tick, StartHourly, StartFirstRun, StartRun, Lose, Crash, TaskLost
<1>2. CASE CollectGios \/ CollectImgw \/ BackfillImgwArchive \/ Validate \/ MatchStations
  BY <1>2 DEF CollectGios, CollectImgw, BackfillImgwArchive, Validate, MatchStations
<1>3. CASE ExportObjectStore \/ Verify \/ PredictNothing \/ PredictBegins \/ PredictCommits
  BY <1>3 DEF ExportObjectStore, Verify, PredictNothing, PredictBegins, PredictCommits
<1>4. CASE BuildSpatialSurfaces \/ BuildNoSurface \/ SurfacesFail \/ PublishDocumentation
  BY <1>4 DEF BuildSpatialSurfaces, BuildNoSurface, SurfacesFail, PublishDocumentation
<1>5. CASE FinishRun \/ FirstRunModels \/ Maintenance \/ DailyMaintenance
  BY <1>5 DEF FinishRun, FirstRunModels, Maintenance, DailyMaintenance
<1>6. CASE WorkSurfaces \/ WorkSurfacesFail \/ WorkCommits
  BY <1>6 DEF WorkSurfaces, WorkSurfacesFail, WorkCommits
<1> QED
  BY <1>1, <1>2, <1>3, <1>4, <1>5, <1>6 DEF Next, Step

\* A release that is put is of the forecasts it is made of, and tells of each of them.
LEMMA PutReleaseReaches ==
  ASSUME NEW F \in SUBSET Forecast, NEW version, PutRelease(F, version)
  PROVE  /\ release'.set \subseteq F /\ release'.set # {}
         /\ (\A f \in F : Made(f) \in Hours) =>
              \A g \in F :
                /\ \E f \in release'.set \cup release'.status.failed :
                      SameSurface(f, g) /\ Later(f, g)
                /\ \A f \in release'.set : SameSurface(f, g) => Later(f, g)
<1>1. PICK S \in (SUBSET Surfaces(F)) \ {{}} :
         release' = [set |-> S, status |-> Status(version, Surfaces(F) \ S)]
  BY DEF PutRelease
<1>2. release'.set = S /\ release'.status.failed = Surfaces(F) \ S
  BY <1>1 DEF Status
<1>3. S \subseteq Surfaces(F) /\ S # {} /\ S \cup (Surfaces(F) \ S) = Surfaces(F)
  OBVIOUS
<1>4. ASSUME \A f \in F : Made(f) \in Hours, NEW g \in F
      PROVE  /\ \E f \in Surfaces(F) : SameSurface(f, g) /\ Later(f, g)
             /\ \A f \in S : SameSurface(f, g) => Later(f, g)
  BY <1>3, <1>4, SurfacesReach DEF SameSurface, Surfaces
<1> QED
  BY <1>2, <1>3, <1>4, SurfacesThere

\* The pointer and the dashboard show forecasts that were created, and keep what they show.
LEMMA ShownFrom ==
  ASSUME TypeOK, [Next]_vars
  PROVE  Shown' \subseteq Shown \cup Created
<1>0. /\ forecasts \in SUBSET Forecast /\ forecasts \subseteq Created
      /\ \A o \in Owners : Uncommitted(o) \in SUBSET Forecast /\ Uncommitted(o) \subseteq Created
  BY DEF TypeOK, Drafts, Uncommitted, Created
<1>1. release'.set \subseteq release.set \cup Created
  <2>1. CASE UNCHANGED <<manifests, release>>
    BY <2>1
  <2>2. CASE SurfacesFail \/ WorkSurfacesFail
    BY <2>2 DEF SurfacesFail, WorkSurfacesFail, CutRelease
  <2>3. ASSUME NEW F \in SUBSET Forecast, F \subseteq Created, NEW version, PutRelease(F, version)
        PROVE  release'.set \subseteq Created
    BY <2>3, PutReleaseReaches
  <2>4. CASE BuildSpatialSurfaces
    BY <1>0, <2>3, <2>4 DEF BuildSpatialSurfaces
  <2>5. CASE WorkSurfaces
    BY <1>0, <2>3, <2>5 DEF WorkSurfaces
  <2> QED
    BY <2>1, <2>2, <2>4, <2>5, ReleaseMoves
<1>2. snapshot' \subseteq snapshot \cup Created
  <2>1. CASE BuildSnapshot \/ FirstRunSnapshot
    BY <1>0, <2>1, SnapshotType DEF BuildSnapshot, FirstRunSnapshot
  <2>2. CASE WorkSnapshot
    <3>1. "task" \in Owners /\ snapshot' = SnapshotOf(Uncommitted("task"))
      BY <2>2 DEF WorkSnapshot, Owners
    <3> QED
      BY <1>0, <3>1, SnapshotType
  <2> QED
    BY <2>1, <2>2, SnapshotMoves
<1> QED
  BY <1>1, <1>2 DEF Shown

LEMMA NextSourced ==
  ASSUME TypeOK, Sourced, [Next]_vars
  PROVE  Sourced'
<1> SUFFICES ASSUME NEW f \in Shown' \cup Created' PROVE Sighted
  BY SightedStays DEF Sourced
<1>1. CASE f \in Shown \cup Created
  BY <1>1 DEF Sourced
<1>2. CASE f \notin Shown \cup Created
  <2>1. f \in Created' \ Created
    BY <1>2, ShownFrom
  <2> QED
    BY <2>1, CreatedGrows, OriginSighted
<1> QED
  BY <1>1, <1>2

LEMMA NextDated ==
  ASSUME TypeOK, Dated, [Next]_vars
  PROVE  Dated'
<1>1. now \in Hours
  BY DEF TypeOK
<1> SUFFICES ASSUME NEW f \in Created' PROVE Made(f) \in Hours
  BY DEF Dated, Made
<1> QED
  BY <1>1, CreatedGrows DEF Dated

LEMMA NextDrafting ==
  ASSUME TypeOK, Drafting, [Next]_vars
  PROVE  Drafting'
<1>0. draft \in [Owners -> Drafts] /\ model \in 1..MaxModel
  BY DEF TypeOK
<1>1. CASE draft' = draft
  BY <1>1 DEF Drafting
<1>2. CASE \E o \in Owners : draft' = Dropped(o)
  BY <1>0, <1>2, DroppedDraft DEF Drafting
<1>3. CASE \E o \in Owners, stage \in {"snapshot", "commit"} : Moved(o, stage)
  BY <1>0, <1>3, MovedDraft DEF Drafting
<1>4. CASE PredictBegins
  <2>1. PICK o \in Owners, F \in SUBSET Forecast :
          Drafted(o, "predict", F, model) /\ (Leads # {} => F # {})
    BY <1>4, PredictBeginsDraft
  <2>2. draft'[o].set = F /\ \A q \in Owners : q # o => draft'[q] = draft[q]
    BY <1>0, <2>1, NewDraft
  <2> QED
    BY <2>1, <2>2 DEF Drafting
<1>5. CASE \E o \in Owners : WorkBegins(o)
  <2>1. PICK o \in Owners : WorkBegins(o)
    BY <1>5
  <2>2. PICK F \in SUBSET Forecast, version \in 1..MaxModel : Drafted(o, "surfaces", F, version)
    BY <2>1, WorkBeginsDraft
  <2>3. draft'[o].stage = "surfaces" /\ \A q \in Owners : q # o => draft'[q] = draft[q]
    BY <1>0, <2>2, NewDraft
  <2> QED
    BY <2>3 DEF Drafting
<1> QED
  BY <1>1, <1>2, <1>3, <1>4, <1>5, DraftMoves

\* The hourly run leaves stage s behind, without an error only if there was none before.
Left(s, error) ==
    /\ Hourly /\ Head(run.todo) = s
    /\ run'.todo = Tail(run.todo) /\ run'.known = run.known
    /\ ~run'.errors => ~run.errors /\ ~error

LEMMA ReturnsLeft ==
  ASSUME TypeOK, Hourly', NEW s, NEW error \in BOOLEAN, Returns(s, error)
  PROVE  (Hourly /\ run' = run) \/ Left(s, error)
<1>1. CASE run' = run
  BY <1>1 DEF Hourly
<1>2. CASE Turn(s) /\ run' = [run EXCEPT !.todo = Tail(@), !.errors = @ \/ error]
  <2>1. run \in Runs /\ run.errors \in BOOLEAN
    BY DEF TypeOK, Runs
  <2>2. /\ run'.todo = Tail(run.todo) /\ run'.known = run.known /\ run'.kind = run.kind
        /\ run'.status = run.status
    BY <1>2, <2>1 DEF Runs
  <2>3. run'.errors = (run.errors \/ error)
    BY <1>2, <2>1 DEF Runs
  <2>4. Hourly /\ Head(run.todo) = s
    BY <1>2, <2>2 DEF Hourly, Turn, At, Running
  <2> QED
    BY <2>1, <2>2, <2>3, <2>4 DEF Left
<1> QED
  BY <1>1, <1>2 DEF Returns

LEMMA RaisesLeft ==
  ASSUME TypeOK, Hourly', NEW s, Raises(s)
  PROVE  (Hourly /\ run' = run) \/ Left(s, TRUE)
<1>1. CASE run' = run
  BY <1>1 DEF Hourly
<1>2. CASE At(s) /\ run' = [run EXCEPT !.todo = Tail(@), !.errors = TRUE, !.usable = @ /\ ~Required(s)]
  <2>1. run \in Runs
    BY DEF TypeOK
  <2>2. /\ run'.todo = Tail(run.todo) /\ run'.known = run.known /\ run'.kind = run.kind
        /\ run'.status = run.status /\ run'.errors = TRUE
    BY <1>2, <2>1 DEF Runs
  <2>4. Hourly /\ Head(run.todo) = s
    BY <1>2, <2>2 DEF Hourly, At, Running
  <2> QED
    BY <2>2, <2>4 DEF Left
<1> QED
  BY <1>1, <1>2 DEF Raises

Others == Stages \ {"validate", "predict", "build_spatial_surfaces", "build_snapshot"}

\* How an hourly run moves on: it begins, somebody else acts, or it leaves a stage behind.
LEMMA RunMoves ==
  ASSUME TypeOK, [Next]_vars, Hourly'
  PROVE  \/ /\ run'.todo = Plan /\ run'.known = forecasts
            /\ ~Working /\ UNCHANGED <<draft, verdict>>
         \/ Hourly /\ run' = run
         \/ \E s \in Others : Left(s, FALSE)
         \/ \E s \in Stages : Left(s, TRUE)
         \/ Left("validate", Doubtful) /\ Validate
         \/ Left("predict", Origin(meas, matched) # Never)
         \/ /\ Left("predict", FALSE)
            /\ \E o \in Owners : draft[o].stage = "predict" /\ verdict' = Persisted(verdict, draft[o].set)
         \/ Left("build_spatial_surfaces", FALSE) /\ BuildSpatialSurfaces
         \/ Left("build_spatial_surfaces", forecasts # {}) /\ BuildNoSurface
         \/ Left("build_snapshot", FALSE) /\ BuildSnapshot
<1>0. run \in Runs
  BY DEF TypeOK
<1>1. \A s, error : Left(s, error) => Left(s, FALSE)
  BY DEF Left
<1>2. Others = {"collect_gios", "collect_imgw", "match_stations", "export_object_store", "verify",
                "publish_documentation", "backfill_imgw_archive"}
  BY StageNames DEF Others
<1>3. CASE UNCHANGED run
  BY <1>3 DEF Hourly
<1>4. CASE StartHourly
  <2>1. /\ run'.todo = Plan /\ run'.known = forecasts
        /\ ~Working /\ UNCHANGED <<draft, verdict>>
    BY <1>4 DEF StartHourly, StartRun, NoRun, Plan, tables
  <2> QED
    BY <2>1
<1>5. CASE StartFirstRun
  <2>1. run'.kind = "first_run_collection"
    BY <1>5 DEF StartFirstRun, StartRun, NoRun
  <2> QED
    BY <2>1 DEF Hourly
<1>6. CASE Lose
  BY <1>6, RaisesLeft DEF Lose
<1>7. CASE Crash
  <2>1. run'.todo = <<>>
    BY <1>7 DEF Crash, Ended
  <2> QED
    BY <2>1 DEF Hourly
<1>8. CASE CollectGios
  <2>1. PICK errors \in BOOLEAN : Returns("collect_gios", errors)
    BY <1>8 DEF CollectGios
  <2> QED
    BY <1>1, <1>2, <2>1, ReturnsLeft
<1>9. CASE CollectImgw
  BY <1>1, <1>2, <1>9, ReturnsLeft DEF CollectImgw
<1>10. CASE BackfillImgwArchive
  <2>1. PICK errors \in BOOLEAN : Returns("backfill_imgw_archive", errors)
    BY <1>10 DEF BackfillImgwArchive
  <2> QED
    BY <1>1, <1>2, <2>1, ReturnsLeft
<1>11. CASE Validate
  <2>1. Doubtful \in BOOLEAN /\ Returns("validate", Doubtful)
    BY <1>11 DEF Validate, Doubtful
  <2> QED
    BY <1>11, <2>1, ReturnsLeft
<1>12. CASE MatchStations
  BY <1>1, <1>2, <1>12, ReturnsLeft DEF MatchStations
<1>13. CASE ExportObjectStore
  <2>1. /\ run'.todo = Tail(run.todo) /\ run'.known = run.known /\ run'.kind = run.kind
        /\ run'.status = run.status /\ run'.errors = run.errors
    BY <1>0, <1>13 DEF ExportObjectStore, Runs
  <2>2. Left("export_object_store", FALSE)
    BY <1>13, <2>1 DEF ExportObjectStore, Turn, At, Running, Hourly, Left
  <2> QED
    BY <1>2, <2>2
<1>14. CASE Verify
  BY <1>1, <1>2, <1>14, ReturnsLeft DEF Verify
<1>15. CASE PredictNothing
  <2>1. (Origin(meas, matched) # Never) \in BOOLEAN
    OBVIOUS
  <2> QED
    BY <1>15, <2>1, ReturnsLeft DEF PredictNothing
<1>23. CASE PredictCommits
  <2>1. PICK o \in Owners :
          /\ draft[o].stage = "predict" /\ verdict' = Persisted(verdict, draft[o].set)
          /\ run' = run \/ (At("predict") /\ run' = [run EXCEPT !.todo = Tail(@)])
    BY <1>23 DEF PredictCommits
  <2>2. CASE At("predict") /\ run' = [run EXCEPT !.todo = Tail(@)]
    <3>1. /\ run'.todo = Tail(run.todo) /\ run'.known = run.known /\ run'.kind = run.kind
          /\ run'.status = run.status /\ run'.errors = run.errors
      BY <1>0, <2>2 DEF Runs
    <3>2. Left("predict", FALSE)
      BY <2>2, <3>1 DEF At, Running, Hourly, Left
    <3> QED
      BY <2>1, <3>2
  <2> QED
    BY <1>3, <2>1, <2>2
<1>16. CASE BuildSpatialSurfaces
  BY <1>16, ReturnsLeft DEF BuildSpatialSurfaces
<1>24. CASE BuildNoSurface
  <2>1. (forecasts # {}) \in BOOLEAN
    OBVIOUS
  <2> QED
    BY <1>24, <2>1, ReturnsLeft DEF BuildNoSurface
<1>17. CASE SurfacesFail
  BY <1>17, RaisesLeft, StageNames DEF SurfacesFail
<1>18. CASE PublishDocumentation
  <2>1. /\ run'.todo = Tail(run.todo) /\ run'.known = run.known /\ run'.kind = run.kind
        /\ run'.status = run.status /\ run'.errors = run.errors
    BY <1>0, <1>18 DEF PublishDocumentation, Runs
  <2>2. Left("publish_documentation", FALSE)
    BY <1>18, <2>1 DEF PublishDocumentation, Turn, At, Running, Hourly, Left
  <2> QED
    BY <1>2, <2>2
<1>19. CASE BuildSnapshot
  BY <1>19, ReturnsLeft DEF BuildSnapshot
<1>20. CASE FinishRun
  <2>1. PICK said : /\ said \in {"success", "partial_success"}
                    /\ said = IF run.errors THEN "partial_success" ELSE "success"
    OBVIOUS
  <2>2. Ended.todo = <<>> /\ DOMAIN Ended = {"kind", "status", "todo", "known", "errors", "usable"}
    BY DEF Ended
  <2>3. run'.status = said
    BY <1>20, <2>1, <2>2 DEF FinishRun
  <2> QED
    BY <2>1, <2>3 DEF Hourly
<1>21. CASE FirstRunSnapshot \/ WorkSurfacesFail
  <2>1. run'.todo = <<>> \/ run' = run
    BY <1>21 DEF FirstRunSnapshot, WorkSurfacesFail, Ended
  <2> QED
    BY <1>3, <2>1 DEF Hourly
<1>25. CASE WorkCommits
  <2>1. run' = run \/ (After("models") /\ run' = [run EXCEPT !.todo = Tail(@)])
    BY <1>25 DEF WorkCommits
  <2>2. After("models") /\ run' = [run EXCEPT !.todo = Tail(@)] => run'.status # "running"
    BY <1>0 DEF After, Runs
  <2> QED
    BY <1>3, <2>1, <2>2 DEF Hourly
<1>22. CASE UNCHANGED vars \/ Tick \/ TaskLost \/ Maintenance \/ DailyMaintenance \/ FirstRunModels
  BY <1>3, <1>22 DEF vars, Tick, TaskLost, Maintenance, DailyMaintenance, FirstRunModels
<1>26. CASE PredictBegins \/ WorkSurfaces \/ WorkSnapshot
  BY <1>3, <1>26 DEF PredictBegins, WorkSurfaces, WorkSnapshot
<1> QED
  BY <1>4, <1>5, <1>6, <1>7, <1>8, <1>9, <1>10, <1>11, <1>12, <1>13, <1>14, <1>15, <1>16, <1>17,
     <1>18, <1>19, <1>20, <1>21, <1>22, <1>23, <1>24, <1>25, <1>26 DEF Next, Step

\* What follows a stage is one shorter and stays in the plan.
LEMMA RestInPlan ==
  ASSUME TypeOK, InPlan, Hourly', NEW s, NEW error, Left(s, error)
  PROVE  /\ Len(run.todo) \in 2..11 /\ Len(run'.todo) = Len(run.todo) - 1
         /\ \A i \in 1..Len(run'.todo) : run'.todo[i] = Stage(Len(run'.todo) + 1 - i)
         /\ s = Stage(Len(run.todo))
<1>1. /\ run.todo \in Seq(Entries) /\ run.todo # <<>> /\ run'.todo = Tail(run.todo)
      /\ Head(run.todo) = s /\ run'.todo # <<>>
  BY DEF Left, TypeOK, Runs, Entries, Hourly
<1>2. /\ Len(run.todo) \in 1..11
      /\ \A i \in 1..Len(run.todo) : run.todo[i] = Stage(Len(run.todo) + 1 - i)
  BY DEF Left, InPlan
<1>3. /\ run'.todo \in Seq(Entries) /\ Len(run'.todo) = Len(run.todo) - 1
      /\ \A i \in 1..Len(run'.todo) : run'.todo[i] = run.todo[i + 1]
      /\ Head(run.todo) = run.todo[1]
  BY <1>1
<1>4. Len(run'.todo) # 0
  <2>1. \A q \in Seq(Entries) : Len(q) = 0 => q = <<>>
    OBVIOUS
  <2> QED
    BY <1>1, <1>3, <2>1
<1>5. PICK n, k : n = Len(run.todo) /\ k = Len(run'.todo)
  OBVIOUS
<1>6. n \in 2..11 /\ k = n - 1 /\ n \in Int /\ k \in Int
  BY <1>2, <1>3, <1>4, <1>5
<1>7. \A i \in 1..k : run'.todo[i] = Stage(k + 1 - i)
  <2> SUFFICES ASSUME NEW i \in 1..k
               PROVE  run'.todo[i] = Stage(k + 1 - i)
    OBVIOUS
  <2>1. i + 1 \in 1..n /\ n + 1 - (i + 1) = k + 1 - i
    BY <1>6
  <2>2. run.todo[i + 1] = Stage(n + 1 - (i + 1))
    BY <1>2, <1>5, <2>1
  <2>3. run'.todo[i] = run.todo[i + 1]
    BY <1>3, <1>5
  <2> QED
    BY <2>1, <2>2, <2>3
<1>8. s = Stage(n)
  <2>1. 1 \in 1..n /\ n + 1 - 1 = n
    BY <1>6
  <2>2. run.todo[1] = Stage(n + 1 - 1)
    BY <1>2, <1>5, <2>1
  <2> QED
    BY <1>1, <1>3, <2>1, <2>2
<1> QED
  BY <1>5, <1>6, <1>7, <1>8

LEMMA PlanFromStart == \A i \in 1..Len(Plan) : Plan[i] = Stage(Len(Plan) + 1 - i)
<1>1. Len(Plan) = 11 /\ \A i \in 1..11 : 12 - (11 + 1 - i) = i
  BY PlanStages
<1> QED
  BY <1>1 DEF Stage

\* Beside an hourly run nobody begins to hold the write lock for long.
LEMMA StaysQuiet ==
  ASSUME TypeOK, Hourly, ~Working, [Next]_vars
  PROVE  ~Working'
<1>0. draft \in [Owners -> Drafts] /\ model \in 1..MaxModel
  BY DEF TypeOK
<1>1. CASE draft' = draft
  BY <1>1 DEF Working
<1>2. CASE \E o \in Owners : draft' = Dropped(o)
  BY <1>0, <1>2, DroppedDraft DEF Working
<1>3. CASE \E o \in Owners, stage \in {"snapshot", "commit"} :
             draft[o].stage \in {"surfaces", "snapshot"} /\ Moved(o, stage)
  BY <1>3 DEF Working
<1>4. CASE PredictBegins
  <2>1. PICK o \in Owners, F \in SUBSET Forecast : Drafted(o, "predict", F, model)
    BY <1>4, PredictBeginsDraft
  <2>2. draft'[o].stage = "predict" /\ \A q \in Owners : q # o => draft'[q] = draft[q]
    BY <1>0, <2>1, NewDraft
  <2> QED
    BY <2>2 DEF Working
<1>5. CASE FirstRunModels \/ Maintenance
  BY <1>5 DEF FirstRunModels, Maintenance, After, Upkeep, Busy, Hourly
<1> QED
  BY <1>1, <1>2, <1>3, <1>4, <1>5, DraftMoves

LEMMA NextInPlan ==
  ASSUME TypeOK, InPlan, [Next]_vars
  PROVE  InPlan'
<1> SUFFICES ASSUME Hourly' PROVE InPlan'
  BY DEF InPlan
<1>0. forecasts \subseteq forecasts'
  BY ForecastsGrow
<1>1. CASE /\ run'.todo = Plan /\ run'.known = forecasts
           /\ ~Working /\ UNCHANGED <<draft, verdict>>
  BY <1>0, <1>1, PlanStages, PlanFromStart DEF InPlan, Working
<1>2. CASE Hourly /\ run' = run
  BY <1>0, <1>2, StaysQuiet DEF InPlan
<1>3. ASSUME NEW s, NEW error, Left(s, error)
      PROVE  InPlan'
  <2>1. Hourly /\ ~Working /\ run.known \subseteq forecasts /\ run'.known = run.known
    BY <1>3 DEF InPlan, Left
  <2>2. ~Working' /\ run'.known \subseteq forecasts'
    BY <1>0, <2>1, StaysQuiet
  <2>3. /\ Len(run.todo) \in 2..11 /\ Len(run'.todo) = Len(run.todo) - 1
        /\ \A i \in 1..Len(run'.todo) : run'.todo[i] = Stage(Len(run'.todo) + 1 - i)
    BY <1>3, RestInPlan
  <2>4. Len(run'.todo) \in 1..11
    BY <2>3
  <2> QED
    BY <2>2, <2>3, <2>4 DEF InPlan
<1> QED
  BY <1>1, <1>2, <1>3, RunMoves

\* Beside an hourly run the pointer is moved by surfaces built of the table, and the
\* dashboard shows the table.
LEMMA ShownMoves ==
  ASSUME TypeOK, InPlan, Hourly, [Next]_vars
  PROVE  /\ release' = release \/ BuildSpatialSurfaces
         /\ snapshot' = snapshot \/ snapshot' = forecasts
<1>1. ~Working
  BY DEF InPlan
<1>2. ~WorkSurfaces /\ ~WorkSurfacesFail /\ ~WorkSnapshot
  BY <1>1 DEF WorkSurfaces, WorkSurfacesFail, WorkSnapshot, Working, Owners
<1>3. ~FirstRunSnapshot
  BY DEF FirstRunSnapshot, After, Hourly
<1>4. SurfacesFail => release' = release
  BY DEF SurfacesFail, CutRelease
<1>5. BuildSnapshot => snapshot' = forecasts \/ snapshot' = snapshot
  BY SnapshotType DEF BuildSnapshot
<1> QED
  BY <1>2, <1>3, <1>4, <1>5, ReleaseMoves, SnapshotMoves

\* What a run has established is not lost by what happens beside it.
LEMMA EstablishedStays ==
  ASSUME TypeOK, InPlan, Dated, Hourly, [Next]_vars, run'.known = run.known
  PROVE  /\ Shown = {} \/ forecasts # {} \/ Sound => Shown' = {} \/ forecasts' # {} \/ Sound'
         /\ Shown = {} \/ forecasts # {} => Shown' = {} \/ forecasts' # {}
         /\ Reached \/ BuildSpatialSurfaces => Reached'
         /\ snapshot \subseteq forecasts => snapshot' \subseteq forecasts'
<1>0. forecasts \subseteq forecasts' /\ (Sound => Sound')
  BY ForecastsGrow, SightedStays
<1>1. /\ run.known \subseteq forecasts
      /\ forecasts \in SUBSET Forecast /\ \A f \in forecasts : Made(f) \in Hours
  BY DEF TypeOK, InPlan, Dated, Created
<1>2. ASSUME BuildSpatialSurfaces
      PROVE  /\ PutRelease(forecasts, model) /\ forecasts' = forecasts
             /\ release'.set \subseteq forecasts /\ release'.set # {}
  <2>1. PutRelease(forecasts, model) /\ forecasts' = forecasts
    BY <1>2 DEF BuildSpatialSurfaces, tables, forecasts
  <2> QED
    BY <1>1, <2>1, PutReleaseReaches
<1>3. ASSUME Shown = {} \/ forecasts # {}
      PROVE  Shown' = {} \/ forecasts' # {}
  <2>1. CASE forecasts # {}
    BY <1>0, <2>1
  <2>2. CASE Shown = {} /\ forecasts = {}
    <3>1. release' = release /\ snapshot' \subseteq {}
      BY <1>2, <2>2, ShownMoves DEF Shown
    <3> QED
      BY <2>2, <3>1 DEF Shown
  <2> QED
    BY <1>3, <2>1, <2>2
<1>4. ASSUME Reached, release' = release
      PROVE  Reached'
  BY <1>0, <1>4 DEF Reached, SameSurface, Later, Made
<1>5. ASSUME BuildSpatialSurfaces
      PROVE  Reached'
  <2>1. \A g \in forecasts :
          /\ \E f \in release'.set \cup release'.status.failed : SameSurface(f, g) /\ Later(f, g)
          /\ \A f \in release'.set : SameSurface(f, g) => Later(f, g)
    BY <1>1, <1>2, <1>5, PutReleaseReaches
  <2> QED
    BY <1>1, <1>2, <1>5, <2>1 DEF Reached, SameSurface, Later, Made
<1>6. snapshot \subseteq forecasts => snapshot' \subseteq forecasts'
  BY <1>0, ShownMoves
<1> QED
  BY <1>0, <1>3, <1>4, <1>5, <1>6, ShownMoves

\* The stage a run leaves is its place in the plan.
LEMMA LeftAt ==
  ASSUME TypeOK, InPlan, Hourly', NEW s, NEW error, Left(s, error)
  PROVE  \E n \in 2..11 :
           /\ Len(run.todo) = n /\ Len(run'.todo) = n - 1
           /\ s = "validate" => n = 9
           /\ s = "predict" => n = 5
           /\ s = "build_spatial_surfaces" => n = 4
           /\ s = "build_snapshot" => n = 2
           /\ s \in Others => n \notin {9, 5, 4, 2}
<1>1. /\ Len(run.todo) \in 2..11 /\ Len(run'.todo) = Len(run.todo) - 1
      /\ s = Stage(Len(run.todo))
  BY RestInPlan
<1>2. PICK n \in 2..11 : n = Len(run.todo)
  BY <1>1
<1>3. n \in 1..11 /\ s = Stage(n) /\ Len(run'.todo) = n - 1
  BY <1>1, <1>2
<1>4. /\ s = "validate" <=> n = 9
      /\ s = "predict" <=> n = 5
      /\ s = "build_spatial_surfaces" <=> n = 4
      /\ s = "build_snapshot" <=> n = 2
  BY <1>3, PlanStages
<1>5. s \in Others => n \notin {9, 5, 4, 2}
  BY <1>4 DEF Others
<1> QED
  BY <1>2, <1>3, <1>4, <1>5

LEMMA NextEstablished ==
  ASSUME GreenInv, [Next]_vars
  PROVE  Established'
<1> SUFFICES ASSUME Hourly', ~run'.errors
             PROVE  /\ Len(run'.todo) <= 8 => Shown' = {} \/ forecasts' # {} \/ Sound'
                    /\ Len(run'.todo) <= 4 => Shown' = {} \/ forecasts' # {}
                    /\ Len(run'.todo) <= 3 => Reached'
                    /\ Len(run'.todo) <= 1 => snapshot' \subseteq forecasts'
  BY DEF Established
<1>0. TypeOK /\ InPlan /\ Drafting /\ Dated /\ Sourced /\ Established
  BY DEF GreenInv
<1>1. CASE run'.todo = Plan
  BY <1>1, PlanStages
<1>2. CASE Hourly /\ run' = run
  BY <1>0, <1>2, EstablishedStays DEF Established
<1>3. ASSUME NEW s, NEW error, Left(s, error)
      PROVE  Hourly /\ run'.known = run.known /\ ~run.errors /\ ~error
  BY <1>3 DEF Left
<1>4. ASSUME NEW s, NEW n \in 2..11, NEW error, Left(s, error), Len(run.todo) = n
      PROVE  /\ n <= 8 => Shown' = {} \/ forecasts' # {} \/ Sound'
             /\ n <= 4 => Shown' = {} \/ forecasts' # {}
             /\ n <= 3 => Reached'
             /\ n <= 1 => snapshot' \subseteq forecasts'
  <2>1. /\ n <= 8 => Shown = {} \/ forecasts # {} \/ Sound
        /\ n <= 4 => Shown = {} \/ forecasts # {}
        /\ n <= 3 => Reached
        /\ n <= 1 => snapshot \subseteq forecasts
    BY <1>0, <1>3, <1>4 DEF Established
  <2> QED
    BY <1>0, <1>3, <1>4, <2>1, EstablishedStays
<1>5. CASE \E s \in Others : Left(s, FALSE)
  <2>1. PICK s \in Others : Left(s, FALSE)
    BY <1>5
  <2>2. PICK n \in 2..11 : Len(run.todo) = n /\ Len(run'.todo) = n - 1 /\ n \notin {9, 5, 4, 2}
    BY <1>0, <2>1, LeftAt
  <2>3. /\ n - 1 <= 8 => n <= 8
        /\ n - 1 <= 4 => n <= 4
        /\ n - 1 <= 3 => n <= 3
        /\ n - 1 <= 1 => n <= 1
    BY <2>2
  <2> QED
    BY <1>4, <2>1, <2>2, <2>3
<1>6. CASE \E s \in Stages : Left(s, TRUE)
  BY <1>3, <1>6
<1>7. CASE Left("validate", Doubtful) /\ Validate
  <2>1. Len(run'.todo) = 8 /\ ~Doubtful
    <3>1. PICK n \in 2..11 : Len(run'.todo) = n - 1 /\ n = 9
      BY <1>0, <1>7, LeftAt
    <3> QED
      BY <1>3, <1>7, <3>1
  <2>2. Shown' = Shown
    BY <1>7 DEF Validate, published, Shown
  <2>3. Shown # {} => Sound
    BY <1>0, <2>1, SightedSound DEF Sourced
  <2>4. Sound => Sound'
    BY <1>0, SightedStays
  <2> QED
    BY <2>1, <2>2, <2>3, <2>4
<1>8. ASSUME Left("predict", FALSE), Shown = {} \/ forecasts # {} \/ forecasts' # {}
      PROVE  Len(run'.todo) = 4 /\ (Shown' = {} \/ forecasts' # {})
  <2>1. PICK n \in 2..11 : Len(run'.todo) = n - 1 /\ n = 5
    BY <1>0, <1>8, LeftAt
  <2>2. run'.known = run.known /\ Hourly
    BY <1>3, <1>8
  <2> QED
    BY <1>0, <1>8, <2>1, <2>2, EstablishedStays
<1>9. CASE Left("predict", Origin(meas, matched) # Never)
  <2>1. Left("predict", FALSE) /\ Origin(meas, matched) = Never
    BY <1>3, <1>9 DEF Left
  <2>2. Len(run.todo) = 5 /\ Hourly /\ ~run.errors
    <3>1. PICK n \in 2..11 : Len(run.todo) = n /\ n = 5
      BY <1>0, <2>1, LeftAt
    <3> QED
      BY <1>3, <2>1, <3>1
  <2>3. Shown = {} \/ forecasts # {}
    BY <1>0, <2>1, <2>2, OriginSighted DEF Established
  <2>4. Len(run'.todo) = 4 /\ (Shown' = {} \/ forecasts' # {})
    BY <1>8, <2>1, <2>3
  <2> QED
    BY <2>4
<1>10. CASE /\ Left("predict", FALSE)
            /\ \E o \in Owners : draft[o].stage = "predict" /\ verdict' = Persisted(verdict, draft[o].set)
  <2>1. PICK o \in Owners : draft[o].stage = "predict" /\ verdict' = Persisted(verdict, draft[o].set)
    BY <1>10
  <2>2. draft[o].set \subseteq forecasts'
    BY <2>1 DEF Persisted, forecasts
  <2>3. forecasts' # {} \/ Leads = {}
    BY <1>0, <2>1, <2>2 DEF Drafting
  <2>4. CASE Leads = {}
    <3>1. Forecast = {}
      BY <2>4 DEF Forecast
    <3>2. Shown = {}
      <4>1. release.set \subseteq Forecast /\ snapshot \subseteq Forecast
        BY <1>0 DEF TypeOK
      <4> QED
        BY <3>1, <4>1 DEF Shown
    <3>3. Left("predict", FALSE)
      BY <1>10
    <3>4. Shown = {} \/ forecasts # {} \/ forecasts' # {}
      BY <3>2
    <3>5. Len(run'.todo) = 4 /\ (Shown' = {} \/ forecasts' # {})
      BY <1>8, <3>3, <3>4
    <3> QED
      BY <3>5
  <2>5. CASE forecasts' # {}
    BY <1>8, <1>10, <2>5
  <2> QED
    BY <2>3, <2>4, <2>5
<1>11. CASE Left("build_spatial_surfaces", FALSE) /\ BuildSpatialSurfaces
  <2>1. /\ Len(run.todo) = 4 /\ Len(run'.todo) = 3
        /\ Hourly /\ run'.known = run.known /\ ~run.errors
    <3>1. PICK n \in 2..11 : Len(run.todo) = n /\ Len(run'.todo) = n - 1 /\ n = 4
      BY <1>0, <1>11, LeftAt
    <3>2. Left("build_spatial_surfaces", FALSE)
      BY <1>11
    <3>3. Hourly /\ run'.known = run.known /\ ~run.errors
      BY <1>3, <3>2
    <3> QED
      BY <3>1, <3>3
  <2>2. Shown = {} \/ forecasts # {}
    BY <1>0, <2>1 DEF Established
  <2> QED
    BY <1>0, <1>11, <2>1, <2>2, EstablishedStays
<1>12. CASE Left("build_spatial_surfaces", forecasts # {}) /\ BuildNoSurface
  <2>1. /\ Len(run.todo) = 4 /\ Len(run'.todo) = 3 /\ forecasts = {}
        /\ Hourly /\ run'.known = run.known /\ ~run.errors
    <3>1. PICK n \in 2..11 : Len(run.todo) = n /\ Len(run'.todo) = n - 1 /\ n = 4
      BY <1>0, <1>12, LeftAt
    <3>2. Left("build_spatial_surfaces", forecasts # {})
      BY <1>12
    <3>3. Hourly /\ run'.known = run.known /\ ~run.errors /\ ~(forecasts # {})
      BY <1>3, <3>2
    <3> QED
      BY <3>1, <3>3
  <2>2. Shown = {} /\ run.known = {}
    BY <1>0, <2>1 DEF Established, InPlan
  <2>3. Reached
    BY <2>2 DEF Reached, Shown
  <2> QED
    BY <1>0, <2>1, <2>2, <2>3, EstablishedStays
<1>13. CASE Left("build_snapshot", FALSE) /\ BuildSnapshot
  <2>1. /\ Len(run.todo) = 2 /\ Len(run'.todo) = 1
        /\ Hourly /\ run'.known = run.known /\ ~run.errors
    <3>1. PICK n \in 2..11 : Len(run.todo) = n /\ Len(run'.todo) = n - 1 /\ n = 2
      BY <1>0, <1>13, LeftAt
    <3>2. Left("build_snapshot", FALSE)
      BY <1>13
    <3>3. Hourly /\ run'.known = run.known /\ ~run.errors
      BY <1>3, <3>2
    <3> QED
      BY <3>1, <3>3
  <2>2. (Shown = {} \/ forecasts # {}) /\ Reached
    BY <1>0, <2>1 DEF Established
  <2>3. snapshot' \subseteq forecasts
    <3>1. snapshot' = SnapshotOf(forecasts)
      BY <1>13 DEF BuildSnapshot
    <3>2. CASE forecasts # {}
      BY <3>1, <3>2 DEF SnapshotOf
    <3>3. CASE forecasts = {}
      BY <2>2, <3>1, <3>3, SnapshotType DEF Shown
    <3> QED
      BY <3>2, <3>3
  <2>4. forecasts' = forecasts
    BY <1>13 DEF BuildSnapshot, tables, forecasts
  <2> QED
    BY <1>0, <2>1, <2>2, <2>3, <2>4, EstablishedStays
<1> QED
  BY <1>0, <1>1, <1>2, <1>5, <1>6, <1>7, <1>9, <1>10, <1>11, <1>12, <1>13, RunMoves

\* Only the end of a run turns its status into success.
LEMMA GreenStep ==
  ASSUME GreenInv, [Next]_vars,
         run.kind = "hourly_pipeline", run'.status = "success", run.status = "running"
  PROVE  Reached /\ snapshot \subseteq forecasts
<1>0. run \in Runs /\ TypeOK
  BY DEF GreenInv, TypeOK
<1>1. ASSUME NEW s, NEW error \in BOOLEAN, Returns(s, error) \/ Raises(s)
      PROVE  run'.status = run.status
  BY <1>0, <1>1 DEF Returns, Raises, Runs
<1>2. FinishRun
  <2>1. CASE run'.status = run.status
    BY <2>1
  <2>2. CASE StartHourly \/ StartFirstRun
    BY <2>2 DEF StartHourly, StartFirstRun, StartRun, NoRun
  <2>3. CASE Lose \/ SurfacesFail
    BY <1>1, <2>3 DEF Lose, SurfacesFail
  <2>4. CASE ExportObjectStore \/ PublishDocumentation
    BY <1>0, <2>4 DEF ExportObjectStore, PublishDocumentation, Runs
  <2>5. CASE Crash \/ WorkSurfacesFail \/ FirstRunSnapshot
    BY <2>5 DEF Crash, WorkSurfacesFail, FirstRunSnapshot, Ended
  <2>6. CASE CollectGios \/ CollectImgw \/ BackfillImgwArchive \/ MatchStations \/ Verify
    BY <1>1, <2>6 DEF CollectGios, CollectImgw, BackfillImgwArchive, MatchStations, Verify
  <2>7. CASE Validate
    <3>1. Returns("validate", Doubtful) /\ Doubtful \in BOOLEAN
      BY <2>7 DEF Validate, Doubtful
    <3> QED
      BY <1>1, <3>1
  <2>8. CASE PredictNothing \/ BuildNoSurface
    <3>1. (Origin(meas, matched) # Never) \in BOOLEAN /\ (forecasts # {}) \in BOOLEAN
      OBVIOUS
    <3> QED
      BY <1>1, <2>8, <3>1 DEF PredictNothing, BuildNoSurface
  <2>9. CASE PredictCommits \/ WorkCommits
    <3>1. run' = run \/ run' = [run EXCEPT !.todo = Tail(@)]
      BY <2>9 DEF PredictCommits, WorkCommits
    <3> QED
      BY <1>0, <3>1 DEF Runs
  <2>10. CASE BuildSpatialSurfaces \/ BuildSnapshot
    BY <1>1, <2>10 DEF BuildSpatialSurfaces, BuildSnapshot
  <2>11. CASE UNCHANGED vars \/ Tick \/ TaskLost \/ Maintenance \/ DailyMaintenance \/ FirstRunModels
    BY <2>1, <2>11 DEF vars, Tick, TaskLost, Maintenance, DailyMaintenance, FirstRunModels
  <2>12. CASE PredictBegins \/ WorkSurfaces \/ WorkSnapshot
    BY <2>1, <2>12 DEF PredictBegins, WorkSurfaces, WorkSnapshot
  <2> QED
    BY <2>2, <2>3, <2>4, <2>5, <2>6, <2>7, <2>8, <2>9, <2>10, <2>11, <2>12 DEF Next, Step
<1>a. ~run.errors
  <2>1. PICK said : said = (IF run.errors THEN "partial_success" ELSE "success")
    OBVIOUS
  <2>2. DOMAIN Ended = {"kind", "status", "todo", "known", "errors", "usable"}
    BY DEF Ended
  <2>3. run'.status = said
    BY <1>2, <2>1, <2>2 DEF FinishRun
  <2> QED
    BY <2>1, <2>3
<1>3. Hourly /\ Head(run.todo) = "finish"
  BY <1>0, <1>2 DEF FinishRun, Runs, Turn, At, Running, Hourly
<1>4. PICK n : n = Len(run.todo)
  OBVIOUS
<1>5. n \in 1..11 /\ Stage(n) = "finish"
  <2>1. n \in 1..11 /\ \A i \in 1..n : run.todo[i] = Stage(n + 1 - i)
    BY <1>3, <1>4 DEF GreenInv, InPlan
  <2>2. 1 \in 1..n /\ n + 1 - 1 = n
    BY <2>1
  <2>3. Head(run.todo) = run.todo[1]
    BY <1>0, <1>3 DEF Runs, Hourly
  <2>4. run.todo[1] = Stage(n + 1 - 1)
    BY <2>1, <2>2
  <2> QED
    BY <1>3, <2>1, <2>2, <2>3, <2>4
<1>6. n = 1
  BY <1>5, PlanStages
<1> QED
  BY <1>3, <1>4, <1>6, <1>a DEF GreenInv, Established

\* A run of the pipeline that ends with success leaves a release and a snapshot of forecasts
\* that are in the table.  Each forecast it found when it began is in the release, was
\* replaced there by a later one, or is named in the manifest as one whose surface could not
\* be built, and they did not all fail; stages started by hand, crashes, slow predictions
\* and what rolled-back transactions have put included (pipeline.py:69-116,
\* service.py:615-868, cli.py:2817-2875).
THEOREM GreenRunIsFresh == Spec => GreenRunServesFresh
<1>1. Init => GreenInv
  <2> SUFFICES ASSUME Init PROVE GreenInv
    OBVIOUS
  <2>1. TypeOK
    BY InitTypeOK
  <2>2. ~Hourly /\ forecasts = {} /\ release.set = {} /\ snapshot = {}
    BY DEF Init, Hourly, NoRun, NoRelease, forecasts
  <2>3. \A o \in Owners : draft[o].stage = "none" /\ draft[o].set = {}
    BY DEF Init, NoDraft
  <2>4. Created = {} /\ Shown = {} /\ Drafting
    BY <2>2, <2>3 DEF Created, Shown, Drafting
  <2> QED
    BY <2>1, <2>2, <2>4 DEF GreenInv, InPlan, Dated, Sourced, Established
<1>2. GreenInv /\ [Next]_vars => GreenInv'
  BY NextTypeOK, NextInPlan, NextDrafting, NextDated, NextSourced, NextEstablished DEF GreenInv
<1>3. GreenInv /\ [Next]_vars =>
        [run.kind = "hourly_pipeline" /\ run'.status = "success" /\ run.status = "running" =>
          /\ release.set \subseteq forecasts /\ snapshot \subseteq forecasts
          /\ run.known # {} => release.set # {}
          /\ \A g \in run.known :
               /\ \E f \in release.set \cup release.status.failed : SameSurface(f, g) /\ Later(f, g)
               /\ \A f \in release.set : SameSurface(f, g) => Later(f, g)]_vars
  BY GreenStep DEF Reached
<1> QED
  BY <1>1, <1>2, <1>3, PTL DEF Spec, GreenRunServesFresh

-----------------------------------------------------------------------------
(* The training run: its parts in time                                     *)

LEMMA MinThere ==
  ASSUME NEW S \in SUBSET Nat, S # {}
  PROVE  Min(S) \in S /\ \A y \in S : Min(S) <= y
<1>1. \E x \in S : \A y \in S : x <= y
  BY LeastNatural
<1> QED
  BY <1>1 DEF Min

LEMMA MaxThere ==
  ASSUME NEW b \in Nat, NEW S \in SUBSET (0..b), S # {}
  PROVE  Max(S) \in S /\ \A y \in S : y <= Max(S)
<1> DEFINE Gaps == {b - h : h \in S}
<1>0. \A h \in S : h \in Int /\ b - h \in Nat
  OBVIOUS
<1>1. Gaps \in SUBSET Nat /\ Gaps # {}
  BY <1>0
<1>2. PICK n \in Gaps : \A m \in Gaps : n <= m
  BY <1>1, LeastNatural
<1>3. PICK h \in S : n = b - h
  BY <1>2
<1>4. \A g \in S : b - g \in Gaps
  OBVIOUS
<1>5. \A g \in S : n <= b - g
  BY <1>2, <1>4
<1>6. \E x \in S : \A y \in S : x >= y
  <2> HIDE DEF Gaps
  <2>1. \A g \in S : h >= g
    BY <1>0, <1>3, <1>5
  <2> QED
    BY <2>1
<1>7. Max(S) \in S /\ \A y \in S : Max(S) >= y
  BY <1>6 DEF Max
<1> QED
  BY <1>0, <1>7

LEMMA MinOfTwo ==
  ASSUME NEW a \in Int, NEW b \in Int
  PROVE  Min({a, b}) = IF a <= b THEN a ELSE b
<1>1. \E x \in {a, b} : \A y \in {a, b} : x <= y
  OBVIOUS
<1>2. Min({a, b}) \in {a, b} /\ \A y \in {a, b} : Min({a, b}) <= y
  BY <1>1 DEF Min
<1> QED
  BY <1>2

LEMMA MaxOfTwo ==
  ASSUME NEW a \in Int, NEW b \in Int
  PROVE  Max({a, b}) = IF a >= b THEN a ELSE b
<1>1. \E x \in {a, b} : \A y \in {a, b} : x >= y
  OBVIOUS
<1>2. Max({a, b}) \in {a, b} /\ \A y \in {a, b} : Max({a, b}) >= y
  BY <1>1 DEF Max
<1> QED
  BY <1>2

\* The origin times of rows are finitely many hours.
LEMMA TimesAreHours ==
  ASSUME NEW rows \in SUBSET Row
  PROVE  /\ TimesOf(rows) \in SUBSET MeasuredHours
         /\ IsFiniteSet(TimesOf(rows))
         /\ Cardinality(TimesOf(rows)) \in Nat
<1> USE TrainingAssumption
<1>1. \A r \in rows : r.origin \in MeasuredHours
  BY DEF Row
<1>2. TimesOf(rows) \in SUBSET MeasuredHours
  BY <1>1 DEF TimesOf
<1>3. IsFiniteSet(MeasuredHours)
  BY FS_Interval DEF MeasuredHours
<1> QED
  BY <1>2, <1>3, FS_Subset, FS_CardinalityType

\* The position of a time counts the origin times up to it, so it orders them.
LEMMA PositionOrders ==
  ASSUME NEW rows \in SUBSET Row, NEW a \in MeasuredHours, NEW b \in MeasuredHours
  PROVE  /\ Position(a, rows) \in 0..Cardinality(TimesOf(rows))
         /\ a <= b => Position(a, rows) <= Position(b, rows)
<1> USE TrainingAssumption
<1> DEFINE UpTo(t) == {u \in TimesOf(rows) : u <= t}
<1>1. \A t : UpTo(t) \in SUBSET TimesOf(rows) /\ IsFiniteSet(UpTo(t))
  BY TimesAreHours, FS_Subset
<1>2. \A t : Cardinality(UpTo(t)) \in 0..Cardinality(TimesOf(rows))
  BY <1>1, TimesAreHours, FS_Subset, FS_CardinalityType
<1>3. ASSUME a <= b PROVE Cardinality(UpTo(a)) <= Cardinality(UpTo(b))
  <2>1. \A u \in TimesOf(rows) : u \in Int
    BY TimesAreHours DEF MeasuredHours
  <2>2. UpTo(a) \subseteq UpTo(b)
    BY <1>3, <2>1 DEF MeasuredHours
  <2> HIDE DEF UpTo
  <2> QED
    BY <2>2, <1>1, FS_Subset
<1> QED
  BY <1>2, <1>3 DEF Position

\* What lies in a later part is later.
LEMMA PartsInOrder ==
  ASSUME NEW rows \in SUBSET Row, NEW r \in rows, NEW v \in rows, NEW k \in Int,
         Position(r.origin, rows) <= k, Position(v.origin, rows) > k
  PROVE  r.origin < v.origin
<1>1. r.origin \in MeasuredHours /\ v.origin \in MeasuredHours
  BY DEF Row
<1>2. Cardinality(TimesOf(rows)) \in Nat
  BY TimesAreHours
<1>3. v.origin <= r.origin => Position(v.origin, rows) <= Position(r.origin, rows)
  BY <1>1, PositionOrders
<1>4. Position(r.origin, rows) \in Int /\ Position(v.origin, rows) \in Int
  BY <1>1, <1>2, PositionOrders
<1> QED
  BY <1>1, <1>3, <1>4, TrainingAssumption DEF MeasuredHours

LEMMA BoundaryInside ==
  ASSUME NEW rows \in SUBSET Row, Cardinality(TimesOf(rows)) >= 2
  PROVE  Boundary(rows) \in 1..Cardinality(TimesOf(rows)) - 1
<1> DEFINE n == Cardinality(TimesOf(rows))
           x == (n * (HoldoutParts - 1)) \div HoldoutParts
<1>1. n \in Nat /\ n >= 2
  BY TimesAreHours
<1>2. n * (HoldoutParts - 1) \in Int
  BY <1>1, TrainingAssumption
<1>3. x \in Int
  BY <1>2, TrainingAssumption
<1>4. Boundary(rows) = Max({1, Min({n - 1, x})})
  BY DEF Boundary
<1> HIDE DEF n, x
<1>5. Min({n - 1, x}) = IF n - 1 <= x THEN n - 1 ELSE x
  BY <1>1, <1>3, MinOfTwo
<1>6. Min({n - 1, x}) \in Int /\ Min({n - 1, x}) <= n - 1
  BY <1>1, <1>3, <1>5
<1>7. Boundary(rows) = IF 1 >= Min({n - 1, x}) THEN 1 ELSE Min({n - 1, x})
  BY <1>4, <1>6, MaxOfTwo
<1>8. Boundary(rows) \in 1..n - 1
  BY <1>1, <1>6, <1>7
<1> QED
  BY <1>8 DEF n

\* With two origin times both parts of a frame have rows, and the holdout is the later
\* one, whatever rows the policy has left (trainer.py:660).
LEMMA HoldoutIsLater ==
  ASSUME NEW rows \in SUBSET Row, Enough(rows)
  PROVE  /\ TrainRows(rows) # {} /\ HoldoutRows(rows) # {}
         /\ \A r \in TrainRows(rows), v \in HoldoutRows(rows) : r.origin < v.origin
<1> USE TrainingAssumption
<1> DEFINE times == TimesOf(rows)
           n == Cardinality(times)
<1>1. n \in Nat /\ n >= 2 /\ times \in SUBSET MeasuredHours /\ IsFiniteSet(times)
  BY TimesAreHours DEF Enough
<1>2. times # {}
  BY <1>1, FS_EmptySet
<1>3. times \in SUBSET Nat /\ times \in SUBSET (0..LastMeasured)
  BY <1>1 DEF MeasuredHours
<1>4. Boundary(rows) \in 1..n - 1
  BY <1>1, BoundaryInside
<1>5. PICK first \in rows : \A y \in times : first.origin <= y
  <2>1. Min(times) \in times /\ \A y \in times : Min(times) <= y
    BY <1>2, <1>3, MinThere
  <2>2. PICK r \in rows : r.origin = Min(times)
    BY <2>1 DEF TimesOf
  <2> QED
    BY <2>1, <2>2
<1>6. PICK last \in rows : \A y \in times : y <= last.origin
  <2>1. Max(times) \in times /\ \A y \in times : y <= Max(times)
    BY <1>2, <1>3, MaxThere
  <2>2. PICK r \in rows : r.origin = Max(times)
    BY <2>1 DEF TimesOf
  <2> QED
    BY <2>1, <2>2
<1>7. Position(first.origin, rows) = 1
  <2>1. first.origin \in times
    BY DEF TimesOf
  <2>2. \A u \in times : u \in Int
    BY <1>3
  <2> HIDE DEF times
  <2>3. {u \in times : u <= first.origin} = {first.origin}
    BY <1>5, <2>1, <2>2
  <2> QED
    BY <2>3, FS_Singleton DEF Position, times
<1>8. Position(last.origin, rows) = n
  <2>1. {u \in times : u <= last.origin} = times
    BY <1>6
  <2> QED
    BY <2>1 DEF Position
<1> HIDE DEF n, times
<1>9. first \in TrainRows(rows)
  BY <1>4, <1>7, <1>1 DEF TrainRows
<1>10. last \in HoldoutRows(rows)
  BY <1>4, <1>8, <1>1 DEF HoldoutRows
<1>11. ASSUME NEW r \in TrainRows(rows), NEW v \in HoldoutRows(rows)
       PROVE  r.origin < v.origin
  BY <1>1, <1>4, PartsInOrder DEF TrainRows, HoldoutRows
<1> QED
  BY <1>9, <1>10, <1>11

LEMMA FoldsInRange ==
  ASSUME NEW rows \in SUBSET Row
  PROVE  FoldsOf(rows) \in 2..Folds
<1>0. Folds \in Nat /\ Folds >= 2
  BY TrainingAssumption
<1> DEFINE h == Cardinality(TimesOf(rows)) \div 2
<1>1. h \in Int
  BY TimesAreHours
<1> HIDE DEF h
<1>2. Max({2, h}) = IF 2 >= h THEN 2 ELSE h
  BY <1>1, MaxOfTwo
<1>3. Max({2, h}) \in Int /\ Max({2, h}) >= 2
  BY <1>1, <1>2
<1>4. Min({Folds, Max({2, h})}) = IF Folds <= Max({2, h}) THEN Folds ELSE Max({2, h})
  BY <1>0, <1>3, MinOfTwo
<1> QED
  BY <1>0, <1>3, <1>4 DEF FoldsOf, h

\* A fold of the cross-fit has learnt from origins before every one it predicts.
LEMMA FoldsInOrder ==
  ASSUME NEW rows \in SUBSET Row, NEW i \in Nat, FoldTrain(rows, i) # {}
  PROVE  /\ Learnt(rows, i) \in MeasuredHours
         /\ \A r \in FoldValid(rows, i) : Learnt(rows, i) < r.origin
<1>0. LastMeasured \in Nat
  BY TrainingAssumption
<1>1. FoldEnd(rows, i) \in Int
  <2>1. Cardinality(TimesOf(rows)) \in Nat /\ FoldsOf(rows) \in 2..Folds
    BY TimesAreHours, FoldsInRange
  <2>2. i * Cardinality(TimesOf(rows)) \in Int
    BY <2>1
  <2>3. FoldsOf(rows) + 1 \in Nat /\ FoldsOf(rows) + 1 > 0
    BY <2>1
  <2> QED
    BY <2>2, <2>3 DEF FoldEnd
<1>2. FoldTrain(rows, i) \in SUBSET rows /\ FoldTrain(rows, i) \in SUBSET Row
  BY DEF FoldTrain
<1>3. TimesOf(FoldTrain(rows, i)) \in SUBSET (0..LastMeasured)
  BY <1>2, TimesAreHours DEF MeasuredHours
<1>4. TimesOf(FoldTrain(rows, i)) # {}
  <2>1. PICK u : u \in FoldTrain(rows, i)
    OBVIOUS
  <2> QED
    BY <2>1 DEF TimesOf
<1>5. Learnt(rows, i) \in TimesOf(FoldTrain(rows, i))
  BY <1>0, <1>3, <1>4, MaxThere DEF Learnt
<1>6. PICK u \in FoldTrain(rows, i) : u.origin = Learnt(rows, i)
  BY <1>5 DEF TimesOf
<1>7. u \in rows /\ Position(u.origin, rows) <= FoldEnd(rows, i)
  BY DEF FoldTrain
<1>8. ASSUME NEW r \in FoldValid(rows, i)
      PROVE  Learnt(rows, i) < r.origin
  <2>1. r \in rows /\ ~(Position(r.origin, rows) <= FoldEnd(rows, i))
    BY DEF FoldValid, FoldTrain
  <2>2. Position(r.origin, rows) \in Int
    <3>1. r.origin \in MeasuredHours
      BY <2>1 DEF Row
    <3>2. Position(r.origin, rows) \in 0..Cardinality(TimesOf(rows))
      BY <3>1, PositionOrders
    <3> QED
      BY <3>2
  <2>3. Position(r.origin, rows) > FoldEnd(rows, i)
    BY <1>1, <2>1, <2>2
  <2> QED
    BY <1>1, <1>6, <1>7, <2>1, <2>3, PartsInOrder
<1> QED
  BY <1>3, <1>5, <1>8 DEF MeasuredHours

-----------------------------------------------------------------------------
(* The training run: rows                                                   *)

LEMMA SelectionLeavesRows ==
  ASSUME NEW rows, NEW chosen \in BoundedSelect(rows)
  PROVE  chosen \subseteq rows
<1>1. Recent(rows) \subseteq rows
  BY DEF Recent
<1>2. CASE Cardinality(rows) <= MaximumRows
  BY <1>2 DEF BoundedSelect
<1>3. CASE ~(Cardinality(rows) <= MaximumRows)
  <2>1. PICK r \in rows : chosen \in UpToCap(Recent(rows) \cup {r}, rows)
    BY <1>3 DEF BoundedSelect
  <2>2. Recent(rows) \cup {r} \subseteq rows
    BY <1>1
  <2> QED
    BY <2>1, <2>2 DEF UpToCap, kSubset
<1> QED
  BY <1>2, <1>3

LEMMA RowsAreRows ==
  ASSUME NEW t
  PROVE  Rows(t) \in SUBSET Row
  BY DEF Rows

LEMMA FiniteIsBounded ==
  ASSUME NEW S \in SUBSET Nat, IsFiniteSet(S), S # {}
  PROVE  \E b \in S : \A s \in S : s <= b
<1> DEFINE Above(q) == {s \in S : s > q}
           Sets == {Above(q) : q \in S}
<1>1. Sets # {} /\ Sets \subseteq SUBSET S
  OBVIOUS
<1>2. IsWellFoundedOn(StrictSubsetOrdering(S), SUBSET S)
  BY FS_StrictSubsetOrderingWellFounded, FS_FiniteSubsetsOfFinite
<1>3. \E least \in Sets : \A other \in Sets : <<other, least>> \notin StrictSubsetOrdering(S)
  <2> HIDE DEF Sets
  <2> QED
    BY <1>1, <1>2, WFMin
<1>4. PICK b \in S : \A q \in S : <<Above(q), Above(b)>> \notin StrictSubsetOrdering(S)
  BY <1>3
<1>5. ASSUME NEW s \in S, s > b
      PROVE  FALSE
  <2>1. s \in Above(b) /\ s \notin Above(s) /\ \A t \in S : t > s => t > b
    BY <1>5
  <2>2. <<Above(s), Above(b)>> \in StrictSubsetOrdering(S)
    BY <2>1 DEF StrictSubsetOrdering
  <2> QED
    BY <1>4, <2>2
<1> QED
  BY <1>4, <1>5

\* The choice among the candidates of a target is one of them.
LEMMA ScoresAreNumbers ==
  Scores \cup {Infinite} \in SUBSET Nat
<1>1. Scores \in SUBSET Nat /\ IsFiniteSet(Scores) /\ Scores # {} /\ MinGain \in Nat
  BY TrainingAssumption
<1>2. PICK b \in Nat : \A s \in Scores : s <= b
  BY <1>1, FiniteIsBounded
<1>3. Scores \in SUBSET (0..b)
  BY <1>1, <1>2
<1>4. Max(Scores) \in Nat
  BY <1>1, <1>3, MaxThere
<1>5. Infinite \in Nat
  BY <1>1, <1>4 DEF Infinite
<1> QED
  BY <1>1, <1>5

LEMMA BestIsFitted ==
  ASSUME candidates \in Seq(Candidate), candidates # <<>>
  PROVE  \E i \in DOMAIN candidates : Best = candidates[i]
<1> DEFINE scores == {candidates[i].score : i \in DOMAIN candidates}
           least == Min(scores)
           firsts == {i \in DOMAIN candidates : candidates[i].score = least}
<1>1. DOMAIN candidates \in SUBSET Nat /\ DOMAIN candidates # {}
  <2>1. DOMAIN candidates = 1..Len(candidates) /\ Len(candidates) \in Nat
    OBVIOUS
  <2>2. Len(candidates) # 0
    BY EmptySeq
  <2>3. 1 \in 1..Len(candidates) /\ 1..Len(candidates) \in SUBSET Nat
    BY <2>1, <2>2
  <2> QED
    BY <2>1, <2>3
<1>2. \A i \in DOMAIN candidates : candidates[i] \in Candidate
  OBVIOUS
<1>3. \A i \in DOMAIN candidates : candidates[i].score \in Nat
  BY <1>2, ScoresAreNumbers DEF Candidate
<1>4. scores \in SUBSET Nat /\ scores # {}
  BY <1>1, <1>3
<1>5. least \in scores
  BY <1>4, MinThere
<1>6. firsts \in SUBSET Nat /\ firsts # {}
  BY <1>1, <1>5
<1>7. Min(firsts) \in firsts
  BY <1>6, MinThere
<1>8. Best = candidates[Min(firsts)]
  BY DEF Best
<1> QED
  BY <1>7, <1>8

LEMMA PersistenceIsFitted ==
  ASSUME candidates \in Seq(Candidate)
  PROVE  /\ PersistenceScore \in Errors
         /\ PersistenceScore # NoScore =>
              "persistence" \in Providers /\ PersistenceScore \in Scores \cup {Infinite}
<1> DEFINE fitted == {i \in DOMAIN candidates : candidates[i].provider = "persistence"}
           i == CHOOSE i \in fitted : TRUE
<1>1. \A j \in DOMAIN candidates : candidates[j] \in Candidate
  OBVIOUS
<1>2. CASE fitted = {}
  <2>1. PersistenceScore = NoScore
    BY <1>2 DEF PersistenceScore
  <2> QED
    BY <2>1 DEF Errors
<1>3. CASE fitted # {}
  <2>1. i \in fitted
    BY <1>3
  <2>2. PersistenceScore = candidates[i].score
    BY <1>3 DEF PersistenceScore
  <2> HIDE DEF i
  <2>3. candidates[i] \in Candidate /\ candidates[i].provider = "persistence"
    BY <1>1, <2>1
  <2> QED
    BY <2>2, <2>3 DEF Candidate, Errors
<1> QED
  BY <1>2, <1>3

LEMMA ChoiceIsCandidate ==
  ASSUME candidates \in Seq(Candidate), candidates # <<>>
  PROVE  Choice \in Candidate
<1>1. Best \in Candidate
  <2>1. PICK i \in DOMAIN candidates : Best = candidates[i]
    BY BestIsFitted
  <2> QED
    BY <2>1
<1>2. Compared(PersistenceScore) =>
        [provider |-> "persistence", score |-> PersistenceScore] \in Candidate
  BY PersistenceIsFitted DEF Compared, Candidate
<1> QED
  BY <1>1, <1>2 DEF Choice

LEMMA NextWeatherThere ==
  ASSUME NEW i \in Nat
  PROVE  /\ NextWeather(i) \in 1..Over
         /\ NextWeather(i) # Over =>
              Order[NextWeather(i)] \in WeatherTargets /\ frames[Order[NextWeather(i)]] # {}
<1> DEFINE later == {j \in (i + 1)..Len(Order) :
                       Order[j] \in WeatherTargets /\ frames[Order[j]] # {}}
<1>1. Len(Order) \in Nat /\ Over \in Nat /\ Over = Len(Order) + 1
  BY TrainingAssumption DEF Over
<1>2. later \cup {Over} \in SUBSET Nat /\ later \cup {Over} # {}
  BY <1>1
<1>3. NextWeather(i) = Min(later \cup {Over})
  BY DEF NextWeather
<1>4. NextWeather(i) \in later \cup {Over}
  BY <1>2, <1>3, MinThere
<1> QED
  BY <1>1, <1>4

-----------------------------------------------------------------------------
(* The training run: its steps                                             *)

\* What a run reads and the policy it runs under are settled when it starts.
Fixed == measured' = measured /\ policy' = policy

LEMMA TrainingInputsStay ==
  ASSUME [TrainingNext]_trainingVars
  PROVE  Fixed
<1>1. CASE UNCHANGED trainingVars
  BY <1>1 DEF trainingVars, data, Fixed
<1>2. CASE TrainingNext
  BY <1>2 DEF TrainingNext, TimeRunsOut, Load, StartCrossFit, FitFold, FoldFails, Open, FitCandidate,
              SkipRest, Choose, Judge, Fail, Finish, data, Fixed
<1> QED
  BY <1>1, <1>2

LEMMA OrderLists ==
  /\ Len(Order) \in Nat \ {0} /\ Over = Len(Order) + 1
  /\ Order \in [1..Len(Order) -> Targets]
  /\ \A i, j \in 1..Len(Order) : Order[i] = Order[j] => i = j
  /\ Targets = {Order[i] : i \in 1..Len(Order)}
<1>1. Order \in Seq(Targets) /\ Order # <<>> /\ IsInjective(Order)
  BY TrainingAssumption
<1>2. Len(Order) \in Nat \ {0} /\ DOMAIN Order = 1..Len(Order)
  BY <1>1, EmptySeq
<1>3. Order \in [1..Len(Order) -> Targets]
  BY <1>1, <1>2
<1> QED
  BY <1>1, <1>2, <1>3 DEF IsInjective, Targets, Range, Over

LEMMA MethodsListed ==
  ASSUME turn \in 1..Len(Order)
  PROVE  /\ Target \in Targets
         /\ Len(Methods) \in Nat \ {0}
         /\ Methods \in [1..Len(Methods) -> Providers]
         /\ \A i, j \in 1..Len(Methods) : Methods[i] = Methods[j] => i = j
         /\ Range(Algorithms[Target]) = {Methods[i] : i \in 1..Len(Methods)}
<1>1. Target \in Targets
  BY OrderLists DEF Target
<1>2. Methods \in Seq(Range(Methods)) /\ Methods # <<>> /\ IsInjective(Methods)
  BY <1>1, TrainingAssumption DEF Methods
<1>3. Len(Methods) \in Nat \ {0} /\ DOMAIN Methods = 1..Len(Methods)
  BY <1>2, EmptySeq
<1>4. Range(Methods) \subseteq Providers
  BY <1>1 DEF Methods, Providers
<1>5. Methods \in [1..Len(Methods) -> Range(Methods)]
  BY <1>2, <1>3
<1> QED
  BY <1>1, <1>2, <1>3, <1>4, <1>5 DEF IsInjective, Range, Methods

LEMMA MarksType ==
  ASSUME TrainingTypeOK, turn \in 1..Len(Order), NEW set, NEW value \in Planned
  PROVE  /\ Mark(set, value) \in [Targets -> [Providers -> Planned]]
         /\ \A t \in Targets, p \in Providers :
              Mark(set, value)[t][p] = IF t = Target /\ p \in set THEN value ELSE plan[t][p]
<1>1. plan \in [Targets -> [Providers -> Planned]]
  BY DEF TrainingTypeOK
<1>2. [p \in Providers |-> IF p \in set THEN value ELSE plan[Target][p]] \in [Providers -> Planned]
  BY <1>1, MethodsListed
<1> QED
  BY <1>1, <1>2 DEF Mark

LEMMA MoveOnType ==
  ASSUME TrainingTypeOK, turn \in 1..Len(Order), NEW outcome \in Final, MoveOn(outcome)
  PROVE  /\ status' \in [Targets -> Statuses]
         /\ \A t \in Targets : status'[t] = IF t = Target THEN outcome ELSE status[t]
         /\ candidates' = <<>> /\ candidates' \in Seq(Candidate)
         /\ turn' = turn + 1 /\ turn' \in 1..Len(Order) + 1
         /\ phase' = IF turn = Len(Order) THEN "end" ELSE "targets"
<1>1. status \in [Targets -> Statuses] /\ outcome \in Statuses
  BY DEF TrainingTypeOK, Final
<1>2. Len(Order) \in Nat
  BY OrderLists
<1>3. status' = [status EXCEPT ![Target] = outcome] /\ candidates' = <<>> /\ turn' = turn + 1
  BY DEF MoveOn
<1>4. <<>> \in Seq(Candidate)
  BY EmptySeq
<1>5. phase' = IF turn = Len(Order) THEN "end" ELSE "targets"
  BY DEF MoveOn
<1>6. turn' \in 1..Len(Order) + 1
  BY <1>2, <1>3
<1>7. status' \in [Targets -> Statuses]
  BY <1>1, <1>3
<1>8. \A t \in Targets : status'[t] = IF t = Target THEN outcome ELSE status[t]
  BY <1>1, <1>3
<1> QED
  BY <1>3, <1>4, <1>5, <1>6, <1>7, <1>8

Untried(t) == \A p \in Providers : plan[t][p] = "planned"
Undecided(t) == status[t] \notin Final

\* The targets are trained in their order: the ones to come are untouched, and the
\* candidates are those of the target in hand.
TakesTurns ==
    /\ phase \notin {"end", "done", "aborted"} => turn \in 1..Len(Order)
    /\ \A i \in 1..Len(Order) :
         phase = "load" \/ i > turn => Untried(Order[i]) /\ Undecided(Order[i])
    /\ phase \in {"targets", "crossfit"} => Untried(Target) /\ Undecided(Target)
    /\ phase \in {"fit", "judge"} => Undecided(Target)
    /\ phase \in {"load", "targets", "crossfit", "end"} => candidates = <<>>
    /\ phase = "crossfit" => Weather \in WeatherTargets

TriedUpTo(n) ==
    \A i \in 1..Len(Methods) : plan[Target][Methods[i]] # "planned" <=> i <= n

\* The methods of a target are tried in their order, and until one is complete all that
\* were tried have failed: none is skipped.
FitsInTurn ==
    phase = "fit" =>
        /\ \E n \in 0..Len(Methods) : TriedUpTo(n)
        /\ IF candidates = <<>>
           THEN \A i \in 1..Len(Methods) : plan[Target][Methods[i]] \in {"planned", "failed"}
           ELSE \E p \in Providers : plan[Target][p] = "trained"

ChoiceTrained ==
    phase = "judge" => candidates # <<>> /\ \E p \in Providers : plan[Target][p] = "trained"

TrainingInv ==
    /\ TrainingTypeOK /\ PredictedFromPast
    /\ TakesTurns /\ FitsInTurn /\ ChoiceTrained /\ BudgetNeverStarves

LEMMA InitTrainingInv == TrainingInit => TrainingInv
<1> SUFFICES ASSUME TrainingInit PROVE TrainingInv
  OBVIOUS
<1>1. Len(Order) \in Nat \ {0} /\ Order \in [1..Len(Order) -> Targets] /\ Over = Len(Order) + 1
  BY OrderLists
<1>2. <<>> \in Seq(Candidate) /\ DOMAIN <<>> = {}
  BY EmptySeq
<1>3. TrainingTypeOK
  <2>1. fold \in [index : 0..Over, number : 1..Folds] /\ turn \in 1..Len(Order) + 1
    BY <1>1, TrainingAssumption DEF TrainingInit
  <2>2. DOMAIN predicted = WeatherTargets /\ \A w \in WeatherTargets : predicted[w] = <<>>
    BY DEF TrainingInit
  <2>3. \A w \in WeatherTargets : /\ DOMAIN predicted[w] \subseteq Row
                                  /\ Range(predicted[w]) \subseteq MeasuredHours
    BY <1>2, <2>2 DEF Range
  <2>4. frames \in [Targets -> SUBSET Row] /\ plan \in [Targets -> [Providers -> Planned]]
    BY DEF TrainingInit, Planned
  <2>5. status \in [Targets -> Statuses] /\ active \in [Targets -> Models]
    BY DEF TrainingInit, Statuses, Models
  <2>6. comparison \in Comparison
    BY DEF TrainingInit, NoComparison, Comparison, Errors
  <2> QED
    BY <1>2, <2>1, <2>2, <2>3, <2>4, <2>5, <2>6 DEF TrainingInit, TrainingTypeOK
<1>4. PredictedFromPast
  BY <1>2 DEF TrainingInit, PredictedFromPast
<1>5. \A t \in Targets : Untried(t) /\ Undecided(t)
  BY DEF TrainingInit, Untried, Undecided, Final, None
<1>6. TakesTurns /\ FitsInTurn /\ ChoiceTrained
  BY <1>1, <1>5 DEF TrainingInit, TakesTurns, FitsInTurn, ChoiceTrained
<1>7. BudgetNeverStarves
  BY <1>5 DEF BudgetNeverStarves, Undecided
<1> QED
  BY <1>3, <1>4, <1>6, <1>7 DEF TrainingInv

\* What a fold adds to the predictions of its weather target.
LEMMA FoldAdds ==
  ASSUME TrainingTypeOK, FoldFits, Weather \in WeatherTargets
  PROVE  LET x == FoldPrediction(frames[Weather], fold.number, predicted[Weather])
         IN  /\ DOMAIN x \subseteq Row /\ Range(x) \subseteq MeasuredHours
             /\ \A r \in DOMAIN x :
                  \/ r \in DOMAIN predicted[Weather] /\ x[r] = predicted[Weather][r]
                  \/ x[r] < r.origin
<1> DEFINE rows == frames[Weather]
           i == fold.number
           before == predicted[Weather]
           valid == FoldValid(rows, i) \cap Basis
           x == FoldPrediction(rows, i, before)
<1>1. Weather \in Targets
  BY TrainingAssumption
<1>2. rows \in SUBSET Row /\ i \in Nat
  <2>1. fold.number \in 1..Folds /\ Folds \in Nat
    BY TrainingAssumption DEF TrainingTypeOK
  <2> QED
    BY <1>1, <2>1 DEF TrainingTypeOK
<1>3. FoldTrain(rows, i) # {}
  <2>1. Cardinality(FoldTrain(rows, i)) >= FoldRows /\ FoldRows \in Nat \ {0}
    BY TrainingAssumption DEF FoldFits
  <2> QED
    BY <2>1, FS_EmptySet
<1>4. Learnt(rows, i) \in MeasuredHours /\ \A r \in valid : Learnt(rows, i) < r.origin
  BY <1>2, <1>3, FoldsInOrder
<1>5. valid \in SUBSET Row
  BY <1>2 DEF FoldValid, FoldTrain
<1>6. DOMAIN before \subseteq Row /\ \A r \in DOMAIN before : before[r] \in MeasuredHours
  BY DEF TrainingTypeOK, Range
<1> HIDE DEF valid, rows, i, before
<1>7. x = [r \in valid \cup DOMAIN before |-> IF r \in valid THEN Learnt(rows, i) ELSE before[r]]
  BY DEF FoldPrediction, valid
<1>8. DOMAIN x = valid \cup DOMAIN before
  BY <1>7
<1>9. \A r \in DOMAIN x : /\ x[r] \in MeasuredHours
                          /\ \/ r \in DOMAIN before /\ x[r] = before[r]
                             \/ x[r] < r.origin
  BY <1>4, <1>6, <1>7, <1>8
<1> HIDE DEF x
<1>10. DOMAIN x \subseteq Row /\ Range(x) \subseteq MeasuredHours
  BY <1>5, <1>6, <1>8, <1>9 DEF Range
<1> QED
  BY <1>9, <1>10 DEF x, rows, i, before

\* A step of the cross-fit, taken or passed over.
LEMMA CrossFitStep ==
  ASSUME TrainingTypeOK, PredictedFromPast, TakesTurns, FitFold
  PROVE  /\ DOMAIN predicted' = WeatherTargets
         /\ \A w \in WeatherTargets :
              /\ DOMAIN predicted'[w] \subseteq Row /\ Range(predicted'[w]) \subseteq MeasuredHours
              /\ \A r \in DOMAIN predicted'[w] : predicted'[w][r] < r.origin
         /\ fold' \in [index : 0..Over, number : 1..Folds]
         /\ phase' \in {"targets", "crossfit"}
         /\ phase' = "crossfit" => Weather' \in WeatherTargets
<1>0. Over \in Nat /\ fold.index \in 0..Over /\ fold.number \in 1..Folds /\ Folds \in Nat
      /\ fold \in [index : 0..Over, number : 1..Folds]
  BY OrderLists, TrainingAssumption DEF TrainingTypeOK
<1>1. /\ DOMAIN predicted = WeatherTargets
      /\ \A w \in WeatherTargets :
           /\ DOMAIN predicted[w] \subseteq Row /\ Range(predicted[w]) \subseteq MeasuredHours
           /\ \A r \in DOMAIN predicted[w] : predicted[w][r] < r.origin
  BY DEF TrainingTypeOK, PredictedFromPast
<1> DEFINE FromPast == /\ DOMAIN predicted' = WeatherTargets
                       /\ \A w \in WeatherTargets :
                            /\ DOMAIN predicted'[w] \subseteq Row
                            /\ Range(predicted'[w]) \subseteq MeasuredHours
                            /\ \A r \in DOMAIN predicted'[w] : predicted'[w][r] < r.origin
<1>2. ASSUME ~FoldFits PROVE FromPast
  <2>1. predicted' = predicted
    BY <1>2 DEF FitFold
  <2> QED
    BY <1>1, <2>1
<1>3. ASSUME FoldFits PROVE FromPast
  <2> DEFINE x == FoldPrediction(frames[Weather], fold.number, predicted[Weather])
  <2>1. predicted' = [predicted EXCEPT ![Weather] = x]
    BY <1>3 DEF FitFold
  <2>2. \A w \in WeatherTargets : predicted'[w] = IF w = Weather THEN x ELSE predicted[w]
    BY <1>1, <2>1
  <2>3. DOMAIN predicted' = WeatherTargets
    BY <1>1, <2>1
  <2>4. ASSUME Weather \in WeatherTargets
        PROVE  /\ DOMAIN x \subseteq Row /\ Range(x) \subseteq MeasuredHours
               /\ \A r \in DOMAIN x : x[r] < r.origin
    BY <1>1, <1>3, <2>4, FoldAdds
  <2> HIDE DEF x
  <2> QED
    BY <1>1, <2>2, <2>3, <2>4
<1>4. Weather \in WeatherTargets /\ Weather \in Targets
  BY TrainingAssumption DEF TakesTurns, FitFold
<1>5. /\ fold' \in [index : 0..Over, number : 1..Folds] /\ phase' \in {"targets", "crossfit"}
      /\ phase' = "crossfit" => Weather' \in WeatherTargets
  <2>1. CASE ShouldContinue(1) /\ fold.number < FoldsOf(frames[Weather])
    <3>1. fold' = [fold EXCEPT !.number = @ + 1] /\ phase' = "crossfit"
      BY <2>1 DEF FitFold
    <3>2. FoldsOf(frames[Weather]) \in 2..Folds
      BY <1>4, FoldsInRange DEF TrainingTypeOK
    <3>3. fold.number + 1 \in 1..Folds
      BY <1>0, <2>1, <3>2
    <3>4. fold'.index = fold.index /\ fold' \in [index : 0..Over, number : 1..Folds]
      BY <1>0, <3>1, <3>3
    <3> QED
      BY <1>4, <3>1, <3>4 DEF Weather
  <2>2. CASE ~(ShouldContinue(1) /\ fold.number < FoldsOf(frames[Weather]))
    <3>1. TurnTo(NextWeather(fold.index))
      BY <2>2 DEF FitFold
    <3> DEFINE j == NextWeather(fold.index)
    <3>2. j \in 1..Over /\ (j # Over => Order[j] \in WeatherTargets)
      BY <1>0, NextWeatherThere
    <3> HIDE DEF j
    <3>3. fold' = [index |-> j, number |-> 1] /\ phase' = IF j = Over THEN "targets" ELSE "crossfit"
      BY <3>1 DEF TurnTo, j
    <3> QED
      BY <1>0, <3>2, <3>3 DEF Weather
  <2> QED
    BY <2>1, <2>2
<1> QED
  BY <1>2, <1>3, <1>5

LEMMA LoadedFrames ==
  ASSUME TrainingTypeOK, TakesTurns, Load
  PROVE  /\ frames' \in [Targets -> SUBSET Row]
         /\ phase' \in {"load", "targets", "aborted"}
         /\ phase' # "aborted" => turn' \in 1..Len(Order)
         /\ turn' \in 1..Len(Order) + 1
<1>0. Len(Order) \in Nat \ {0} /\ turn \in 1..Len(Order) /\ Target \in Targets
  BY OrderLists, MethodsListed DEF TakesTurns, Load
<1>1. frames \in [Targets -> SUBSET Row]
  BY DEF TrainingTypeOK
<1>2. CASE UNCHANGED <<turn, frames>> /\ phase' = "aborted"
  BY <1>0, <1>1, <1>2
<1>3. CASE /\ \E rows \in IF Target \in measured.missing THEN {{}} ELSE BoundedSelect(Rows(Target)) :
                frames' = [frames EXCEPT ![Target] = rows]
           /\ IF turn < Len(Order) THEN turn' = turn + 1 /\ UNCHANGED phase
                                   ELSE turn' = 1 /\ phase' = "targets"
  <2>1. PICK rows : /\ rows \in IF Target \in measured.missing THEN {{}} ELSE BoundedSelect(Rows(Target))
                    /\ frames' = [frames EXCEPT ![Target] = rows]
    BY <1>3
  <2>2. rows \subseteq Rows(Target) /\ Rows(Target) \in SUBSET Row
    BY <2>1, SelectionLeavesRows, RowsAreRows
  <2>3. frames' \in [Targets -> SUBSET Row]
    BY <1>0, <1>1, <2>1, <2>2
  <2>4. phase' \in {"load", "targets"} /\ turn' \in 1..Len(Order)
    BY <1>0, <1>3 DEF Load
  <2> QED
    BY <1>0, <2>3, <2>4
<1> QED
  BY <1>2, <1>3 DEF Load

LEMMA NextFrames ==
  ASSUME TrainingTypeOK, TakesTurns, [TrainingNext]_trainingVars
  PROVE  frames' \in [Targets -> SUBSET Row]
<1>1. CASE Load
  BY <1>1, LoadedFrames
<1>2. CASE frames' = frames
  BY <1>2 DEF TrainingTypeOK
<1>3. Load \/ frames' = frames
  BY DEF TrainingNext, trainingVars, TimeRunsOut, StartCrossFit, FitFold, FoldFails, Open, FitCandidate,
         SkipRest, Choose, Judge, Fail, Finish
<1> QED
  BY <1>1, <1>2, <1>3

LEMMA NextPredicted ==
  ASSUME TrainingTypeOK, PredictedFromPast, TakesTurns, [TrainingNext]_trainingVars
  PROVE  /\ DOMAIN predicted' = WeatherTargets
         /\ \A w \in WeatherTargets :
              DOMAIN predicted'[w] \subseteq Row /\ Range(predicted'[w]) \subseteq MeasuredHours
         /\ PredictedFromPast'
<1>1. CASE FitFold
  BY <1>1, CrossFitStep DEF PredictedFromPast
<1>2. CASE predicted' = predicted
  BY <1>2 DEF PredictedFromPast, TrainingTypeOK
<1>3. FitFold \/ predicted' = predicted
  BY DEF TrainingNext, trainingVars, weather, TimeRunsOut, Load, StartCrossFit, FoldFails, Open,
         FitCandidate, SkipRest, Choose, Judge, Fail, Finish
<1> QED
  BY <1>1, <1>2, <1>3

\* What a choice is registered as.
LEMMA RegisteredType ==
  ASSUME TrainingTypeOK, turn \in 1..Len(Order), candidates # <<>>,
         NEW incumbent \in Scores \cup {NoScore}, NEW gate \in BOOLEAN, Register(incumbent, gate)
  PROVE  /\ Outcome(Approved(incumbent, gate)) \in Final \ {"failed", "skipped_insufficient_data"}
         /\ comparison' \in Comparison /\ active' \in [Targets -> Models]
         /\ plan' = Mark({Choice.provider}, "selected") /\ Choice.provider \in Providers
         /\ plan' \in [Targets -> [Providers -> Planned]]
<1>1. Choice \in Candidate /\ PersistenceScore \in Errors
  BY ChoiceIsCandidate, PersistenceIsFitted DEF TrainingTypeOK
<1>2. Outcome(Approved(incumbent, gate)) \in Final \ {"failed", "skipped_insufficient_data"}
  BY DEF Outcome, Final, Statuses, None
<1>3. comparison' = [score |-> Choice.score, persistence |-> PersistenceScore, incumbent |-> incumbent]
  BY DEF Register
<1>4. comparison' \in Comparison
  BY <1>1, <1>3 DEF Comparison, Errors, Candidate
<1>5. active' = active \/ active' = [active EXCEPT ![Target] = "trained"]
  BY DEF Register
<1>6. active' \in [Targets -> Models]
  BY <1>5 DEF TrainingTypeOK, Models
<1>7. plan' = Mark({Choice.provider}, "selected") /\ Choice.provider \in Providers
  BY <1>1 DEF Register, Candidate
<1>8. plan' \in [Targets -> [Providers -> Planned]]
  BY <1>7, MarksType DEF Planned
<1> QED
  BY <1>2, <1>4, <1>6, <1>7, <1>8

\* The number of the method to try next counts the methods that were tried.
LEMMA NumberIsNext ==
  ASSUME turn \in 1..Len(Order), NEW n \in 0..Len(Methods), TriedUpTo(n)
  PROVE  Number = n + 1
<1>1. Len(Methods) \in Nat /\ DOMAIN Methods = 1..Len(Methods) /\ n \in Nat
  BY MethodsListed
<1>2. {i \in DOMAIN Methods : plan[Target][Methods[i]] \notin {"planned"}} = 1..n
  BY <1>1 DEF TriedUpTo
<1>3. Cardinality(1..n) = n
  BY <1>1, FS_Interval
<1> QED
  BY <1>2, <1>3 DEF Number

LEMMA Attempt ==
  ASSUME TrainingTypeOK, TakesTurns, FitsInTurn, FitCandidate
  PROVE  \E n \in 0..Len(Methods) - 1 :
           /\ TriedUpTo(n) /\ Methods[n + 1] \in Providers
           /\ \/ \E s \in Scores \cup {Infinite} :
                    /\ candidates' = Append(candidates, [provider |-> Methods[n + 1], score |-> s])
                    /\ plan' = Mark({Methods[n + 1]}, "trained")
              \/ plan' = Mark({Methods[n + 1]}, "failed") /\ candidates' = candidates
<1>1. turn \in 1..Len(Order)
  BY DEF TakesTurns, FitCandidate
<1>2. PICK n \in 0..Len(Methods) : TriedUpTo(n)
  BY DEF FitsInTurn, FitCandidate
<1>3. Number = n + 1 /\ Number <= Len(Methods) /\ Len(Methods) \in Nat
  BY <1>1, <1>2, NumberIsNext, MethodsListed DEF FitCandidate
<1>4. n \in 0..Len(Methods) - 1 /\ Methods[n + 1] \in Providers
  BY <1>1, <1>3, MethodsListed
<1> QED
  BY <1>2, <1>3, <1>4 DEF FitCandidate

LEMMA NextTrainingTypes ==
  ASSUME TrainingTypeOK, PredictedFromPast, TakesTurns, FitsInTurn, ChoiceTrained,
         [TrainingNext]_trainingVars
  PROVE  TrainingTypeOK'
<1> DEFINE Kept == /\ measured' \in Measured /\ policy' \in {"quality_gated", "candidate_only"}
                   /\ frames' \in [Targets -> SUBSET Row] /\ DOMAIN predicted' = WeatherTargets
                   /\ \A w \in WeatherTargets : DOMAIN predicted'[w] \subseteq Row
                                                /\ Range(predicted'[w]) \subseteq MeasuredHours
           Place == /\ phase' \in {"load", "targets", "fit", "judge", "crossfit", "end", "done", "aborted"}
                    /\ turn' \in 1..Len(Order) + 1
                    /\ fold' \in [index : 0..Over, number : 1..Folds]
                    /\ exhausted' \in BOOLEAN
           Verdicts == /\ candidates' \in Seq(Candidate) /\ plan' \in [Targets -> [Providers -> Planned]]
                       /\ status' \in [Targets -> Statuses] /\ active' \in [Targets -> Models]
                       /\ comparison' \in Comparison
<1>0. Kept
  BY NextFrames, NextPredicted, TrainingInputsStay DEF Fixed, TrainingTypeOK
<1>a. /\ candidates \in Seq(Candidate) /\ plan \in [Targets -> [Providers -> Planned]]
      /\ status \in [Targets -> Statuses] /\ active \in [Targets -> Models]
      /\ comparison \in Comparison
  BY DEF TrainingTypeOK
<1>b. /\ phase \in {"load", "targets", "fit", "judge", "crossfit", "end", "done", "aborted"}
      /\ turn \in 1..Len(Order) + 1 /\ fold \in [index : 0..Over, number : 1..Folds]
      /\ exhausted \in BOOLEAN
  BY DEF TrainingTypeOK
<1>c. NoComparison \in Comparison
  BY DEF NoComparison, Comparison, Errors
<1> HIDE DEF Kept
<1> SUFFICES Place /\ Verdicts
  BY <1>0 DEF Kept, TrainingTypeOK
<1>1. CASE UNCHANGED trainingVars
  BY <1>1, <1>a, <1>b DEF trainingVars, weather
<1>2. CASE TimeRunsOut \/ FoldFails
  BY <1>2, <1>a, <1>b DEF TimeRunsOut, FoldFails, weather
<1>3. CASE Load
  <2>1. phase' \in {"load", "targets", "aborted"} /\ turn' \in 1..Len(Order) + 1
    BY <1>3, LoadedFrames
  <2> QED
    BY <1>3, <1>a, <1>b, <2>1 DEF Load, weather
<1>4. CASE StartCrossFit
  <2>1. NextWeather(0) \in 1..Over /\ Over \in Nat /\ 1 \in 1..Folds
    BY NextWeatherThere, OrderLists, TrainingAssumption
  <2>2. fold' = [index |-> NextWeather(0), number |-> 1] /\ phase' \in {"targets", "crossfit"}
    BY <1>4 DEF StartCrossFit, TurnTo
  <2>3. fold' \in [index : 0..Over, number : 1..Folds]
    BY <2>1, <2>2
  <2> QED
    BY <1>4, <1>a, <1>b, <2>2, <2>3 DEF StartCrossFit
<1>5. CASE FitFold
  BY <1>5, <1>a, <1>b, CrossFitStep DEF FitFold
<1>6. CASE Open
  <2>1. turn \in 1..Len(Order) /\ Target \in Targets
    BY <1>6, MethodsListed DEF Open, TakesTurns
  <2>2. CASE Enough(frames[Target])
    <3>1. status' = [status EXCEPT ![Target] = "running"] /\ phase' = "fit" /\ UNCHANGED <<turn, candidates>>
      BY <1>6, <2>2 DEF Open
    <3>2. status' \in [Targets -> Statuses]
      BY <1>a, <3>1 DEF Statuses
    <3> QED
      BY <1>6, <1>a, <1>b, <1>c, <3>1, <3>2 DEF Open, weather
  <2>3. CASE ~Enough(frames[Target])
    <3>1. MoveOn("skipped_insufficient_data")
      BY <1>6, <2>3 DEF Open
    <3>2. /\ status' \in [Targets -> Statuses] /\ candidates' \in Seq(Candidate)
          /\ turn' \in 1..Len(Order) + 1 /\ phase' \in {"end", "targets"}
      BY <2>1, <3>1, MoveOnType DEF Final, Statuses, None
    <3> QED
      BY <1>6, <1>a, <1>b, <1>c, <3>2 DEF Open, weather
  <2> QED
    BY <2>2, <2>3
<1>7. CASE FitCandidate
  <2>1. turn \in 1..Len(Order)
    BY <1>7 DEF FitCandidate, TakesTurns
  <2>2. PICK n \in 0..Len(Methods) - 1 :
           /\ TriedUpTo(n) /\ Methods[n + 1] \in Providers
           /\ \/ \E s \in Scores \cup {Infinite} :
                    /\ candidates' = Append(candidates, [provider |-> Methods[n + 1], score |-> s])
                    /\ plan' = Mark({Methods[n + 1]}, "trained")
              \/ plan' = Mark({Methods[n + 1]}, "failed") /\ candidates' = candidates
    BY <1>7, Attempt
  <2>3. plan' \in [Targets -> [Providers -> Planned]]
    <3>1. "trained" \in Planned /\ "failed" \in Planned
      BY DEF Planned
    <3>2. \E value \in Planned : plan' = Mark({Methods[n + 1]}, value)
      BY <2>2, <3>1
    <3> QED
      BY <2>1, <3>2, MarksType
  <2>4. ASSUME NEW s \in Scores \cup {Infinite}
        PROVE  Append(candidates, [provider |-> Methods[n + 1], score |-> s]) \in Seq(Candidate)
    <3>1. [provider |-> Methods[n + 1], score |-> s] \in Candidate
      BY <2>2 DEF Candidate
    <3> QED
      BY <1>a, <3>1
  <2>5. candidates' \in Seq(Candidate)
    BY <1>a, <2>2, <2>4
  <2> QED
    BY <1>7, <1>a, <1>b, <2>3, <2>5 DEF FitCandidate, weather
<1>8. CASE SkipRest
  <2>1. plan' \in [Targets -> [Providers -> Planned]]
    BY <1>8, MarksType DEF SkipRest, TakesTurns, Planned
  <2> QED
    BY <1>8, <1>a, <1>b, <2>1 DEF SkipRest, weather
<1>9. CASE Choose \/ Fail
  <2>1. turn \in 1..Len(Order)
    BY <1>9 DEF Choose, Fail, TakesTurns
  <2>2. CASE MoveOn("failed")
    <3>1. /\ status' \in [Targets -> Statuses] /\ candidates' \in Seq(Candidate)
          /\ turn' \in 1..Len(Order) + 1 /\ phase' \in {"end", "targets"}
      BY <2>1, <2>2, MoveOnType DEF Final, Statuses, None
    <3> QED
      BY <1>9, <1>a, <1>b, <3>1 DEF Choose, Fail, weather
  <2>3. CASE phase' = "judge" /\ UNCHANGED <<turn, candidates, status>>
    BY <1>9, <1>a, <1>b, <2>3 DEF Choose, Fail, weather
  <2> QED
    BY <1>9, <2>2, <2>3 DEF Choose, Fail
<1>10. CASE Judge
  <2>1. turn \in 1..Len(Order) /\ candidates # <<>>
    BY <1>10 DEF Judge, TakesTurns, ChoiceTrained
  <2>2. PICK incumbent \in Scores \cup {NoScore}, gate \in BOOLEAN : Register(incumbent, gate)
    BY <1>10 DEF Judge
  <2>3. /\ comparison' \in Comparison /\ active' \in [Targets -> Models]
        /\ plan' \in [Targets -> [Providers -> Planned]]
        /\ Outcome(Approved(incumbent, gate)) \in Final
    BY <2>1, <2>2, RegisteredType
  <2>4. MoveOn(Outcome(Approved(incumbent, gate)))
    BY <2>2 DEF Register
  <2>5. /\ status' \in [Targets -> Statuses] /\ candidates' \in Seq(Candidate)
        /\ turn' \in 1..Len(Order) + 1 /\ phase' \in {"end", "targets"}
    BY <2>1, <2>3, <2>4, MoveOnType
  <2> QED
    BY <1>10, <1>b, <2>3, <2>5 DEF Judge, weather
<1>11. CASE Finish
  <2>1. active' \in [Targets -> Models]
    BY <1>11, <1>a DEF Finish, Models
  <2> QED
    BY <1>11, <1>a, <1>b, <1>c, <2>1 DEF Finish, weather
<1> QED
  BY <1>1, <1>2, <1>3, <1>4, <1>5, <1>6, <1>7, <1>8, <1>9, <1>10, <1>11 DEF TrainingNext

\* A step on the target in hand leaves the ones to come as they are.
LaterKept ==
    \A j \in 1..Len(Order) : j > turn =>
        plan'[Order[j]] = plan[Order[j]] /\ status'[Order[j]] = status[Order[j]]

LEMMA StaysAtTarget ==
  ASSUME TakesTurns, phase \notin {"load", "end", "done", "aborted"}, LaterKept,
         turn' = turn, phase' \in {"fit", "judge"}, status'[Target] \notin Final
  PROVE  TakesTurns'
<1>1. turn \in 1..Len(Order)
  BY DEF TakesTurns
<1>2. \A i \in 1..Len(Order) : i > turn => Untried(Order[i]) /\ Undecided(Order[i])
  BY DEF TakesTurns
<1>3. \A i \in 1..Len(Order) : i > turn => Untried(Order[i])' /\ Undecided(Order[i])'
  BY <1>2 DEF LaterKept, Untried, Undecided
<1>4. Undecided(Target)'
  BY DEF Undecided, Target
<1> QED
  BY <1>1, <1>3, <1>4 DEF TakesTurns

LEMMA MovesToNext ==
  ASSUME TakesTurns, phase \notin {"load", "end", "done", "aborted"}, LaterKept,
         turn' = turn + 1, candidates' = <<>>,
         phase' = IF turn = Len(Order) THEN "end" ELSE "targets"
  PROVE  TakesTurns'
<1>1. turn \in 1..Len(Order) /\ Len(Order) \in Nat
  BY OrderLists DEF TakesTurns
<1>2. \A i \in 1..Len(Order) : i > turn => Untried(Order[i]) /\ Undecided(Order[i])
  BY DEF TakesTurns
<1>3. \A i \in 1..Len(Order) : i > turn => Untried(Order[i])' /\ Undecided(Order[i])'
  BY <1>2 DEF LaterKept, Untried, Undecided
<1>4. \A i \in 1..Len(Order) : i > turn' => Untried(Order[i])' /\ Undecided(Order[i])'
  BY <1>1, <1>3
<1>5. phase' # "end" => turn' \in 1..Len(Order) /\ phase' = "targets"
  BY <1>1
<1>6. phase' # "end" => Untried(Target)' /\ Undecided(Target)'
  <2> SUFFICES ASSUME phase' # "end" PROVE Untried(Target)' /\ Undecided(Target)'
    OBVIOUS
  <2>1. turn' \in 1..Len(Order) /\ turn' > turn
    BY <1>1, <1>5
  <2>2. Target' = Order[turn']
    BY DEF Target
  <2> QED
    BY <1>3, <2>1, <2>2 DEF Untried, Undecided
<1> QED
  BY <1>4, <1>5, <1>6 DEF TakesTurns

LEMMA MarksOnlyTarget ==
  ASSUME TrainingTypeOK, turn \in 1..Len(Order), NEW set, NEW value \in Planned,
         plan' = Mark(set, value),
         \A t \in Targets : t # Target => status'[t] = status[t]
  PROVE  LaterKept
<1> SUFFICES ASSUME NEW j \in 1..Len(Order), j > turn
             PROVE  plan'[Order[j]] = plan[Order[j]] /\ status'[Order[j]] = status[Order[j]]
  BY DEF LaterKept
<1>1. Order[j] # Target /\ Order[j] \in Targets
  BY OrderLists DEF Target
<1>2. plan' \in [Targets -> [Providers -> Planned]] /\ plan \in [Targets -> [Providers -> Planned]]
  BY MarksType DEF TrainingTypeOK
<1>3. \A p \in Providers : plan'[Order[j]][p] = plan[Order[j]][p]
  BY <1>1, MarksType
<1>4. plan'[Order[j]] = plan[Order[j]]
  BY <1>1, <1>2, <1>3
<1> QED
  BY <1>1, <1>4

LEMMA NextTurns ==
  ASSUME TrainingTypeOK, PredictedFromPast, TakesTurns, FitsInTurn, ChoiceTrained,
         [TrainingNext]_trainingVars
  PROVE  TakesTurns'
<1>0. Len(Order) \in Nat \ {0} /\ \A j \in 1..Len(Order) : j > turn /\ turn \in 1..Len(Order) =>
                                      Order[j] # Target /\ Order[j] \in Targets
  BY OrderLists DEF Target
<1>1. CASE UNCHANGED trainingVars
  BY <1>1 DEF trainingVars, TakesTurns, Untried, Undecided, Target, weather, Weather
<1>2. CASE TimeRunsOut
  BY <1>2 DEF TimeRunsOut, TakesTurns, Untried, Undecided, Target, weather, Weather
<1>3. CASE Load
  <2>1. /\ phase' \in {"load", "targets", "aborted"}
        /\ phase' # "aborted" => turn' \in 1..Len(Order)
        /\ turn' \in 1..Len(Order) + 1
    BY <1>3, LoadedFrames
  <2>2. \A i \in 1..Len(Order) : Untried(Order[i])' /\ Undecided(Order[i])'
    BY <1>3 DEF Load, TakesTurns, Untried, Undecided
  <2>3. phase' = "targets" => Untried(Target)' /\ Undecided(Target)'
    BY <2>1, <2>2 DEF Target, Untried, Undecided
  <2> QED
    BY <1>3, <2>1, <2>2, <2>3 DEF Load, TakesTurns
<1>4. CASE StartCrossFit
  <2> DEFINE j == NextWeather(0)
  <2>1. j # Over => Order[j] \in WeatherTargets
    BY NextWeatherThere
  <2> HIDE DEF j
  <2>2. fold' = [index |-> j, number |-> 1] /\ phase' = IF j = Over THEN "targets" ELSE "crossfit"
    BY <1>4 DEF StartCrossFit, TurnTo, j
  <2>3. phase' = "crossfit" => Weather' \in WeatherTargets
    BY <2>1, <2>2 DEF Weather
  <2> QED
    BY <1>4, <2>2, <2>3 DEF StartCrossFit, TakesTurns, Untried, Undecided, Target
<1>5. CASE FitFold
  <2>1. phase' \in {"targets", "crossfit"} /\ (phase' = "crossfit" => Weather' \in WeatherTargets)
    BY <1>5, CrossFitStep
  <2> QED
    BY <1>5, <2>1 DEF FitFold, TakesTurns, Untried, Undecided, Target
<1>6. CASE FoldFails
  BY <1>6 DEF FoldFails, TakesTurns, Untried, Undecided
<1>7. CASE Open
  <2>1. turn \in 1..Len(Order) /\ Target \in Targets /\ phase = "targets"
    BY <1>7, MethodsListed DEF Open, TakesTurns
  <2>2. CASE Enough(frames[Target])
    <3>1. /\ status' = [status EXCEPT ![Target] = "running"] /\ plan' = plan
          /\ phase' = "fit" /\ turn' = turn
      BY <1>7, <2>2 DEF Open
    <3>2. status'[Target] \notin Final
      BY <2>1, <3>1 DEF TrainingTypeOK, Final
    <3>3. LaterKept
      BY <1>0, <2>1, <3>1 DEF LaterKept, TrainingTypeOK
    <3> QED
      BY <2>1, <3>1, <3>2, <3>3, StaysAtTarget
  <2>3. CASE ~Enough(frames[Target])
    <3>1. MoveOn("skipped_insufficient_data") /\ plan' = plan
      BY <1>7, <2>3 DEF Open
    <3>2. /\ \A t \in Targets : t # Target => status'[t] = status[t]
          /\ candidates' = <<>> /\ turn' = turn + 1
          /\ phase' = IF turn = Len(Order) THEN "end" ELSE "targets"
      BY <2>1, <3>1, MoveOnType DEF Final, Statuses, None
    <3>3. LaterKept
      BY <1>0, <2>1, <3>1, <3>2 DEF LaterKept
    <3> QED
      BY <2>1, <3>2, <3>3, MovesToNext
  <2> QED
    BY <2>2, <2>3
<1>8. CASE FitCandidate \/ SkipRest
  <2>1. /\ turn \in 1..Len(Order) /\ phase = "fit" /\ phase' = phase /\ turn' = turn /\ status' = status
        /\ Undecided(Target)
    BY <1>8 DEF FitCandidate, SkipRest, TakesTurns
  <2>2. \E S, v : v \in Planned /\ plan' = Mark(S, v)
    <3>1. "trained" \in Planned /\ "failed" \in Planned /\ "skipped" \in Planned
      BY DEF Planned
    <3> QED
      BY <1>8, <3>1 DEF FitCandidate, SkipRest
  <2>3. LaterKept
    BY <2>1, <2>2, MarksOnlyTarget
  <2> QED
    BY <2>1, <2>3, StaysAtTarget DEF Undecided
<1>9. CASE Choose \/ Fail
  <2>1. turn \in 1..Len(Order) /\ phase \in {"fit", "judge"} /\ Undecided(Target) /\ plan' = plan
    BY <1>9 DEF Choose, Fail, TakesTurns
  <2>2. CASE MoveOn("failed")
    <3>1. /\ \A t \in Targets : t # Target => status'[t] = status[t]
          /\ candidates' = <<>> /\ turn' = turn + 1
          /\ phase' = IF turn = Len(Order) THEN "end" ELSE "targets"
      BY <2>1, <2>2, MoveOnType DEF Final, Statuses, None
    <3>2. LaterKept
      BY <1>0, <2>1, <3>1 DEF LaterKept
    <3> QED
      BY <2>1, <3>1, <3>2, MovesToNext
  <2>3. CASE phase' = "judge" /\ UNCHANGED <<turn, candidates, status>>
    <3>1. LaterKept
      BY <2>1, <2>3 DEF LaterKept
    <3> QED
      BY <2>1, <2>3, <3>1, StaysAtTarget DEF Undecided
  <2> QED
    BY <1>9, <2>2, <2>3 DEF Choose, Fail
<1>10. CASE Judge
  <2>1. turn \in 1..Len(Order) /\ phase = "judge" /\ candidates # <<>>
    BY <1>10 DEF Judge, TakesTurns, ChoiceTrained
  <2>2. PICK incumbent \in Scores \cup {NoScore}, gate \in BOOLEAN : Register(incumbent, gate)
    BY <1>10 DEF Judge
  <2>3. plan' = Mark({Choice.provider}, "selected") /\ Outcome(Approved(incumbent, gate)) \in Final
    BY <2>1, <2>2, RegisteredType
  <2>4. MoveOn(Outcome(Approved(incumbent, gate)))
    BY <2>2 DEF Register
  <2>5. /\ \A t \in Targets : t # Target => status'[t] = status[t]
        /\ candidates' = <<>> /\ turn' = turn + 1
        /\ phase' = IF turn = Len(Order) THEN "end" ELSE "targets"
    BY <2>1, <2>3, <2>4, MoveOnType
  <2>6. LaterKept
    BY <2>1, <2>3, <2>5, MarksOnlyTarget DEF Planned
  <2> QED
    BY <2>1, <2>5, <2>6, MovesToNext
<1>11. CASE Finish
  BY <1>11 DEF Finish, TakesTurns, Untried, Undecided
<1> QED
  BY <1>1, <1>2, <1>3, <1>4, <1>5, <1>6, <1>7, <1>8, <1>9, <1>10, <1>11 DEF TrainingNext

LEMMA NextFits ==
  ASSUME TrainingTypeOK, TakesTurns, FitsInTurn, [TrainingNext]_trainingVars
  PROVE  FitsInTurn'
<1> SUFFICES ASSUME phase' = "fit" PROVE FitsInTurn'
  BY DEF FitsInTurn
<1>1. CASE UNCHANGED trainingVars \/ TimeRunsOut
  BY <1>1 DEF trainingVars, TimeRunsOut, FitsInTurn, TriedUpTo, Methods, Target
<1>2. CASE Open
  <2>1. turn \in 1..Len(Order) /\ phase = "targets" /\ candidates = <<>> /\ Untried(Target)
    BY <1>2 DEF Open, TakesTurns
  <2>2. turn' = turn /\ candidates' = candidates /\ plan' = plan
    <3>1. ~MoveOn("skipped_insufficient_data")
      BY DEF MoveOn
    <3> QED
      BY <1>2, <3>1 DEF Open
  <2>3. Methods' = Methods /\ Target' = Target /\ Len(Methods) \in Nat
    BY <2>1, <2>2, MethodsListed DEF Methods, Target
  <2>4. \A i \in 1..Len(Methods) : plan'[Target][Methods[i]] = "planned"
    BY <2>1, <2>2, MethodsListed DEF Untried
  <2>5. TriedUpTo(0)'
    BY <2>3, <2>4 DEF TriedUpTo
  <2> QED
    BY <2>1, <2>2, <2>3, <2>4, <2>5 DEF FitsInTurn
<1>3. CASE FitCandidate
  <2>1. turn \in 1..Len(Order) /\ phase = "fit" /\ turn' = turn
    BY <1>3 DEF FitCandidate, TakesTurns
  <2>2. PICK n \in 0..Len(Methods) - 1 :
           /\ TriedUpTo(n) /\ Methods[n + 1] \in Providers
           /\ \/ \E s \in Scores \cup {Infinite} :
                    /\ candidates' = Append(candidates, [provider |-> Methods[n + 1], score |-> s])
                    /\ plan' = Mark({Methods[n + 1]}, "trained")
              \/ plan' = Mark({Methods[n + 1]}, "failed") /\ candidates' = candidates
    BY <1>3, Attempt
  <2> DEFINE m == Methods[n + 1]
  <2>3. /\ Methods' = Methods /\ Target' = Target /\ Target \in Targets
        /\ Len(Methods) \in Nat /\ n + 1 \in 1..Len(Methods) /\ n \in Nat
        /\ \A i \in 1..Len(Methods) : Methods[i] \in Providers /\ (Methods[i] = m <=> i = n + 1)
    BY <2>1, <2>2, MethodsListed DEF Methods, Target
  <2>4. /\ plan[Target][m] = "planned"
        /\ \A i \in 1..Len(Methods) : plan[Target][Methods[i]] # "planned" <=> i <= n
    BY <2>2, <2>3 DEF TriedUpTo
  <2>5. PICK value \in {"trained", "failed"} :
           \A p \in Providers : plan'[Target][p] = IF p = m THEN value ELSE plan[Target][p]
    <3>1. "trained" \in Planned /\ "failed" \in Planned
      BY DEF Planned
    <3>2. PICK value \in {"trained", "failed"} : plan' = Mark({m}, value)
      BY <2>2
    <3>3. value \in Planned
      BY <3>1
    <3>4. \A p \in Providers : plan'[Target][p] = IF p = m THEN value ELSE plan[Target][p]
      BY <2>1, <2>3, <3>2, <3>3, MarksType
    <3> QED
      BY <3>4
  <2> HIDE DEF m
  <2>6. \A i \in 1..Len(Methods) : plan'[Target][Methods[i]] # "planned" <=> i <= n + 1
    BY <2>3, <2>4, <2>5
  <2>7. \E k \in 0..Len(Methods) : TriedUpTo(k)'
    <3>1. TriedUpTo(n + 1)'
      BY <2>3, <2>6 DEF TriedUpTo
    <3> QED
      BY <2>3, <3>1
  <2>8. CASE /\ plan' = Mark({m}, "trained")
             /\ \E s \in Scores \cup {Infinite} :
                  candidates' = Append(candidates, [provider |-> m, score |-> s])
    <3>1. candidates' # <<>>
      BY <2>8 DEF TrainingTypeOK
    <3>2. plan'[Target][m] = "trained" /\ m \in Providers
      BY <2>1, <2>2, <2>3, <2>8, MarksType DEF m, Planned
    <3> QED
      BY <2>3, <2>7, <3>1, <3>2 DEF FitsInTurn
  <2>9. CASE plan' = Mark({m}, "failed") /\ candidates' = candidates
    <3>1. \A p \in Providers : plan'[Target][p] = IF p = m THEN "failed" ELSE plan[Target][p]
      BY <2>1, <2>3, <2>9, MarksType DEF Planned
    <3>2. CASE candidates = <<>>
      <4>1. \A i \in 1..Len(Methods) : plan[Target][Methods[i]] \in {"planned", "failed"}
        BY <2>1, <3>2 DEF FitsInTurn
      <4>2. \A i \in 1..Len(Methods) : plan'[Target][Methods[i]] \in {"planned", "failed"}
        BY <2>3, <3>1, <4>1
      <4> QED
        BY <2>3, <2>7, <2>9, <3>2, <4>2 DEF FitsInTurn
    <3>3. CASE candidates # <<>>
      <4>1. PICK p \in Providers : plan[Target][p] = "trained"
        BY <2>1, <3>3 DEF FitsInTurn
      <4>2. plan'[Target][p] = "trained"
        BY <2>4, <3>1, <4>1
      <4> QED
        BY <2>3, <2>7, <2>9, <3>3, <4>2 DEF FitsInTurn
    <3> QED
      BY <3>2, <3>3
  <2> QED
    BY <2>2, <2>8, <2>9 DEF m
<1>4. CASE SkipRest
  <2>1. turn \in 1..Len(Order) /\ phase = "fit" /\ turn' = turn /\ candidates' = candidates
    BY <1>4 DEF SkipRest, TakesTurns
  <2>2. candidates # <<>>
    BY <1>4, EmptySeq DEF SkipRest, ShouldContinue
  <2>3. PICK n \in 0..Len(Methods) : TriedUpTo(n)
    BY <2>1 DEF FitsInTurn
  <2> DEFINE rest == {Methods[i] : i \in Number..Len(Methods)}
  <2>4. /\ Methods' = Methods /\ Target' = Target /\ Target \in Targets
        /\ Len(Methods) \in Nat /\ n \in Nat /\ Number = n + 1
        /\ \A i \in 1..Len(Methods) : Methods[i] \in Providers
    BY <2>1, <2>3, MethodsListed, NumberIsNext DEF Methods, Target
  <2>5. \A p \in Providers : plan'[Target][p] = IF p \in rest THEN "skipped" ELSE plan[Target][p]
    <3>1. plan' = Mark(rest, "skipped")
      BY <1>4 DEF SkipRest
    <3> HIDE DEF rest
    <3> QED
      BY <2>1, <2>4, <3>1, MarksType DEF Planned
  <2>6. \A i \in 1..Len(Methods) : plan[Target][Methods[i]] # "planned" <=> i <= n
    BY <2>3 DEF TriedUpTo
  <2>7. PICK p \in Providers : plan[Target][p] = "trained"
    BY <2>1, <2>2 DEF FitsInTurn
  <2>8. p \notin rest
    BY <2>4, <2>6, <2>7
  <2>9. \A i \in 1..Len(Methods) : plan'[Target][Methods[i]] # "planned"
    <3> SUFFICES ASSUME NEW i \in 1..Len(Methods) PROVE plan'[Target][Methods[i]] # "planned"
      OBVIOUS
    <3>1. i > n => Methods[i] \in rest
      BY <2>4
    <3> HIDE DEF rest
    <3> QED
      BY <2>4, <2>5, <2>6, <3>1
  <2>10. TriedUpTo(Len(Methods))'
    BY <2>4, <2>9 DEF TriedUpTo
  <2>11. plan'[Target][p] = "trained"
    BY <2>5, <2>7, <2>8
  <2> QED
    BY <2>1, <2>2, <2>4, <2>10, <2>11 DEF FitsInTurn
<1>5. TrainingNext => Open \/ FitCandidate \/ SkipRest \/ TimeRunsOut
  BY DEF TrainingNext, Load, StartCrossFit, TurnTo, FitFold, FoldFails, Choose, Judge, Fail, Finish,
         Register, MoveOn
<1> QED
  BY <1>1, <1>2, <1>3, <1>4, <1>5

LEMMA NextChoice ==
  ASSUME TrainingTypeOK, TakesTurns, FitsInTurn, ChoiceTrained, [TrainingNext]_trainingVars
  PROVE  ChoiceTrained'
<1> SUFFICES ASSUME phase' = "judge" PROVE ChoiceTrained'
  BY DEF ChoiceTrained
<1>1. CASE UNCHANGED trainingVars \/ TimeRunsOut
  BY <1>1 DEF trainingVars, TimeRunsOut, ChoiceTrained, Target
<1>2. CASE Choose
  <2>1. ~MoveOn("failed")
    BY DEF MoveOn
  <2>2. phase = "fit" /\ candidates # <<>> /\ UNCHANGED <<turn, candidates, plan>>
    BY <1>2, <2>1 DEF Choose
  <2>3. \E p \in Providers : plan[Target][p] = "trained"
    BY <2>2 DEF FitsInTurn
  <2> QED
    BY <2>2, <2>3 DEF ChoiceTrained, Target
<1>3. TrainingNext => Choose \/ TimeRunsOut
  BY DEF TrainingNext, Load, StartCrossFit, TurnTo, FitFold, FoldFails, Open, FitCandidate, SkipRest,
         Judge, Fail, Finish, Register, MoveOn
<1> QED
  BY <1>1, <1>2, <1>3

\* What a verdict on a target owes it: a complete method, or every one tried and failed.
Served(t) ==
    \/ \E p \in Providers : plan[t][p] \in {"trained", "selected"}
    \/ \A p \in Range(Algorithms[t]) : plan[t][p] = "failed"

LEMMA NextServed ==
  ASSUME TrainingInv, [TrainingNext]_trainingVars
  PROVE  BudgetNeverStarves'
<1> USE DEF TrainingInv
<1> DEFINE Done(t) == status[t] \in Final \ {"skipped_insufficient_data"}
<1> SUFFICES ASSUME NEW t \in Targets, Done(t)'
             PROVE  Served(t)'
  BY DEF BudgetNeverStarves, Served
<1>0. Done(t) => Served(t)
  BY DEF BudgetNeverStarves, Served
<1>1. CASE status' = status /\ plan' = plan
  BY <1>0, <1>1 DEF Served
<1>2. CASE Open
  <2>1. turn \in 1..Len(Order) /\ plan' = plan
    BY <1>2 DEF Open, TakesTurns
  <2>2. Done(t)
    <3>1. CASE MoveOn("skipped_insufficient_data")
      BY <2>1, <3>1, MoveOnType DEF Final, Statuses, None
    <3>2. CASE status' = [status EXCEPT ![Target] = "running"]
      BY <3>2 DEF TrainingTypeOK, Final
    <3> QED
      BY <1>2, <3>1, <3>2 DEF Open
  <2> QED
    BY <1>0, <2>1, <2>2 DEF Served
<1>3. CASE FitCandidate \/ SkipRest
  <2>1. turn \in 1..Len(Order) /\ status' = status /\ Undecided(Target)
    BY <1>3 DEF FitCandidate, SkipRest, TakesTurns
  <2>2. t # Target
    BY <2>1 DEF Undecided
  <2>3. \E S, v : v \in Planned /\ plan' = Mark(S, v)
    <3>1. "trained" \in Planned /\ "failed" \in Planned /\ "skipped" \in Planned
      BY DEF Planned
    <3> QED
      BY <1>3, <3>1 DEF FitCandidate, SkipRest
  <2>4. \A p \in Providers : plan'[t][p] = plan[t][p]
    BY <2>1, <2>2, <2>3, MarksType
  <2>5. Range(Algorithms[t]) \subseteq Providers
    BY DEF Providers
  <2> QED
    BY <1>0, <2>1, <2>4, <2>5 DEF Served
<1>4. CASE Choose
  <2>1. turn \in 1..Len(Order) /\ phase = "fit" /\ plan' = plan /\ Number > Len(Methods)
    BY <1>4 DEF Choose, TakesTurns
  <2>2. CASE candidates = <<>> /\ MoveOn("failed")
    <3>1. \A u \in Targets : status'[u] = IF u = Target THEN "failed" ELSE status[u]
      BY <2>1, <2>2, MoveOnType DEF Final, Statuses, None
    <3>2. CASE t # Target
      BY <1>0, <2>1, <3>1, <3>2 DEF Served
    <3>3. CASE t = Target
      <4>1. PICK n \in 0..Len(Methods) : TriedUpTo(n)
        BY <2>1 DEF FitsInTurn
      <4>2. Number = n + 1 /\ Len(Methods) \in Nat
        BY <2>1, <4>1, NumberIsNext, MethodsListed
      <4>3. n = Len(Methods)
        BY <2>1, <4>2
      <4>4. \A i \in 1..Len(Methods) : plan[Target][Methods[i]] = "failed"
        BY <2>1, <2>2, <4>1, <4>3 DEF FitsInTurn, TriedUpTo
      <4>5. \A p \in Range(Algorithms[t]) : plan'[t][p] = "failed"
        BY <2>1, <3>3, <4>4, MethodsListed
      <4> QED
        BY <4>5 DEF Served
    <3> QED
      BY <3>2, <3>3
  <2>3. CASE UNCHANGED <<turn, candidates, status>>
    BY <1>0, <2>1, <2>3 DEF Served
  <2> QED
    BY <1>4, <2>2, <2>3 DEF Choose
<1>5. CASE Judge
  <2>1. turn \in 1..Len(Order) /\ candidates # <<>> /\ Target \in Targets
    BY <1>5, MethodsListed DEF Judge, TakesTurns, ChoiceTrained
  <2>2. PICK incumbent \in Scores \cup {NoScore}, gate \in BOOLEAN : Register(incumbent, gate)
    BY <1>5 DEF Judge
  <2>3. /\ plan' = Mark({Choice.provider}, "selected") /\ Choice.provider \in Providers
        /\ Outcome(Approved(incumbent, gate)) \in Final
    BY <2>1, <2>2, RegisteredType
  <2>4. MoveOn(Outcome(Approved(incumbent, gate)))
    BY <2>2 DEF Register
  <2>5. \A u \in Targets : u # Target => status'[u] = status[u]
    BY <2>1, <2>3, <2>4, MoveOnType
  <2>6. \A u \in Targets, p \in Providers :
           plan'[u][p] = IF u = Target /\ p \in {Choice.provider} THEN "selected" ELSE plan[u][p]
    BY <2>1, <2>3, MarksType DEF Planned
  <2>7. CASE t = Target
    BY <2>3, <2>6, <2>7 DEF Served
  <2>8. CASE t # Target
    <3>1. \A p \in Providers : plan'[t][p] = plan[t][p]
      BY <2>6, <2>8
    <3>2. Range(Algorithms[t]) \subseteq Providers
      BY DEF Providers
    <3> QED
      BY <1>0, <2>5, <2>8, <3>1, <3>2 DEF Served
  <2> QED
    BY <2>7, <2>8
<1>6. CASE Fail
  <2>1. turn \in 1..Len(Order) /\ phase = "judge" /\ plan' = plan /\ MoveOn("failed")
    BY <1>6 DEF Fail, TakesTurns
  <2>2. \A u \in Targets : u # Target => status'[u] = status[u]
    BY <2>1, MoveOnType DEF Final, Statuses, None
  <2>3. CASE t = Target
    BY <2>1, <2>3 DEF ChoiceTrained, Served
  <2>4. CASE t # Target
    BY <1>0, <2>1, <2>2, <2>4 DEF Served
  <2> QED
    BY <2>3, <2>4
<1>7. \/ Open \/ FitCandidate \/ SkipRest \/ Choose \/ Judge \/ Fail
      \/ status' = status /\ plan' = plan
  BY DEF TrainingNext, trainingVars, TimeRunsOut, Load, StartCrossFit, FitFold, FoldFails, Finish
<1> QED
  BY <1>1, <1>2, <1>3, <1>4, <1>5, <1>6, <1>7

LEMMA TrainingInvariant == TrainingSpec => []TrainingInv
<1>1. TrainingInv /\ [TrainingNext]_trainingVars => TrainingInv'
  BY NextTrainingTypes, NextFrames, NextPredicted, NextTurns, NextFits, NextChoice, NextServed
     DEF TrainingInv
<1> QED
  BY <1>1, InitTrainingInv, PTL DEF TrainingSpec

\* The cross-fit predicts every row from origins before its own, and no candidate is scored
\* on origin times it was fitted on; for any measurements, any choice of the bounded
\* selection, any failures and any moment at which the time runs out (trainer.py:660,
\* trainer.py:1352).
THEOREM TrainingGoesForward == TrainingSpec => []TrainingSafe
<1>1. TrainingInv => TrainingSafe
  <2> SUFFICES ASSUME TrainingInv PROVE TrainingSafe
    OBVIOUS
  <2>1. HoldoutUnseen
    <3> SUFFICES ASSUME NEW t \in Targets, Enough(frames[t])
                 PROVE  /\ TrainRows(frames[t]) # {} /\ HoldoutRows(frames[t]) # {}
                        /\ \A r \in TrainRows(frames[t]), v \in HoldoutRows(frames[t]) :
                              r.origin < v.origin
      BY DEF HoldoutUnseen
    <3>1. frames[t] \in SUBSET Row
      BY DEF TrainingInv, TrainingTypeOK
    <3> QED
      BY <3>1, HoldoutIsLater
  <2> QED
    BY <2>1 DEF TrainingInv, TrainingSafe
<1> QED
  BY <1>1, TrainingInvariant, PTL

\* A target with enough data is never given up while a method is untried and none is
\* complete, at whatever moment the time runs out and whichever fits fail, for any number
\* of targets and methods (training_policy.py:540, trainer.py:1790).
THEOREM BudgetStarvesNone == TrainingSpec => []BudgetNeverStarves
<1>1. TrainingInv => BudgetNeverStarves
  BY DEF TrainingInv
<1> QED
  BY <1>1, TrainingInvariant, PTL

\* What an approved choice has been compared with.
LEMMA ApprovedGains ==
  ASSUME TrainingTypeOK, turn \in 1..Len(Order), candidates # <<>>,
         NEW incumbent \in Errors, NEW gate, Approved(incumbent, gate)
  PROVE  /\ active[Target] # None => /\ Compared(incumbent)
                                     /\ ~GainsTooLittle(Choice.score, incumbent)
         /\ Target # "precipitation_mm" /\ Compared(PersistenceScore)
               => ~GainsTooLittle(Choice.score, PersistenceScore)
<1>1. active[Target] # None => Compared(incumbent) /\ ~GainsTooLittle(Choice.score, incumbent)
  BY DEF Approved, BeatsIncumbent
<1>2. ASSUME Target # "precipitation_mm", Compared(PersistenceScore)
      PROVE  ~GainsTooLittle(Choice.score, PersistenceScore)
  <2>1. Choice.provider # "persistence"
    BY <1>2 DEF Approved
  <2>2. /\ Choice = Best
        /\ Best.provider = "persistence" \/ ~GainsTooLittle(Best.score, PersistenceScore)
    BY <1>2, <2>1 DEF Choice
  <2> QED
    BY <2>1, <2>2
<1> QED
  BY <1>1, <1>2

\* An active model is only replaced by a choice that was compared with it and gains
\* enough over it, and over persistence where that was scored; a bootstrap model only
\* takes an empty place (trainer.py:2011, trainer.py:438, trainer.py:1244).
THEOREM ActivationImproves == TrainingSpec => ActivatedImproves
<1> DEFINE Justified(t) ==
             active'[t] # active[t] =>
               /\ active'[t] = "bootstrap" => active[t] = None
               /\ active'[t] = "trained" =>
                     /\ active[t] # None =>
                           /\ Compared(comparison'.incumbent)
                           /\ ~GainsTooLittle(comparison'.score, comparison'.incumbent)
                     /\ t # "precipitation_mm" /\ Compared(comparison'.persistence)
                           => ~GainsTooLittle(comparison'.score, comparison'.persistence)
<1>1. ASSUME TrainingInv, [TrainingNext]_trainingVars, NEW t \in Targets
      PROVE  Justified(t)
  <2>1. CASE active' = active
    BY <2>1
  <2>2. CASE Judge
    <3>1. turn \in 1..Len(Order) /\ candidates # <<>> /\ TrainingTypeOK
      BY <1>1, <2>2 DEF Judge, TakesTurns, ChoiceTrained, TrainingInv
    <3>2. PICK incumbent \in Scores \cup {NoScore}, gate \in BOOLEAN : Register(incumbent, gate)
      BY <2>2 DEF Judge
    <3>3. incumbent \in Errors
      BY DEF Errors
    <3>4. /\ comparison'.score = Choice.score
          /\ comparison'.persistence = PersistenceScore
          /\ comparison'.incumbent = incumbent
      BY <3>2 DEF Register
    <3>5. CASE Approved(incumbent, gate) /\ active' = [active EXCEPT ![Target] = "trained"]
      <4>1. CASE t # Target
        BY <3>1, <3>5, <4>1 DEF TrainingTypeOK
      <4>2. CASE t = Target
        <5>1. active'[t] = "trained"
          BY <3>1, <3>5, <4>2 DEF TrainingTypeOK
        <5>2. /\ active[t] # None => /\ Compared(incumbent)
                                     /\ ~GainsTooLittle(Choice.score, incumbent)
              /\ t # "precipitation_mm" /\ Compared(PersistenceScore)
                    => ~GainsTooLittle(Choice.score, PersistenceScore)
          BY <3>1, <3>3, <3>5, <4>2, ApprovedGains
        <5> QED
          BY <3>4, <5>1, <5>2
      <4> QED
        BY <4>1, <4>2
    <3>6. CASE active' = active
      BY <3>6
    <3> QED
      BY <3>2, <3>5, <3>6 DEF Register
  <2>3. CASE Finish
    <3>1. CASE active' = [u \in Targets |-> IF active[u] = None THEN "bootstrap" ELSE active[u]]
      <4>1. active'[t] = IF active[t] = None THEN "bootstrap" ELSE active[t]
        BY <3>1
      <4> QED
        BY <4>1
    <3>2. CASE active' = active
      BY <3>2
    <3> QED
      BY <2>3, <3>1, <3>2 DEF Finish
  <2>4. Judge \/ Finish \/ active' = active
    BY <1>1 DEF TrainingNext, trainingVars, TimeRunsOut, Load, StartCrossFit, FitFold, FoldFails,
                Open, FitCandidate, SkipRest, Choose, Fail
  <2> QED
    BY <2>1, <2>2, <2>3, <2>4
<1>2. TrainingInv /\ [TrainingNext]_trainingVars => [\A t \in Targets : Justified(t)]_trainingVars
  BY <1>1
<1> QED
  BY <1>2, TrainingInvariant, PTL DEF TrainingSpec, ActivatedImproves
=============================================================================
