-------------------------- MODULE HourlyModelsProofs --------------------------
(* For any targets, processes and bounds: HourlyModels is type correct, no    *)
(* committed state has two active models of a target, a trained model         *)
(* replaces the model it was judged against, what a pointer names is complete *)
(* in the object store, a target that has a model never loses it, and a       *)
(* training or prediction that ends has left one for every target.            *)
(*                                                                            *)
(* The second part is about ModelRecovery, which adds the operator's commands *)
(* to these jobs.                                                             *)
EXTENDS ModelRecovery, FiniteSetTheorems, NaturalsInduction, WellFoundedInduction, TLAPS

(* What the code keeps, besides the types, while jobs interleave. *)

BaseSet(v) == IF v = NoVersion THEN {} ELSE {v}
Single(S) == \A v, w \in S : v = w

Making == {"upload", "row", "pointer", "compare"}
Judging == {"save", "upload", "row"}
Promoting == {"pointer", "compare"}
BeforeRegister == {"open", "look", "save", "upload", "row"}

(* The rows: no target has two active models, every row is a saved version,  *)
(* and what a training is about to commit replaces what it was judged with.   *)
RowsSaved == \A t \in T : active[t] \subseteq 1..Len(models) /\ work[t] \subseteq 1..Len(models)

RowsSingle == \A t \in T : Single(active[t]) /\ Single(work[t])

Promotes(v, rows) == models[v].by = "train" => models[v].approved /\ rows = BaseSet(models[v].base)

Pending == \A t \in T : \A v \in work[t] \ active[t] : Promotes(v, active[t])

StoreInv == RowsSaved /\ RowsSingle /\ Pending /\ (lock = Free => work = active)

(* A process: its candidate is a saved version with its own judgement, ...    *)
CandSaved(p) ==
    at[p] \in Making =>
        /\ cand[p].v \in 1..Len(models)
        /\ models[cand[p].v] = [by |-> cursor[p].phase, approved |-> cand[p].approved,
                                base |-> cand[p].base]

(* ... it has the write lock from the comparison to the commit, ...           *)
LockHeld(p) ==
    /\ at[p] = "idle" => lock # p
    /\ Training(p) /\ at[p] \in Judging => lock = p
    /\ at[p] \in Promoting => lock = p

(* ... it has not yet written the rows of the targets still to come, ...      *)
Untouched(p) ==
    lock = p /\ Training(p) =>
        \A j \in DOMAIN Targets :
            j > cursor[p].i \/ (j = cursor[p].i /\ at[p] \in BeforeRegister)
            => work[Targets[j]] = active[Targets[j]]

(* ... and the champion it compared with is still active when it registers.   *)
ChampionStays(p) ==
    Training(p) /\ at[p] \in Judging => active[Target(p)] = BaseSet(cand[p].base)

ProcInv(p) == CandSaved(p) /\ LockHeld(p) /\ Untouched(p) /\ ChampionStays(p)

Inv == TypeOK /\ StoreInv /\ \A p \in Procs : ProcInv(p)

(* What a step of p may do to the rows and the lock. *)
Keeps == UNCHANGED store
Acquires(p) == CanWrite(p) /\ lock' = p /\ UNCHANGED <<active, work>>
Commits(p) == lock = p /\ active' = work /\ work' = work /\ lock' = Free
RollsBack(p) == lock = p /\ active' = active /\ work' = active /\ lock' = Free
Registers(p) ==
    /\ CanWrite(p) /\ lock' = p /\ active' = active
    /\ work' = [work EXCEPT ![Target(p)] = {cand[p].v}]
Effect(p) == Keeps \/ Acquires(p) \/ Commits(p) \/ RollsBack(p)

ModelsGrow ==
    /\ Len(models) \in Nat /\ Len(models') \in Nat /\ Len(models) <= Len(models')
    /\ \A i \in 1..Len(models) : models'[i] = models[i]

(* Only p moves. *)
Others(p) ==
    \A q \in Procs \ {p} :
        at'[q] = at[q] /\ job'[q] = job[q] /\ cursor'[q] = cursor[q] /\ cand'[q] = cand[q]

LEMMA TargetType == ASSUME TypeOK, NEW p \in Procs PROVE Target(p) \in T
  BY ModelsAssumption DEF TypeOK, Target, T, Range

LEMMA ActiveType ==
  ASSUME TypeOK, NEW p \in Procs
  PROVE  Active(p) \in 0..MaxModels
<1>1. Target(p) \in T
  BY TargetType
<1>2. View(p)[Target(p)] \subseteq Versions
  BY <1>1 DEF TypeOK, View
<1> QED
  BY <1>2, ModelsAssumption DEF Active, Versions, NoVersion

(* What the helpers do to the bookkeeping of p. *)
LEMMA MovesType ==
  ASSUME TypeOK, NEW p \in Procs, NEW phase \in Phases, NEW i \in DOMAIN Targets, Moves(p, phase, i)
  PROVE  /\ cursor' \in [Procs -> [phase : Phases, i : DOMAIN Targets]]
         /\ at' \in [Procs -> Steps]
         /\ cursor'[p] = [phase |-> phase, i |-> i]
         /\ at'[p] = IF phase = "train" THEN "open" ELSE "look"
         /\ \A q \in Procs \ {p} : at'[q] = at[q] /\ cursor'[q] = cursor[q]
  BY DEF TypeOK, Moves, Goto, Steps

LEMMA AdvanceShape ==
  ASSUME TypeOK, NEW p \in Procs, Advance(p)
  PROVE  /\ cursor' \in [Procs -> [phase : Phases, i : DOMAIN Targets]]
         /\ at' \in [Procs -> Steps]
         /\ cand' \in [Procs -> Candidate]
         /\ \A q \in Procs \ {p} : at'[q] = at[q] /\ cursor'[q] = cursor[q] /\ cand'[q] = cand[q]
         /\ at'[p] \in {"open", "look", "commit"}
         /\ \/ at'[p] = "commit" /\ cursor'[p] = cursor[p]
            \/ cursor'[p].phase = "base" /\ at'[p] = "look"
            \/ /\ cursor'[p].phase = cursor[p].phase /\ at'[p] # "commit"
               /\ cursor'[p].i = cursor[p].i + 1
<1> USE ModelsAssumption
<1>0. /\ cursor[p].i \in 1..Len(Targets) /\ cursor[p].phase \in Phases
      /\ 1 \in DOMAIN Targets /\ Len(Targets) \in Nat
  BY DEF TypeOK
<1>1. cand' = [cand EXCEPT ![p] = Nothing]
  BY DEF Advance
<1>2. Nothing \in Candidate
  BY DEF Nothing, Candidate, NoVersion
<1>3. /\ cand' \in [Procs -> Candidate]
      /\ \A q \in Procs \ {p} : cand'[q] = cand[q]
  BY <1>1, <1>2 DEF TypeOK
<1>4. CASE cursor[p].i < Len(Targets)
  <2>1. Moves(p, cursor[p].phase, cursor[p].i + 1)
    BY <1>4 DEF Advance
  <2>2. cursor[p].i + 1 \in DOMAIN Targets
    BY <1>0, <1>4
  <2>3. /\ cursor' \in [Procs -> [phase : Phases, i : DOMAIN Targets]]
        /\ at' \in [Procs -> Steps]
        /\ cursor'[p] = [phase |-> cursor[p].phase, i |-> cursor[p].i + 1]
        /\ at'[p] = IF cursor[p].phase = "train" THEN "open" ELSE "look"
        /\ \A q \in Procs \ {p} : at'[q] = at[q] /\ cursor'[q] = cursor[q]
    BY <1>0, <2>1, <2>2, MovesType
  <2>4. cursor'[p].phase = cursor[p].phase /\ cursor'[p].i = cursor[p].i + 1
    BY <2>3
  <2>5. at'[p] \in {"open", "look"}
    BY <2>3
  <2> QED
    BY <1>3, <2>3, <2>4, <2>5
<1>5. CASE ~(cursor[p].i < Len(Targets)) /\ Training(p) /\ job[p] # "candidate"
  <2>1. Moves(p, "base", 1)
    BY <1>5 DEF Advance
  <2>2. "base" \in Phases
    BY DEF Phases
  <2>3. /\ cursor' \in [Procs -> [phase : Phases, i : DOMAIN Targets]]
        /\ at' \in [Procs -> Steps]
        /\ cursor'[p] = [phase |-> "base", i |-> 1]
        /\ at'[p] = "look"
        /\ \A q \in Procs \ {p} : at'[q] = at[q] /\ cursor'[q] = cursor[q]
    BY <1>0, <2>1, <2>2, MovesType
  <2>4. cursor'[p].phase = "base"
    BY <2>3
  <2> QED
    BY <1>3, <2>3, <2>4
<1>6. CASE ~(cursor[p].i < Len(Targets)) /\ ~(Training(p) /\ job[p] # "candidate")
  <2>1. Goto(p, "commit") /\ UNCHANGED cursor
    BY <1>6 DEF Advance
  <2> QED
    BY <1>3, <2>1 DEF TypeOK, Goto, Steps
<1> QED
  BY <1>4, <1>5, <1>6

StoreType ==
    /\ active \in [T -> SUBSET Versions]
    /\ work \in [T -> SUBSET Versions]
    /\ lock \in Procs \union {Free}

ProcType ==
    /\ job \in [Procs -> Jobs \union {None}]
    /\ at \in [Procs -> Steps]
    /\ cursor \in [Procs -> [phase : Phases, i : DOMAIN Targets]]
    /\ cand \in [Procs -> Candidate]

LEMMA CommitShape ==
  ASSUME StoreType, NEW p \in Procs, Commit(p)
  PROVE  /\ StoreType'
         /\ lock # p => UNCHANGED store
         /\ lock = p => active' = work /\ work' = work /\ lock' = Free
  BY DEF StoreType, Commit, View, store

LEMMA RestsShape ==
  ASSUME ProcType, NEW p \in Procs, Rests(p)
  PROVE  ProcType' /\ at'[p] = "idle" /\ Others(p)
<1>1. FirstCursor \in [phase : Phases, i : DOMAIN Targets]
  BY ModelsAssumption DEF FirstCursor, Phases
<1>2. Nothing \in Candidate
  BY ModelsAssumption DEF Nothing, Candidate, NoVersion
<1> QED
  BY <1>1, <1>2 DEF ProcType, Rests, Goto, Steps, Others

LEMMA AbortShape ==
  ASSUME StoreType, ProcType, NEW p \in Procs, Abort(p)
  PROVE  /\ StoreType' /\ ProcType' /\ at'[p] = "idle" /\ Others(p)
         /\ lock # p => UNCHANGED store
         /\ lock = p => active' = active /\ work' = active /\ lock' = Free
<1>1. ProcType' /\ at'[p] = "idle" /\ Others(p)
  BY RestsShape DEF Abort
<1> QED
  BY <1>1 DEF StoreType, Abort, store

LEMMA SettleShape ==
  ASSUME TypeOK, NEW p \in Procs, Settle(p)
  PROVE  /\ StoreType' /\ ProcType' /\ Others(p)
         /\ at'[p] \in {"open", "look", "commit"}
         /\ \/ at'[p] = "commit" /\ cursor'[p] = cursor[p]
            \/ cursor'[p].phase = "base" /\ at'[p] = "look"
            \/ /\ cursor'[p].phase = cursor[p].phase /\ at'[p] # "commit"
               /\ cursor'[p].i = cursor[p].i + 1
         /\ \/ UNCHANGED store
            \/ lock = p /\ active' = work /\ work' = work /\ lock' = Free
<1>1. StoreType /\ ProcType
  BY DEF TypeOK, StoreType, ProcType
<1>2. Advance(p) /\ UNCHANGED job
  BY DEF Settle
<1>3. Commit(p) \/ UNCHANGED store
  BY DEF Settle
<1>4. /\ StoreType'
      /\ \/ UNCHANGED store
         \/ lock = p /\ active' = work /\ work' = work /\ lock' = Free
  BY <1>1, <1>3, CommitShape DEF StoreType, store
<1>5. ProcType' /\ Others(p)
  BY <1>1, <1>2, AdvanceShape DEF ProcType, Others
<1> QED
  BY <1>2, <1>4, <1>5, AdvanceShape

LEMMA InitTypeOK == Init => TypeOK
<1> SUFFICES ASSUME Init PROVE TypeOK
  OBVIOUS
<1>1. FirstCursor \in [phase : Phases, i : DOMAIN Targets]
  BY ModelsAssumption DEF FirstCursor, Phases
<1>2. Nothing \in Candidate
  BY ModelsAssumption DEF Nothing, Candidate, NoVersion
<1>3. models \in Seq(Model) /\ Len(models) <= MaxModels
  BY ModelsAssumption DEF Init
<1> QED
  BY <1>1, <1>2, <1>3, ModelsAssumption DEF Init, TypeOK, Steps, NoVersion

(* A step that only takes p one step further with its candidate. *)
LEMMA GotoType ==
  ASSUME TypeOK, NEW p \in Procs, NEW step \in Steps, Goto(p, step)
  PROVE  /\ at' \in [Procs -> Steps] /\ at'[p] = step
         /\ \A q \in Procs \ {p} : at'[q] = at[q]
  BY DEF TypeOK, Goto

LEMMA TakesType ==
  ASSUME TypeOK, NEW p \in Procs, NEW base \in 0..MaxModels, NEW approved \in BOOLEAN,
         NEW v \in 0..MaxModels, Takes(p, base, approved, v)
  PROVE  /\ cand' \in [Procs -> Candidate]
         /\ cand'[p].base = base /\ cand'[p].approved = approved /\ cand'[p].v = v
         /\ \A q \in Procs \ {p} : cand'[q] = cand[q]
<1>1. [base |-> base, approved |-> approved, v |-> v] \in Candidate
  BY DEF Candidate
<1> QED
  BY <1>1 DEF TypeOK, Takes

LEMMA StoreKept ==
  ASSUME Inv, NEW p \in Procs, ModelsGrow, Effect(p)
  PROVE  StoreInv'
<1> USE DEF Inv, StoreInv
<1>1. /\ active' \in {active, work} /\ work' \in {active, work}
      /\ (work' = work /\ active' = active) \/ work' = active'
  BY DEF Effect, Keeps, Acquires, Commits, RollsBack, store
<1>2. RowsSaved' /\ RowsSingle'
  BY <1>1 DEF RowsSaved, RowsSingle, ModelsGrow
<1>3. Pending'
  <2>1. SUFFICES ASSUME NEW t \in T, NEW v \in work'[t] \ active'[t]
                 PROVE  Promotes(v, active[t])' 
    BY DEF Pending
  <2>2. work' = work /\ active' = active
    BY <1>1, <2>1
  <2>3. v \in 1..Len(models) /\ Promotes(v, active[t])
    BY <2>1, <2>2 DEF Pending, RowsSaved
  <2> QED
    BY <2>2, <2>3 DEF Promotes, ModelsGrow
<1>4. lock' = Free => work' = active'
  BY ModelsAssumption DEF Effect, Keeps, Acquires, Commits, RollsBack, store
<1> QED
  BY <1>2, <1>3, <1>4

LEMMA OthersKept ==
  ASSUME Inv, NEW p \in Procs, ModelsGrow, Others(p), Effect(p) \/ Registers(p), NEW q \in Procs \ {p}
  PROVE  ProcInv(q)'
<1>1. at'[q] = at[q] /\ cursor'[q] = cursor[q] /\ cand'[q] = cand[q]
  BY DEF Others
<1>2. ProcInv(q)
  BY DEF Inv
<1>3. /\ lock' = q <=> lock = q
      /\ lock = q => active' = active /\ work' = work
  BY ModelsAssumption DEF Effect, Keeps, Acquires, Commits, RollsBack, Registers, CanWrite, store
<1>4. CandSaved(q)'
  BY <1>1, <1>2 DEF ProcInv, CandSaved, ModelsGrow
<1>5. LockHeld(q)'
  BY <1>1, <1>2, <1>3 DEF ProcInv, LockHeld, Training
<1>6. Untouched(q)'
  BY <1>1, <1>2, <1>3 DEF ProcInv, Untouched, Training
<1>7. ChampionStays(q)'
  BY <1>1, <1>2, <1>3 DEF ProcInv, ChampionStays, LockHeld, Training, Target
<1> QED
  BY <1>4, <1>5, <1>6, <1>7 DEF ProcInv

(* Models that do not change grow. *)
LEMMA SameModels == ASSUME TypeOK, UNCHANGED models PROVE ModelsGrow
  BY DEF TypeOK, ModelsGrow

(* A step keeps the invariant if it keeps the part of its own process. *)
LEMMA Assembled ==
  ASSUME Inv, NEW p \in Procs, ModelsGrow, Others(p), TypeOK',
         \/ Effect(p)
         \/ Registers(p) /\ StoreInv',
         ProcInv(p)'
  PROVE  Inv'
<1>1. StoreInv'
  BY StoreKept
<1>2. ASSUME NEW q \in Procs PROVE ProcInv(q)'
  BY OthersKept
<1> QED
  BY <1>1, <1>2 DEF Inv

LEMMA SettleKeepsInv ==
  ASSUME Inv, NEW p \in Procs, Settle(p), UNCHANGED <<models, uploaded, pointer>>,
         faults' \in 0..MaxFaults
  PROVE  Inv'
<1>0. TypeOK /\ ProcInv(p)
  BY DEF Inv
<1>1. ModelsGrow
  BY <1>0, SameModels
<1>2. Others(p) /\ Effect(p)
  BY <1>0, SettleShape DEF Effect, Keeps, Commits
<1>3. TypeOK'
  BY <1>0, SettleShape DEF TypeOK, StoreType, ProcType
<1>4. at'[p] \in {"open", "look", "commit"}
  BY <1>0, SettleShape
<1>5. CandSaved(p)' /\ LockHeld(p)' /\ ChampionStays(p)'
  BY <1>4 DEF CandSaved, LockHeld, ChampionStays, Making, Judging, Promoting
<1>6. Untouched(p)'
  <2>1. SUFFICES ASSUME lock' = p, Training(p)', NEW j \in DOMAIN Targets,
                        j > cursor'[p].i \/ (j = cursor'[p].i /\ at'[p] \in BeforeRegister)
                 PROVE  work'[Targets[j]] = active'[Targets[j]]
    BY DEF Untouched
  <2>2. UNCHANGED store
    BY <1>0, <2>1, SettleShape, ModelsAssumption
  <2>3. \/ at'[p] = "commit" /\ cursor'[p] = cursor[p]
        \/ cursor'[p].phase = cursor[p].phase /\ cursor'[p].i = cursor[p].i + 1
    BY <1>0, <2>1, SettleShape DEF Training
  <2>4. Training(p) /\ lock = p
    BY <2>1, <2>2, <2>3 DEF Training, store
  <2>5. cursor[p].i \in Nat /\ j \in Nat /\ "commit" \notin BeforeRegister
    BY <1>0, ModelsAssumption DEF TypeOK, BeforeRegister
  <2>6. j > cursor[p].i
    BY <2>1, <2>3, <2>5
  <2> QED
    BY <1>0, <2>2, <2>4, <2>6 DEF ProcInv, Untouched, store
<1> QED
  BY <1>1, <1>2, <1>3, <1>5, <1>6, Assembled DEF ProcInv

LEMMA AbortKeepsInv ==
  ASSUME Inv, NEW p \in Procs, Abort(p), UNCHANGED <<models, uploaded, pointer>>,
         faults' \in 0..MaxFaults
  PROVE  Inv'
<1>0. TypeOK /\ ProcInv(p) /\ StoreType /\ ProcType
  BY DEF Inv, TypeOK, StoreType, ProcType
<1>1. ModelsGrow
  BY <1>0, SameModels
<1>2. /\ StoreType' /\ ProcType' /\ at'[p] = "idle" /\ Others(p)
      /\ lock # p => UNCHANGED store
      /\ lock = p => active' = active /\ work' = active /\ lock' = Free
  BY <1>0, AbortShape
<1>3. Effect(p)
  BY <1>2 DEF Effect, Keeps, RollsBack
<1>4. TypeOK'
  BY <1>0, <1>2 DEF TypeOK, StoreType, ProcType
<1>5. lock' # p
  BY <1>2, ModelsAssumption DEF store
<1>6. ProcInv(p)'
  BY <1>2, <1>5 DEF ProcInv, CandSaved, LockHeld, Untouched, ChampionStays, Making, Judging, Promoting
<1> QED
  BY <1>1, <1>2, <1>3, <1>4, <1>6, Assembled

LEMMA StartKeepsInv ==
  ASSUME Inv, NEW p \in Procs, Start(p)
  PROVE  Inv'
<1>0. TypeOK /\ ProcInv(p)
  BY DEF Inv
<1>1. PICK j \in Jobs :
        /\ job' = [job EXCEPT ![p] = j]
        /\ Moves(p, FirstPhase(j), 1)
        /\ lock' = lock \/ (j = "update" /\ lock = Free /\ lock' = p)
  BY DEF Start
<1>2. /\ FirstPhase(j) \in Phases /\ 1 \in DOMAIN Targets
      /\ j = "update" => FirstPhase(j) = "update"
  BY ModelsAssumption DEF FirstPhase, Phases, Jobs
<1>3. /\ cursor' \in [Procs -> [phase : Phases, i : DOMAIN Targets]]
      /\ at' \in [Procs -> Steps]
      /\ cursor'[p] = [phase |-> FirstPhase(j), i |-> 1]
      /\ at'[p] \in {"open", "look"}
      /\ \A q \in Procs \ {p} : at'[q] = at[q] /\ cursor'[q] = cursor[q]
  BY <1>0, <1>1, <1>2, MovesType
<1>4. UNCHANGED <<models, active, work, uploaded, pointer, cand, faults>> /\ at[p] = "idle"
  BY DEF Start
<1>5. TypeOK'
  BY <1>0, <1>1, <1>3, <1>4 DEF TypeOK
<1>6. Others(p) /\ ModelsGrow
  BY <1>0, <1>1, <1>3, <1>4, SameModels DEF Others, TypeOK
<1>7. Effect(p)
  BY <1>1, <1>4 DEF Effect, Keeps, Acquires, CanWrite, store
<1>8. lock # p
  BY <1>0, <1>4 DEF ProcInv, LockHeld
<1>9. Untouched(p)'
  <2>1. SUFFICES ASSUME lock' = p PROVE ~Training(p)'
    BY DEF Untouched
  <2>2. j = "update"
    BY <1>1, <1>8, <2>1
  <2>3. cursor'[p].phase = "update"
    BY <1>2, <1>3, <2>2
  <2> QED
    BY <2>3 DEF Training
<1>10. CandSaved(p)' /\ LockHeld(p)' /\ ChampionStays(p)'
  BY <1>3 DEF CandSaved, LockHeld, ChampionStays, Making, Judging, Promoting
<1> QED
  BY <1>5, <1>6, <1>7, <1>9, <1>10, Assembled DEF ProcInv

LEMMA OpenRunKeepsInv ==
  ASSUME Inv, NEW p \in Procs, OpenRun(p)
  PROVE  Inv'
<1>0. TypeOK /\ ProcInv(p) /\ StoreType
  BY DEF Inv, TypeOK, StoreType
<1>1. /\ UNCHANGED <<models, uploaded, pointer, job, cursor, cand, faults>>
      /\ at[p] = "open" /\ CanWrite(p) /\ Goto(p, "look")
  BY DEF OpenRun
<1>2. "look" \in Steps
  BY DEF Steps
<1>3. at' \in [Procs -> Steps] /\ at'[p] = "look" /\ \A q \in Procs \ {p} : at'[q] = at[q]
  BY <1>0, <1>1, <1>2, GotoType
<1>4. Commit(p) \/ (lock' = p /\ UNCHANGED <<active, work>>)
  BY DEF OpenRun
<1>5. StoreType' /\ Effect(p)
  BY <1>0, <1>1, <1>4, CommitShape DEF StoreType, Effect, Keeps, Commits, Acquires, store
<1>6. TypeOK'
  BY <1>0, <1>1, <1>3, <1>5 DEF TypeOK, StoreType
<1>7. Others(p) /\ ModelsGrow
  BY <1>0, <1>1, <1>3, SameModels DEF Others, TypeOK
<1>8. CandSaved(p)' /\ LockHeld(p)' /\ ChampionStays(p)'
  BY <1>3 DEF CandSaved, LockHeld, ChampionStays, Making, Judging, Promoting
<1>9. Untouched(p)'
  <2>1. SUFFICES ASSUME lock' = p PROVE Untouched(p)'
    BY DEF Untouched
  <2>2. work' = work /\ active' = active /\ (lock = p \/ work = active)
    BY <1>1, <1>4, <2>1, ModelsAssumption DEF Commit, View, CanWrite, Inv, StoreInv
  <2>3. "open" \in BeforeRegister
    BY DEF BeforeRegister
  <2> QED
    BY <1>0, <1>1, <2>2, <2>3 DEF ProcInv, Untouched, Training
<1> QED
  BY <1>5, <1>6, <1>7, <1>8, <1>9, Assembled DEF ProcInv

(* The comparison: p gets the lock, and what it reads are the committed rows. *)
LEMMA JudgeKeepsInv ==
  ASSUME Inv, NEW p \in Procs, Judge(p)
  PROVE  Inv'
<1>0. TypeOK /\ ProcInv(p) /\ StoreInv
  BY DEF Inv
<1>1. /\ UNCHANGED <<models, active, work, uploaded, pointer, job, cursor, faults>>
      /\ at[p] = "look" /\ Training(p) /\ CanWrite(p) /\ lock' = p /\ Goto(p, "save")
  BY DEF Judge
<1>2. PICK approved \in BOOLEAN : Takes(p, Active(p), approved, NoVersion)
  BY DEF Judge
<1>3. Active(p) \in 0..MaxModels /\ NoVersion \in 0..MaxModels /\ "save" \in Steps
  BY <1>0, ActiveType, ModelsAssumption DEF NoVersion, Steps
<1>4. at' \in [Procs -> Steps] /\ at'[p] = "save" /\ \A q \in Procs \ {p} : at'[q] = at[q]
  BY <1>0, <1>1, <1>3, GotoType
<1>5. /\ cand' \in [Procs -> Candidate] /\ cand'[p].base = Active(p)
      /\ \A q \in Procs \ {p} : cand'[q] = cand[q]
  BY <1>0, <1>2, <1>3, TakesType
<1>6. TypeOK'
  BY <1>0, <1>1, <1>4, <1>5 DEF TypeOK
<1>7. Others(p) /\ ModelsGrow /\ Effect(p)
  BY <1>0, <1>1, <1>4, <1>5, SameModels DEF Others, Effect, Acquires, TypeOK
<1>8. /\ Target(p) \in T /\ cursor[p].i \in DOMAIN Targets /\ "look" \in BeforeRegister
      /\ Target(p) = Targets[cursor[p].i]
  BY <1>0, TargetType DEF BeforeRegister, TypeOK, Target
<1>9. /\ lock = p => work[Target(p)] = active[Target(p)]
      /\ lock # p => work = active
  BY <1>0, <1>1, <1>8, ModelsAssumption DEF ProcInv, Untouched, CanWrite, StoreInv
<1>10. ChampionStays(p)'
  <2>1. View(p)[Target(p)] = active[Target(p)]
    BY <1>9 DEF View
  <2>2. Single(active[Target(p)]) /\ active[Target(p)] \subseteq 1..Len(models)
    BY <1>0, <1>8 DEF StoreInv, RowsSingle, RowsSaved
  <2>3. active[Target(p)] = BaseSet(Active(p))
    <3>1. CASE active[Target(p)] = {}
      BY <2>1, <3>1 DEF Active, BaseSet
    <3>2. CASE active[Target(p)] # {}
      <4>1. Active(p) \in active[Target(p)]
        BY <2>1, <3>2 DEF Active
      <4>2. Active(p) # NoVersion
        BY <2>2, <4>1, <1>0 DEF NoVersion, TypeOK
      <4> QED
        BY <2>2, <4>1, <4>2 DEF BaseSet, Single
    <3> QED
      BY <3>1, <3>2
  <2> QED
    BY <1>1, <1>5, <2>3 DEF ChampionStays, Target
<1>11. CandSaved(p)' /\ LockHeld(p)'
  BY <1>1, <1>4 DEF CandSaved, LockHeld, Making, Promoting
<1>12. Untouched(p)'
  BY <1>0, <1>1, <1>9 DEF ProcInv, Untouched, Training, BeforeRegister
<1> QED
  BY <1>6, <1>7, <1>10, <1>11, <1>12, Assembled DEF ProcInv

LEMMA LookKeepsInv ==
  ASSUME Inv, NEW p \in Procs, Look(p)
  PROVE  Inv'
<1>0. TypeOK /\ ProcInv(p)
  BY DEF Inv
<1>1. /\ UNCHANGED <<models, store, uploaded, pointer, job, faults>>
      /\ at[p] = "look" /\ ~Training(p)
  BY DEF Look
<1>2. ModelsGrow /\ Effect(p)
  BY <1>0, <1>1, SameModels DEF Effect, Keeps
<1>3. CASE Takes(p, Active(p), TRUE, NoVersion) /\ Goto(p, "save") /\ UNCHANGED cursor
  <2>1. Active(p) \in 0..MaxModels /\ NoVersion \in 0..MaxModels /\ "save" \in Steps
    BY <1>0, ActiveType, ModelsAssumption DEF NoVersion, Steps
  <2>2. at' \in [Procs -> Steps] /\ at'[p] = "save" /\ \A q \in Procs \ {p} : at'[q] = at[q]
    BY <1>0, <1>3, <2>1, GotoType
  <2>3. cand' \in [Procs -> Candidate] /\ \A q \in Procs \ {p} : cand'[q] = cand[q]
    BY <1>0, <1>3, <2>1, TakesType
  <2>4. TypeOK' /\ Others(p)
    BY <1>0, <1>1, <1>3, <2>2, <2>3 DEF TypeOK, Others, store
  <2>5. ~Training(p)'
    BY <1>1, <1>3 DEF Training
  <2>6. ProcInv(p)'
    BY <2>2, <2>5 DEF ProcInv, CandSaved, LockHeld, Untouched, ChampionStays, Making, Promoting
  <2> QED
    BY <1>2, <2>4, <2>6, Assembled
<1>4. CASE Advance(p)
  <2>1. /\ cursor' \in [Procs -> [phase : Phases, i : DOMAIN Targets]]
        /\ at' \in [Procs -> Steps] /\ cand' \in [Procs -> Candidate]
        /\ \A q \in Procs \ {p} : at'[q] = at[q] /\ cursor'[q] = cursor[q] /\ cand'[q] = cand[q]
        /\ at'[p] \in {"open", "look", "commit"}
    BY <1>0, <1>4, AdvanceShape
  <2>2. cursor'[p].phase # "train"
    BY <1>0, <1>1, <1>4, AdvanceShape DEF Training
  <2>3. TypeOK' /\ Others(p)
    BY <1>0, <1>1, <2>1 DEF TypeOK, Others, store
  <2>4. ProcInv(p)'
    BY <2>1, <2>2 DEF ProcInv, CandSaved, LockHeld, Untouched, ChampionStays, Making, Judging, Promoting, Training
  <2> QED
    BY <1>2, <2>3, <2>4, Assembled
<1> QED
  BY <1>3, <1>4 DEF Look

LEMMA SaveArtifactKeepsInv ==
  ASSUME Inv, NEW p \in Procs, SaveArtifact(p)
  PROVE  Inv'
<1> DEFINE m == [by |-> cursor[p].phase, approved |-> cand[p].approved, base |-> cand[p].base]
           n == Len(models) + 1
<1>0. TypeOK /\ ProcInv(p)
  BY DEF Inv
<1>1. /\ UNCHANGED <<store, uploaded, pointer, job, cursor, faults>>
      /\ at[p] = "save" /\ Len(models) < MaxModels /\ models' = Append(models, m)
      /\ Takes(p, cand[p].base, cand[p].approved, n)
      /\ Goto(p, "row") \/ Goto(p, "upload")
  BY DEF SaveArtifact
<1>2. /\ cand[p] \in Candidate /\ cand[p].base \in 0..MaxModels /\ cand[p].approved \in BOOLEAN
      /\ cursor[p].phase \in Phases /\ cursor[p].i \in DOMAIN Targets
  BY <1>0 DEF TypeOK, Candidate
<1>3. m \in Model
  BY <1>2 DEF Model
<1> HIDE DEF m
<1>4. /\ models' \in Seq(Model) /\ Len(models') = n /\ n \in 1..MaxModels /\ models'[n] = m
      /\ ModelsGrow
  BY <1>0, <1>1, <1>3, ModelsAssumption DEF TypeOK, ModelsGrow
<1>5. "row" \in Steps /\ "upload" \in Steps
  BY DEF Steps
<1>6. /\ at' \in [Procs -> Steps] /\ at'[p] \in {"row", "upload"}
      /\ \A q \in Procs \ {p} : at'[q] = at[q]
  BY <1>0, <1>1, <1>5, GotoType
<1>7. n \in 0..MaxModels
  BY <1>4
<1>8. /\ cand' \in [Procs -> Candidate]
      /\ cand'[p].base = cand[p].base /\ cand'[p].approved = cand[p].approved /\ cand'[p].v = n
      /\ \A q \in Procs \ {p} : cand'[q] = cand[q]
  BY <1>0, <1>1, <1>2, <1>7, TakesType
<1>9. TypeOK'
  BY <1>0, <1>1, <1>4, <1>6, <1>8, ModelsAssumption DEF TypeOK, store
<1>10. Others(p) /\ Effect(p)
  BY <1>1, <1>6, <1>8 DEF Others, Effect, Keeps
<1>11. CandSaved(p)'
  BY <1>1, <1>4, <1>8 DEF CandSaved, m
<1>12. LockHeld(p)' /\ ChampionStays(p)'
  BY <1>0, <1>1, <1>6, <1>8 DEF ProcInv, LockHeld, ChampionStays, Judging, Promoting, Training, Target, store
<1>13. Untouched(p)'
  BY <1>0, <1>1, <1>6 DEF ProcInv, Untouched, Training, BeforeRegister, store
<1> QED
  BY <1>4, <1>9, <1>10, <1>11, <1>12, <1>13, Assembled DEF ProcInv

LEMMA UploadKeepsInv ==
  ASSUME Inv, NEW p \in Procs, Upload(p)
  PROVE  Inv'
<1>0. TypeOK /\ ProcInv(p)
  BY DEF Inv
<1>1. /\ UNCHANGED <<models, store, pointer, job, cursor, cand, faults>>
      /\ at[p] = "upload" /\ uploaded' = [uploaded EXCEPT ![cand[p].v] = @ + 1]
      /\ Goto(p, "row") \/ Goto(p, "upload")
  BY DEF Upload
<1>2. "row" \in Steps /\ "upload" \in Steps
  BY DEF Steps
<1>3. /\ at' \in [Procs -> Steps] /\ at'[p] \in {"row", "upload"}
      /\ \A q \in Procs \ {p} : at'[q] = at[q]
  BY <1>0, <1>1, <1>2, GotoType
<1>4. uploaded' \in [Versions -> Nat]
  <2>1. cand[p].v \in Versions
    BY <1>0, <1>1, ModelsAssumption DEF ProcInv, CandSaved, Making, TypeOK, Versions
  <2>2. uploaded[cand[p].v] + 1 \in Nat
    BY <1>0, <2>1 DEF TypeOK
  <2> QED
    BY <1>0, <1>1, <2>2 DEF TypeOK
<1>5. TypeOK'
  BY <1>0, <1>1, <1>3, <1>4 DEF TypeOK, store
<1>6. Others(p) /\ Effect(p) /\ ModelsGrow
  BY <1>0, <1>1, <1>3, SameModels DEF Others, Effect, Keeps, TypeOK
<1>7. CandSaved(p)'
  BY <1>0, <1>1 DEF ProcInv, CandSaved, Making
<1>8. LockHeld(p)' /\ ChampionStays(p)'
  BY <1>0, <1>1, <1>3 DEF ProcInv, LockHeld, ChampionStays, Judging, Promoting, Training, Target, store
<1>9. Untouched(p)'
  BY <1>0, <1>1, <1>3 DEF ProcInv, Untouched, Training, BeforeRegister, store
<1> QED
  BY <1>5, <1>6, <1>7, <1>8, <1>9, Assembled DEF ProcInv

(* The activation: the only step that writes rows. *)
LEMMA RegisterKeepsInv ==
  ASSUME Inv, NEW p \in Procs, Register(p)
  PROVE  Inv'
<1> DEFINE t == Target(p)
           v == cand[p].v
<1>0. TypeOK /\ ProcInv(p) /\ StoreInv
  BY DEF Inv
<1>1. /\ UNCHANGED <<models, uploaded, pointer, faults>>
      /\ at[p] = "row" /\ CanWrite(p) /\ faults' \in 0..MaxFaults
  BY <1>0 DEF Register, TypeOK
<1>2. CASE ~Activates(p)
  <2>1. Settle(p)
    BY <1>2 DEF Register
  <2> QED
    BY <1>1, <2>1, SettleKeepsInv
<1>3. CASE Activates(p)
  <2>1. Registers(p) /\ UNCHANGED <<active, job, cursor, cand>>
    BY <1>1, <1>3 DEF Register, Registers
  <2>2. PICK step \in Promoting : Goto(p, step)
    BY <1>1, <1>3 DEF Register, Promoting
  <2>3. /\ at' \in [Procs -> Steps] /\ at'[p] \in Promoting
        /\ \A q \in Procs \ {p} : at'[q] = at[q]
    <3>1. step \in Steps
      BY <2>2 DEF Promoting, Steps
    <3> QED
      BY <1>0, <2>2, <3>1, GotoType
  <2>4. /\ v \in 1..Len(models)
        /\ models[v] = [by |-> cursor[p].phase, approved |-> cand[p].approved, base |-> cand[p].base]
    BY <1>0, <1>1 DEF ProcInv, CandSaved, Making
  <2>5. t \in T /\ v \in Versions /\ lock' = p /\ cursor[p].i \in DOMAIN Targets
    BY <1>0, <2>1, <2>4, TargetType, ModelsAssumption DEF TypeOK, Versions, Registers
  <2>6. /\ work' \in [T -> SUBSET Versions] /\ work'[t] = {v}
        /\ \A u \in T \ {t} : work'[u] = work[u]
    BY <1>0, <2>1, <2>5 DEF TypeOK, Registers
  <2>7. TypeOK'
    BY <1>0, <1>1, <2>1, <2>3, <2>5, <2>6 DEF TypeOK
  <2>8. Others(p) /\ ModelsGrow
    BY <1>0, <1>1, <2>1, <2>3, SameModels DEF Others, TypeOK
  <2> HIDE DEF t, v
  <2>9. StoreInv'
    <3>1. RowsSaved' /\ RowsSingle'
      BY <1>0, <1>1, <2>1, <2>4, <2>6 DEF StoreInv, RowsSaved, RowsSingle, Single
    <3>2. Promotes(v, active[t])
      BY <1>0, <1>1, <1>3, <2>4 DEF Promotes, ProcInv, ChampionStays, Judging, Training, Activates, t
    <3>3. Pending'
      BY <1>0, <1>1, <2>1, <2>6, <3>2 DEF StoreInv, Pending, Promotes
    <3> QED
      BY <2>5, <3>1, <3>3, ModelsAssumption DEF StoreInv
  <2>10. CandSaved(p)'
    BY <1>1, <2>1, <2>4 DEF CandSaved, v
  <2>11. LockHeld(p)' /\ ChampionStays(p)'
    BY <2>3, <2>5 DEF LockHeld, ChampionStays, Judging, Promoting
  <2>12. Untouched(p)'
    <3>1. SUFFICES ASSUME Training(p)', NEW j \in DOMAIN Targets, j > cursor[p].i
                   PROVE  work'[Targets[j]] = active'[Targets[j]]
      BY <2>1, <2>3 DEF Untouched, BeforeRegister, Promoting
    <3>2. Training(p) /\ lock = p
      BY <1>0, <1>1, <2>1, <3>1 DEF Training, ProcInv, LockHeld, Judging
    <3>3. Targets[j] # t
      <4>1. cursor[p].i \in Nat /\ j \in Nat
        BY <2>5, ModelsAssumption
      <4>2. j # cursor[p].i
        BY <3>1, <4>1
      <4> QED
        BY <2>5, <4>2, ModelsAssumption DEF t, Target
    <3>4. Targets[j] \in T
      BY ModelsAssumption DEF T, Range
    <3> QED
      BY <1>0, <2>1, <2>6, <3>1, <3>2, <3>3, <3>4 DEF ProcInv, Untouched
  <2> QED
    BY <2>1, <2>7, <2>8, <2>9, <2>10, <2>11, <2>12, Assembled DEF ProcInv
<1> QED
  BY <1>2, <1>3

LEMMA PutPointerKeepsInv ==
  ASSUME Inv, NEW p \in Procs, PutPointer(p)
  PROVE  Inv'
<1>0. TypeOK /\ ProcInv(p)
  BY DEF Inv
<1>1. /\ UNCHANGED <<models, store, uploaded, job, cursor, cand, faults>>
      /\ at[p] = "pointer" /\ pointer' = [pointer EXCEPT ![Target(p)] = cand[p].v]
      /\ Goto(p, "compare")
  BY DEF PutPointer
<1>2. "compare" \in Steps /\ cand[p].v \in 0..MaxModels
  BY <1>0 DEF Steps, TypeOK, Candidate
<1>3. at' \in [Procs -> Steps] /\ at'[p] = "compare" /\ \A q \in Procs \ {p} : at'[q] = at[q]
  BY <1>0, <1>1, <1>2, GotoType
<1>4. TypeOK'
  BY <1>0, <1>1, <1>2, <1>3 DEF TypeOK, store
<1>5. Others(p) /\ Effect(p) /\ ModelsGrow
  BY <1>0, <1>1, <1>3, SameModels DEF Others, Effect, Keeps, TypeOK
<1>6. CandSaved(p)'
  BY <1>0, <1>1 DEF ProcInv, CandSaved, Making
<1>7. LockHeld(p)' /\ ChampionStays(p)'
  BY <1>0, <1>1, <1>3 DEF ProcInv, LockHeld, ChampionStays, Judging, Promoting, store
<1>8. Untouched(p)'
  BY <1>0, <1>1, <1>3 DEF ProcInv, Untouched, Training, BeforeRegister, store
<1> QED
  BY <1>4, <1>5, <1>6, <1>7, <1>8, Assembled DEF ProcInv

LEMMA FinishKeepsInv ==
  ASSUME Inv, NEW p \in Procs, Finish(p)
  PROVE  Inv'
<1>0. TypeOK /\ StoreType /\ ProcType
  BY DEF Inv, TypeOK, StoreType, ProcType
<1>1. UNCHANGED <<models, uploaded, pointer, faults>> /\ Commit(p) /\ Rests(p)
  BY DEF Finish
<1>2. ProcType' /\ at'[p] = "idle" /\ Others(p)
  BY <1>0, <1>1, RestsShape
<1>3. /\ StoreType'
      /\ lock # p => UNCHANGED store
      /\ lock = p => active' = work /\ work' = work /\ lock' = Free
  BY <1>0, <1>1, CommitShape
<1>4. Effect(p) /\ ModelsGrow
  BY <1>0, <1>1, <1>3, SameModels DEF Effect, Keeps, Commits
<1>5. TypeOK'
  BY <1>0, <1>1, <1>2, <1>3 DEF TypeOK, StoreType, ProcType
<1>6. lock' # p
  BY <1>3, ModelsAssumption DEF store
<1>7. ProcInv(p)'
  BY <1>2, <1>6 DEF ProcInv, CandSaved, LockHeld, Untouched, ChampionStays, Making, Judging, Promoting
<1> QED
  BY <1>2, <1>4, <1>5, <1>7, Assembled

LEMMA NextKeepsInv == Inv /\ [Next]_vars => Inv'
<1> SUFFICES ASSUME Inv, [Next]_vars PROVE Inv'
  OBVIOUS
<1>1. CASE UNCHANGED vars
  <2>1. /\ UNCHANGED models /\ UNCHANGED store /\ UNCHANGED cursor /\ UNCHANGED at
        /\ UNCHANGED cand /\ TypeOK'
    BY <1>1 DEF vars, store, Inv, TypeOK
  <2>2. StoreInv'
    BY <2>1 DEF store, Inv, StoreInv, RowsSaved, RowsSingle, Pending, Promotes
  <2>3. ASSUME NEW p \in Procs PROVE ProcInv(p)'
    <3>1. ProcInv(p)
      BY DEF Inv
    <3> QED
      BY <2>1, <3>1 DEF ProcInv, CandSaved, LockHeld, Untouched, ChampionStays, Training, Target, store
  <2> QED
    BY <2>1, <2>2, <2>3 DEF Inv
<1>2. ASSUME NEW p \in Procs, Start(p) \/ Step(p) \/ Killed(p)
      PROVE  Inv'
  <2>0. faults \in 0..MaxFaults
    BY DEF Inv, TypeOK
  <2>1. CASE Start(p)
    BY <2>1, StartKeepsInv
  <2>2. CASE OpenRun(p)
    BY <2>2, OpenRunKeepsInv
  <2>3. CASE GiveUp(p) \/ Compare(p)
    <3>1. Settle(p) /\ UNCHANGED <<models, uploaded, pointer>> /\ faults' \in 0..MaxFaults
      BY <2>0, <2>3 DEF GiveUp, Compare
    <3> QED
      BY <3>1, SettleKeepsInv
  <2>4. CASE Judge(p)
    BY <2>4, JudgeKeepsInv
  <2>5. CASE Look(p)
    BY <2>5, LookKeepsInv
  <2>6. CASE SaveArtifact(p)
    BY <2>6, SaveArtifactKeepsInv
  <2>7. CASE Upload(p)
    BY <2>7, UploadKeepsInv
  <2>8. CASE Register(p)
    BY <2>8, RegisterKeepsInv
  <2>9. CASE PutPointer(p)
    BY <2>9, PutPointerKeepsInv
  <2>10. CASE CallFails(p)
    <3>1. /\ Settle(p) \/ Abort(p)
          /\ UNCHANGED <<models, uploaded, pointer>> /\ faults' \in 0..MaxFaults
      BY <2>0, <2>10, ModelsAssumption DEF CallFails, Fail
    <3> QED
      BY <3>1, SettleKeepsInv, AbortKeepsInv
  <2>11. CASE Finish(p)
    BY <2>11, FinishKeepsInv
  <2>12. CASE LockTimeout(p) \/ Killed(p)
    <3>1. Abort(p) /\ UNCHANGED <<models, uploaded, pointer>> /\ faults' \in 0..MaxFaults
      BY <2>0, <2>12, ModelsAssumption DEF LockTimeout, Killed
    <3> QED
      BY <3>1, AbortKeepsInv
  <2> QED
    BY <1>2, <2>1, <2>2, <2>3, <2>4, <2>5, <2>6, <2>7, <2>8, <2>9, <2>10, <2>11, <2>12 DEF Step
<1> QED
  BY <1>1, <1>2 DEF Next

LEMMA InitInv == Init => Inv
<1> SUFFICES ASSUME Init PROVE Inv
  OBVIOUS
<1>1. TypeOK
  BY InitTypeOK
<1>2. StoreInv
  BY DEF Init, StoreInv, RowsSaved, RowsSingle, Pending, Single
<1>3. ASSUME NEW p \in Procs PROVE ProcInv(p)
  <2>1. at[p] = "idle" /\ lock # p
    BY ModelsAssumption DEF Init
  <2> QED
    BY <2>1 DEF ProcInv, CandSaved, LockHeld, Untouched, ChampionStays, Making, Judging, Promoting
<1> QED
  BY <1>1, <1>2, <1>3 DEF Inv

LEMMA AlwaysInv == Spec => []Inv
  BY InitInv, NextKeepsInv, PTL DEF Spec

-----------------------------------------------------------------------------
(* Every variable of HourlyModels stays in its type. *)
THEOREM TypeCorrect == Spec => []TypeOK
<1>1. Inv => TypeOK
  BY DEF Inv
<1> QED
  BY <1>1, AlwaysInv, PTL

LEMMA SingleIsSmall ==
  ASSUME NEW S, Single(S)
  PROVE  Cardinality(S) <= 1
<1>1. CASE S = {}
  BY <1>1, FS_EmptySet
<1>2. CASE S # {}
  <2>1. PICK v : S = {v}
    BY <1>2 DEF Single
  <2>2. Cardinality({v}) = 1
    BY FS_Singleton
  <2> QED
    BY <2>1, <2>2
<1> QED
  BY <1>1, <1>2

(* No committed state has two active models of one target: _activate updates   *)
(* all rows of the target under the write lock.                                 *)
THEOREM AtMostOneActive == Spec => []OneActive
<1>1. Inv => OneActive
  BY SingleIsSmall DEF Inv, StoreInv, RowsSingle, OneActive
<1> QED
  BY <1>1, AlwaysInv, PTL

(* Training compares and activates in one transaction, so what it commits       *)
(* replaces the model it was judged against, however the jobs interleave.       *)
THEOREM TrainedReplacesJudged == Spec => JudgedReplacement
<1> DEFINE A == \A t \in T : \A v \in active'[t] \ active[t] : models'[v].by = "train" =>
                  /\ models'[v].approved
                  /\ active[t] = IF models'[v].base = NoVersion THEN {} ELSE {models'[v].base}
<1>1. Inv /\ [Next]_vars => [A]_vars
  <2> SUFFICES ASSUME Inv, Next PROVE A
    OBVIOUS
  <2>1. PICK p \in Procs : Start(p) \/ Step(p) \/ Killed(p)
    BY DEF Next
  <2>2. active' = active \/ (active' = work /\ models' = models)
    BY <2>1 DEF Step, Start, OpenRun, GiveUp, Compare, Judge, Look, SaveArtifact, Upload, Register,
                PutPointer, CallFails, Finish, LockTimeout, Killed, Abort, Fail, Settle, Commit, View, store
  <2> QED
    BY <2>2 DEF Inv, StoreInv, Pending, Promotes, BaseSet
<1> QED
  BY <1>1, AlwaysInv, PTL DEF Spec, JudgedReplacement

-----------------------------------------------------------------------------
(* How far the objects of a version have come.  A process uploads the version *)
(* that it has saved, which is no other process's, and comes to its pointer    *)
(* when all of its objects are in the store.                                   *)
Fresh == \A v \in Versions : v > Len(models) => uploaded[v] = 0

Own == \A p, q \in Procs : at[p] \in Making /\ at[q] \in Making /\ cand[p].v = cand[q].v => p = q

UploadedSoFar(p) ==
    /\ at[p] = "upload" => uploaded[cand[p].v] < Objects
    /\ at[p] = "row" /\ job[p] \notin {"candidate", "local"} => uploaded[cand[p].v] = Objects
    /\ at[p] = "pointer" => uploaded[cand[p].v] = Objects

ObjectsInv ==
    /\ Inv
    /\ PointerComplete
    /\ Fresh
    /\ Own
    /\ \A p \in Procs : UploadedSoFar(p)

(* A candidate of another process is a saved version. *)
LEMMA MakesSaved ==
  ASSUME Inv, NEW p \in Procs, at[p] \in Making
  PROVE  /\ cand[p].v \in 1..Len(models) /\ cand[p].v \in Versions
         /\ uploaded[cand[p].v] \in Nat /\ Len(models) \in Nat
<1>1. cand[p].v \in 1..Len(models)
  BY DEF Inv, ProcInv, CandSaved
<1>2. Len(models) \in Nat /\ Len(models) <= MaxModels /\ uploaded \in [Versions -> Nat]
  BY DEF Inv, TypeOK
<1>3. cand[p].v \in Versions
  BY <1>1, <1>2, ModelsAssumption DEF Versions
<1> QED
  BY <1>1, <1>2, <1>3

(* A step of p that leaves no version of p in the making touches no object. *)
LEMMA IdleKeepsObjects ==
  ASSUME ObjectsInv, Inv', NEW p \in Procs, Others(p), UNCHANGED <<models, uploaded, pointer>>,
         at'[p] \notin Making
  PROVE  ObjectsInv'
<1>1. Fresh' /\ PointerComplete'
  BY DEF ObjectsInv, Fresh, PointerComplete
<1>2. Own'
  BY DEF ObjectsInv, Own, Others
<1>3. \A q \in Procs : UploadedSoFar(q)'
  BY DEF ObjectsInv, UploadedSoFar, Others, Making
<1> QED
  BY <1>1, <1>2, <1>3 DEF ObjectsInv

LEMMA SaveKeepsObjects ==
  ASSUME ObjectsInv, Inv', NEW p \in Procs, SaveArtifact(p)
  PROVE  ObjectsInv'
<1> DEFINE n == Len(models) + 1
<1>0. TypeOK /\ TypeOK'
  BY DEF ObjectsInv, Inv
<1>1. /\ UNCHANGED <<uploaded, pointer, job>> /\ at[p] = "save" /\ Len(models) < MaxModels
      /\ Len(models') = n /\ Len(models) \in Nat /\ n \in Versions
      /\ Goto(p, IF job[p] \in {"candidate", "local"} THEN "row" ELSE "upload")
      /\ Takes(p, cand[p].base, cand[p].approved, n)
  BY <1>0, ModelsAssumption DEF SaveArtifact, TypeOK, Versions
<1>2. /\ at'[p] = IF job[p] \in {"candidate", "local"} THEN "row" ELSE "upload"
      /\ cand'[p].v = n
      /\ \A q \in Procs \ {p} : at'[q] = at[q] /\ cand'[q] = cand[q] /\ job'[q] = job[q]
  BY <1>0, <1>1 DEF Goto, Takes, TypeOK
<1>3. uploaded[n] = 0
  BY <1>1 DEF ObjectsInv, Fresh
<1> HIDE DEF n
<1>4. n = Len(models) + 1
  BY DEF n
<1>5. Fresh'
  BY <1>1, <1>4 DEF ObjectsInv, Fresh, Versions
<1>6. PointerComplete'
  BY <1>1 DEF ObjectsInv, PointerComplete
<1>7. \A q \in Procs \ {p} : at[q] \in Making => cand[q].v # n
  BY <1>1, <1>4, MakesSaved DEF ObjectsInv
<1>8. Own'
  BY <1>2, <1>7 DEF ObjectsInv, Own
<1>9. UploadedSoFar(p)'
  BY <1>1, <1>2, <1>3 DEF UploadedSoFar, Objects
<1>10. \A q \in Procs \ {p} : UploadedSoFar(q)'
  BY <1>1, <1>2 DEF ObjectsInv, UploadedSoFar
<1> QED
  BY <1>5, <1>6, <1>8, <1>9, <1>10 DEF ObjectsInv

LEMMA UploadKeepsObjects ==
  ASSUME ObjectsInv, Inv', NEW p \in Procs, Upload(p)
  PROVE  ObjectsInv'
<1> DEFINE v == cand[p].v
<1>0. TypeOK
  BY DEF ObjectsInv, Inv
<1>1. /\ UNCHANGED <<models, pointer, job, cand>> /\ at[p] = "upload"
      /\ uploaded' = [uploaded EXCEPT ![v] = @ + 1]
      /\ Goto(p, IF uploaded[v] + 1 = Objects THEN "row" ELSE "upload")
  BY DEF Upload
<1>2. v \in 1..Len(models) /\ v \in Versions /\ uploaded[v] \in Nat /\ Len(models) \in Nat
  BY <1>1, MakesSaved DEF ObjectsInv, Making
<1>3. uploaded[v] < Objects
  BY <1>1 DEF ObjectsInv, UploadedSoFar
<1>4. /\ at'[p] = IF uploaded[v] + 1 = Objects THEN "row" ELSE "upload"
      /\ \A q \in Procs \ {p} : at'[q] = at[q]
  BY <1>0, <1>1 DEF Goto, TypeOK
<1>5. /\ uploaded'[v] = uploaded[v] + 1
      /\ \A w : w # v => uploaded'[w] = uploaded[w]
  BY <1>0, <1>1, <1>2 DEF TypeOK
<1>6. \A q \in Procs \ {p} : at[q] \in Making => cand[q].v # v
  BY <1>1 DEF ObjectsInv, Own, Making
<1> HIDE DEF v
<1>7. Fresh'
  BY <1>1, <1>2, <1>5 DEF ObjectsInv, Fresh, Versions
<1>8. PointerComplete'
  BY <1>1, <1>3, <1>5 DEF ObjectsInv, PointerComplete, Objects
<1>9. Own'
  BY <1>1, <1>4 DEF ObjectsInv, Own, Making
<1>10. UploadedSoFar(p)'
  BY <1>1, <1>2, <1>3, <1>4, <1>5 DEF UploadedSoFar, Objects, v
<1>11. \A q \in Procs \ {p} : UploadedSoFar(q)'
  BY <1>1, <1>4, <1>5, <1>6 DEF ObjectsInv, UploadedSoFar, Making
<1> QED
  BY <1>7, <1>8, <1>9, <1>10, <1>11 DEF ObjectsInv

LEMMA RegisterKeepsObjects ==
  ASSUME ObjectsInv, Inv', NEW p \in Procs, Register(p)
  PROVE  ObjectsInv'
<1>0. TypeOK
  BY DEF ObjectsInv, Inv
<1>1. at[p] = "row" /\ UNCHANGED <<models, uploaded, pointer>>
  BY DEF Register
<1>2. CASE ~Activates(p)
  <2>1. Settle(p)
    BY <1>2 DEF Register
  <2>2. Others(p) /\ at'[p] \in {"open", "look", "commit"}
    BY <1>0, <2>1, SettleShape
  <2> QED
    BY <1>1, <2>2, IdleKeepsObjects DEF Making
<1>3. CASE Activates(p)
  <2>1. UNCHANGED <<job, cand>> /\ Goto(p, IF job[p] = "local" THEN "compare" ELSE "pointer")
    BY <1>3 DEF Register
  <2>2. /\ at'[p] = IF job[p] = "local" THEN "compare" ELSE "pointer"
        /\ \A q \in Procs \ {p} : at'[q] = at[q]
    BY <1>0, <2>1 DEF Goto, TypeOK
  <2>3. Fresh' /\ PointerComplete'
    BY <1>1 DEF ObjectsInv, Fresh, PointerComplete
  <2>4. Own'
    BY <1>1, <2>1, <2>2 DEF ObjectsInv, Own, Making
  <2>5. UploadedSoFar(p)'
    BY <1>1, <1>3, <2>1, <2>2 DEF ObjectsInv, UploadedSoFar, Activates
  <2>6. \A q \in Procs \ {p} : UploadedSoFar(q)'
    BY <1>1, <2>1, <2>2 DEF ObjectsInv, UploadedSoFar
  <2> QED
    BY <2>3, <2>4, <2>5, <2>6 DEF ObjectsInv
<1> QED
  BY <1>2, <1>3

LEMMA PutPointerKeepsObjects ==
  ASSUME ObjectsInv, Inv', NEW p \in Procs, PutPointer(p)
  PROVE  ObjectsInv'
<1>0. TypeOK
  BY DEF ObjectsInv, Inv
<1>1. /\ UNCHANGED <<models, uploaded, job, cand>> /\ at[p] = "pointer"
      /\ pointer' = [pointer EXCEPT ![Target(p)] = cand[p].v] /\ Goto(p, "compare")
  BY DEF PutPointer
<1>2. uploaded[cand[p].v] = Objects
  BY <1>1 DEF ObjectsInv, UploadedSoFar
<1>3. at'[p] = "compare" /\ \A q \in Procs \ {p} : at'[q] = at[q]
  BY <1>0, <1>1 DEF Goto, TypeOK
<1>4. Fresh'
  BY <1>1 DEF ObjectsInv, Fresh
<1>5. PointerComplete'
  BY <1>0, <1>1, <1>2, TargetType DEF ObjectsInv, PointerComplete, TypeOK
<1>6. Own'
  BY <1>1, <1>3 DEF ObjectsInv, Own, Making
<1>7. \A q \in Procs : UploadedSoFar(q)'
  BY <1>1, <1>3 DEF ObjectsInv, UploadedSoFar
<1> QED
  BY <1>4, <1>5, <1>6, <1>7 DEF ObjectsInv

(* The other steps leave the making of a version, or have not begun it. *)
LEMMA StepShape ==
  ASSUME TypeOK, NEW p \in Procs,
         \/ Start(p) \/ OpenRun(p) \/ GiveUp(p) \/ Judge(p) \/ Look(p) \/ Compare(p)
         \/ CallFails(p) \/ Finish(p) \/ LockTimeout(p) \/ Killed(p)
  PROVE  /\ UNCHANGED <<models, uploaded, pointer>>
         /\ Others(p) /\ at'[p] \notin Making
<1>0. TypeOK /\ StoreType /\ ProcType
  BY DEF TypeOK, StoreType, ProcType
<1>1. UNCHANGED <<models, uploaded, pointer>>
  BY DEF Start, OpenRun, GiveUp, Judge, Look, Compare, CallFails, Finish, LockTimeout, Killed
<1>2. CASE Settle(p)
  BY <1>0, <1>1, <1>2, SettleShape DEF Making
<1>3. CASE Abort(p)
  BY <1>0, <1>1, <1>3, AbortShape DEF Making
<1>4. CASE Start(p)
  <2>1. PICK j \in Jobs : job' = [job EXCEPT ![p] = j] /\ Moves(p, FirstPhase(j), 1)
    BY <1>4 DEF Start
  <2>2. FirstPhase(j) \in Phases /\ 1 \in DOMAIN Targets
    BY ModelsAssumption DEF FirstPhase, Phases
  <2>3. at'[p] \in {"open", "look"} /\ \A q \in Procs \ {p} : at'[q] = at[q] /\ cursor'[q] = cursor[q]
    BY <1>0, <2>1, <2>2, MovesType
  <2>4. cand' = cand /\ \A q \in Procs \ {p} : job'[q] = job[q]
    BY <1>0, <1>4, <2>1 DEF Start, TypeOK
  <2> QED
    BY <1>1, <2>3, <2>4 DEF Others, Making
<1>5. CASE OpenRun(p)
  BY <1>0, <1>1, <1>5 DEF OpenRun, Goto, TypeOK, Others, Making
<1>6. CASE Judge(p)
  <2>1. Goto(p, "save") /\ UNCHANGED <<job, cursor>> /\ \E base, approved, v : Takes(p, base, approved, v)
    BY <1>6 DEF Judge
  <2>2. \A q \in Procs \ {p} : cand'[q] = cand[q]
    BY <1>0, <2>1 DEF Takes, TypeOK
  <2> QED
    BY <1>0, <1>1, <2>1, <2>2 DEF Goto, TypeOK, Others, Making
<1>7. CASE Look(p)
  <2>1. CASE Takes(p, Active(p), TRUE, NoVersion) /\ Goto(p, "save") /\ UNCHANGED cursor
    <3>1. \A q \in Procs \ {p} : cand'[q] = cand[q]
      BY <1>0, <2>1 DEF Takes, TypeOK
    <3> QED
      BY <1>0, <1>1, <1>7, <2>1, <3>1 DEF Look, Goto, TypeOK, Others, Making
  <2>2. CASE Advance(p)
    BY <1>0, <1>1, <1>7, <2>2, AdvanceShape DEF Look, Others, Making
  <2> QED
    BY <1>7, <2>1, <2>2 DEF Look
<1>8. CASE Finish(p)
  BY <1>0, <1>1, <1>8, RestsShape DEF Finish, Making
<1> QED
  BY <1>1, <1>2, <1>3, <1>4, <1>5, <1>6, <1>7, <1>8 DEF GiveUp, Compare, CallFails, Fail, LockTimeout, Killed

LEMMA NextKeepsObjects == ObjectsInv /\ [Next]_vars => ObjectsInv'
<1> SUFFICES ASSUME ObjectsInv, [Next]_vars PROVE ObjectsInv'
  OBVIOUS
<1>0. Inv /\ Inv'
  BY NextKeepsInv DEF ObjectsInv
<1>1. CASE UNCHANGED vars
  BY <1>0, <1>1 DEF vars, ObjectsInv, PointerComplete, Fresh, Own, UploadedSoFar
<1>2. ASSUME NEW p \in Procs, Start(p) \/ Step(p) \/ Killed(p)
      PROVE  ObjectsInv'
  <2>1. CASE SaveArtifact(p) \/ Upload(p) \/ Register(p) \/ PutPointer(p)
    BY <1>0, <2>1, SaveKeepsObjects, UploadKeepsObjects, RegisterKeepsObjects, PutPointerKeepsObjects
  <2>2. CASE ~(SaveArtifact(p) \/ Upload(p) \/ Register(p) \/ PutPointer(p))
    <3>1. UNCHANGED <<models, uploaded, pointer>> /\ Others(p) /\ at'[p] \notin Making
      BY <1>0, <1>2, <2>2, StepShape DEF Inv, Step
    <3> QED
      BY <1>0, <3>1, IdleKeepsObjects
  <2> QED
    BY <2>1, <2>2
<1> QED
  BY <1>1, <1>2 DEF Next

(* What a pointer names is complete in the object store: the pointer is put    *)
(* after the three objects of its version, whichever put fails and whoever is   *)
(* killed, and nobody else uploads that version.                                *)
THEOREM PointersComplete == Spec => []PointerComplete
<1>1. Init => ObjectsInv
  <2> SUFFICES ASSUME Init PROVE ObjectsInv
    OBVIOUS
  <2>1. \A p \in Procs : at[p] = "idle"
    BY DEF Init
  <2>2. Own /\ \A p \in Procs : UploadedSoFar(p)
    BY <2>1 DEF Own, UploadedSoFar, Making
  <2>3. Fresh /\ PointerComplete
    BY DEF Init, Fresh, PointerComplete
  <2> QED
    BY <2>2, <2>3, InitInv DEF ObjectsInv
<1>2. ObjectsInv => PointerComplete
  BY DEF ObjectsInv
<1> QED
  BY <1>1, <1>2, NextKeepsObjects, PTL DEF Spec

-----------------------------------------------------------------------------
(* The rows that the open transaction would commit. *)
StillModelled == \A t \in T : active[t] # {} => work[t] # {}

LEMMA NextModelled == Inv /\ StillModelled /\ [Next]_vars =>
                        StillModelled' /\ \A t \in T : active[t] # {} => active'[t] # {}
<1> SUFFICES ASSUME Inv, StillModelled, [Next]_vars, NEW t \in T
             PROVE  /\ active'[t] # {} => work'[t] # {}
                    /\ active[t] # {} => active'[t] # {}
  BY DEF StillModelled
<1>1. CASE active' \in {active, work} /\ work' \in {active', work}
  BY <1>1 DEF StillModelled
<1>2. ASSUME NEW p \in Procs, work' = [work EXCEPT ![Target(p)] = {cand[p].v}], active' = active
      PROVE  /\ active'[t] # {} => work'[t] # {}
             /\ active[t] # {} => active'[t] # {}
  BY <1>2 DEF StillModelled, Inv, TypeOK
<1>3. CASE UNCHANGED vars
  BY <1>1, <1>3 DEF vars, store
<1>4. ASSUME NEW p \in Procs, Start(p) \/ Step(p) \/ Killed(p)
      PROVE  \/ active' \in {active, work} /\ work' \in {active', work}
             \/ work' = [work EXCEPT ![Target(p)] = {cand[p].v}] /\ active' = active
  BY <1>4 DEF Step, Start, OpenRun, GiveUp, Compare, Judge, Look, SaveArtifact, Upload, Register,
              PutPointer, CallFails, Finish, LockTimeout, Killed, Abort, Fail, Settle, Commit, View, store
<1> QED
  BY <1>1, <1>2, <1>3, <1>4 DEF Next

(* A target that has an active model keeps one in every committed state: the    *)
(* rows are deactivated and the new one activated in the same flush.            *)
THEOREM ModelNeverLost == Spec => NeverWithoutModel
<1> DEFINE A == \A t \in T : active[t] # {} => active'[t] # {}
<1>1. Init => StillModelled
  BY DEF Init, StillModelled
<1>2. Inv /\ StillModelled /\ [Next]_vars => StillModelled' /\ [A]_vars
  BY NextModelled
<1> QED
  BY <1>1, <1>2, AlwaysInv, PTL DEF Spec, NeverWithoutModel

-----------------------------------------------------------------------------
(* The jobs that promise a model for every target, and what they have seen to  *)
(* when the baselines have come to a target: no target before it is without one *)
(* in the rows the job reads.                                                  *)
Bound(p) == job[p] \in {"weekly", "snapshot", "local", "predict"}

Basing(p) == cursor[p].phase = "base"

Served(p) ==
    Bound(p) =>
        /\ cursor[p].phase \in {"train", "base"}
        /\ Basing(p) => \A j \in DOMAIN Targets : j < cursor[p].i => View(p)[Targets[j]] # {}
        /\ Basing(p) /\ at[p] \in Judging => cand[p].approved
        /\ Basing(p) /\ at[p] \in Promoting => View(p)[Target(p)] # {}
        /\ at[p] = "commit" => \A t \in T : View(p)[t] # {}

ServedInv == Inv /\ StillModelled /\ \A p \in Procs : Served(p)

(* Whatever p does, but for a rollback of its own, no process finds a target    *)
(* without a model that it has seen with one.                                  *)
LEMMA ViewGrows ==
  ASSUME Inv, StillModelled, NEW p \in Procs, Start(p) \/ Step(p) \/ Killed(p),
         NEW q \in Procs, q # p \/ ~Abort(p), NEW t \in T, View(q)[t] # {}
  PROVE  View(q)'[t] # {}
<1>1. \/ UNCHANGED store
      \/ CanWrite(p) /\ lock' = p /\ UNCHANGED <<active, work>>
      \/ lock = p /\ active' = work /\ work' = work /\ lock' = Free
      \/ Abort(p)
      \/ /\ CanWrite(p) /\ lock' = p /\ active' = active
         /\ work' = [work EXCEPT ![Target(p)] = {cand[p].v}]
  BY DEF Step, Start, OpenRun, GiveUp, Compare, Judge, Look, SaveArtifact, Upload, Register, CanWrite,
         PutPointer, CallFails, Finish, LockTimeout, Killed, Fail, Settle, Commit, View, store
<1>2. /\ lock = Free => work = active
      /\ active[t] # {} => work[t] # {}
  BY DEF Inv, StoreInv, StillModelled
<1>3. Free \notin Procs
  BY ModelsAssumption
<1>4. CASE UNCHANGED store
  BY <1>4 DEF store, View
<1>5. CASE CanWrite(p) /\ lock' = p /\ UNCHANGED <<active, work>>
  BY <1>2, <1>3, <1>5 DEF CanWrite, View
<1>6. CASE lock = p /\ active' = work /\ work' = work /\ lock' = Free
  BY <1>2, <1>3, <1>6 DEF View
<1>7. CASE Abort(p)
  BY <1>2, <1>3, <1>7 DEF Abort, View
<1>8. CASE /\ CanWrite(p) /\ lock' = p /\ active' = active
           /\ work' = [work EXCEPT ![Target(p)] = {cand[p].v}]
  <2>1. work'[t] \in {work[t], {cand[p].v}}
    BY <1>8 DEF Inv, TypeOK
  <2> QED
    BY <1>2, <1>3, <1>8, <2>1 DEF CanWrite, View
<1> QED
  BY <1>1, <1>4, <1>5, <1>6, <1>7, <1>8

(* Only p moves. *)
LEMMA OnlyOneMoves ==
  ASSUME Inv, NEW p \in Procs, Start(p) \/ Step(p) \/ Killed(p)
  PROVE  Others(p)
<1>1. TypeOK
  BY DEF Inv
<1>2. CASE SaveArtifact(p) \/ Upload(p) \/ PutPointer(p)
  BY <1>1, <1>2 DEF SaveArtifact, Upload, PutPointer, Goto, Takes, TypeOK, Others
<1>3. CASE Register(p)
  <2>1. CASE Settle(p)
    BY <1>1, <2>1, SettleShape
  <2>2. CASE ~Settle(p)
    BY <1>1, <1>3, <2>2 DEF Register, Goto, TypeOK, Others
  <2> QED
    BY <2>1, <2>2
<1> QED
  BY <1>2, <1>3, StepShape DEF Inv, Step

(* The end of a target: its own model is there when the next one begins. *)
LEMMA AdvanceServes ==
  ASSUME Inv, NEW p \in Procs, Served(p), Advance(p), UNCHANGED job,
         Bound(p) /\ Basing(p) => View(p)[Target(p)] # {},
         \A t \in T : View(p)[t] # {} => View(p)'[t] # {}
  PROVE  Served(p)'
<1> SUFFICES ASSUME Bound(p)'
             PROVE  /\ cursor'[p].phase \in {"train", "base"}
                    /\ Basing(p)' => \A j \in DOMAIN Targets : j < cursor'[p].i => View(p)'[Targets[j]] # {}
                    /\ at'[p] \notin Judging \cup Promoting
                    /\ at'[p] = "commit" => \A t \in T : View(p)'[t] # {}
  BY DEF Served
<1>1. TypeOK /\ Bound(p) /\ job[p] # "candidate"
  BY DEF Inv, Bound
<1>2. /\ cursor[p].phase \in {"train", "base"} /\ cursor[p].i \in 1..Len(Targets)
      /\ 1 \in DOMAIN Targets /\ DOMAIN Targets = 1..Len(Targets) /\ Len(Targets) \in Nat
  BY <1>1, ModelsAssumption DEF Served, TypeOK
<1>3. Basing(p) => \A j \in DOMAIN Targets : j <= cursor[p].i => View(p)'[Targets[j]] # {}
  <2> SUFFICES ASSUME Basing(p), NEW j \in DOMAIN Targets, j <= cursor[p].i
               PROVE  View(p)'[Targets[j]] # {}
    OBVIOUS
  <2>1. Targets[j] \in T
    BY ModelsAssumption DEF T, Range
  <2>2. CASE j = cursor[p].i
    BY <1>1, <2>1, <2>2 DEF Target
  <2>3. CASE j # cursor[p].i
    BY <1>1, <1>2, <2>1, <2>3 DEF Served
  <2> QED
    BY <2>2, <2>3
<1>4. CASE cursor[p].i < Len(Targets)
  <2>1. Moves(p, cursor[p].phase, cursor[p].i + 1)
    BY <1>4 DEF Advance
  <2>2. cursor[p].i + 1 \in DOMAIN Targets /\ cursor[p].phase \in Phases
    BY <1>2, <1>4 DEF Phases
  <2>3. /\ cursor'[p].phase = cursor[p].phase /\ cursor'[p].i = cursor[p].i + 1
        /\ at'[p] \in {"open", "look"}
    <3>1. /\ cursor'[p] = [phase |-> cursor[p].phase, i |-> cursor[p].i + 1]
          /\ at'[p] = IF cursor[p].phase = "train" THEN "open" ELSE "look"
      BY <1>1, <2>1, <2>2, MovesType
    <3> QED
      BY <3>1
  <2> QED
    BY <1>2, <1>3, <2>3 DEF Basing, Judging, Promoting
<1>5. CASE ~(cursor[p].i < Len(Targets)) /\ Training(p)
  <2>1. Moves(p, "base", 1) /\ "base" \in Phases
    BY <1>1, <1>5 DEF Advance, Phases
  <2>2. cursor'[p].phase = "base" /\ cursor'[p].i = 1 /\ at'[p] = "look"
    <3>1. cursor'[p] = [phase |-> "base", i |-> 1] /\ at'[p] = "look"
      BY <1>1, <1>2, <2>1, MovesType
    <3> QED
      BY <3>1
  <2> QED
    BY <1>2, <2>2 DEF Judging, Promoting
<1>6. CASE ~(cursor[p].i < Len(Targets)) /\ ~Training(p)
  <2>1. Goto(p, "commit") /\ UNCHANGED cursor /\ Basing(p)
    BY <1>2, <1>6 DEF Advance, Training, Basing
  <2>2. at'[p] = "commit"
    BY <1>1, <2>1 DEF Goto, TypeOK
  <2>3. \A j \in DOMAIN Targets : View(p)'[Targets[j]] # {}
    BY <1>2, <1>3, <1>6, <2>1
  <2>4. \A t \in T : View(p)'[t] # {}
    BY <2>3 DEF T, Range
  <2> QED
    BY <1>2, <2>1, <2>2, <2>3, <2>4 DEF Judging, Promoting
<1> QED
  BY <1>4, <1>5, <1>6

LEMMA NextServed ==
  ASSUME ServedInv, [Next]_vars
  PROVE  ServedInv'
<1>0. Inv' /\ StillModelled'
  BY NextKeepsInv, NextModelled DEF ServedInv
<1>1. CASE UNCHANGED vars
  BY <1>0, <1>1 DEF vars, store, ServedInv, Served, Bound, Basing, View, Target
<1>2. ASSUME NEW p \in Procs, Start(p) \/ Step(p) \/ Killed(p)
      PROVE  \A q \in Procs : Served(q)'
  <2>0. Inv /\ TypeOK /\ StillModelled /\ Served(p)
    BY DEF ServedInv, Inv
  <2>1. ASSUME NEW q \in Procs \ {p}
        PROVE  Served(q)'
    <3>1. Others(p) /\ \A t \in T : View(q)[t] # {} => View(q)'[t] # {}
      BY <1>2, <2>0, OnlyOneMoves, ViewGrows
    <3>2. \A j \in DOMAIN Targets : Targets[j] \in T
      BY ModelsAssumption DEF T, Range
    <3>3. Target(q)' = Target(q) /\ Target(q) \in T
      BY <2>0, <3>1, TargetType DEF Others, Target
    <3> QED
      BY <3>1, <3>2, <3>3 DEF Others, ServedInv, Served, Bound, Basing
  <2>2. Served(p)'
    <3>1. CASE Abort(p)
      <4>1. ~Bound(p)'
        BY <2>0, <3>1 DEF Abort, Rests, Bound, None, TypeOK
      <4> QED
        BY <4>1 DEF Served
    <3>2. CASE Finish(p)
      <4>1. ~Bound(p)'
        BY <2>0, <3>2 DEF Finish, Rests, Bound, None, TypeOK
      <4> QED
        BY <4>1 DEF Served
    <3>3. CASE Start(p)
      <4>1. PICK j \in Jobs : job' = [job EXCEPT ![p] = j] /\ Moves(p, FirstPhase(j), 1)
        BY <3>3 DEF Start
      <4>2. FirstPhase(j) \in Phases /\ 1 \in DOMAIN Targets /\ (j # "update" => FirstPhase(j) \in {"train", "base"})
        BY ModelsAssumption DEF FirstPhase, Phases
      <4>3. at'[p] \in {"open", "look"} /\ cursor'[p].phase = FirstPhase(j) /\ cursor'[p].i = 1
        <5>1. /\ cursor'[p] = [phase |-> FirstPhase(j), i |-> 1]
              /\ at'[p] = IF FirstPhase(j) = "train" THEN "open" ELSE "look"
          BY <2>0, <4>1, <4>2, MovesType
        <5> QED
          BY <5>1
      <4>4. job'[p] = j
        BY <2>0, <4>1 DEF TypeOK
      <4>5. \A i \in DOMAIN Targets : ~(i < 1)
        BY ModelsAssumption
      <4> QED
        BY <4>2, <4>3, <4>4, <4>5 DEF Served, Bound, Basing, Judging, Promoting
    <3> DEFINE Grows == \A t \in T : View(p)[t] # {} => View(p)'[t] # {}
    <3>4. ~Abort(p) => Grows
      BY <1>2, <2>0, ViewGrows
    <3> HIDE DEF Grows
    <3>5. ASSUME Settle(p), Training(p) \/ at[p] = "compare", ~Abort(p)
          PROVE  Served(p)'
      <4>1. Advance(p) /\ UNCHANGED job /\ Grows
        BY <3>4, <3>5 DEF Settle
      <4>2. Bound(p) /\ Basing(p) => View(p)[Target(p)] # {}
        BY <2>0, <3>5 DEF Served, Training, Basing, Promoting
      <4> QED
        BY <2>0, <4>1, <4>2, AdvanceServes DEF Grows
    <3>6. ASSUME UNCHANGED <<job, cursor>>, ~Abort(p), at'[p] \in {"look", "save", "upload", "row", "compare"} \cup Promoting,
                 Bound(p) /\ Basing(p) /\ at'[p] \in Judging => cand'[p].approved,
                 Bound(p) /\ Basing(p) /\ at'[p] \in Promoting => View(p)'[Target(p)] # {}
          PROVE  Served(p)'
      <4>1. \A j \in DOMAIN Targets : Targets[j] \in T
        BY ModelsAssumption DEF T, Range
      <4>2. at'[p] # "commit" /\ Target(p)' = Target(p)
        BY <3>6 DEF Promoting, Target
      <4> QED
        BY <2>0, <3>4, <3>6, <4>1, <4>2 DEF Served, Bound, Basing, Grows
    <3>7. CASE OpenRun(p) /\ ~Abort(p)
      <4>1. at'[p] = "look" /\ UNCHANGED <<job, cursor>>
        BY <2>0, <3>7 DEF OpenRun, Goto, TypeOK
      <4> QED
        BY <3>6, <3>7, <4>1 DEF Judging, Promoting
    <3>8. CASE Judge(p) /\ ~Abort(p)
      <4>1. at'[p] = "save" /\ UNCHANGED <<job, cursor>> /\ ~Basing(p)
        BY <2>0, <3>8 DEF Judge, Goto, TypeOK, Training, Basing
      <4> QED
        BY <3>6, <3>8, <4>1
    <3>9. CASE Look(p) /\ ~Abort(p)
      <4>1. CASE Takes(p, Active(p), TRUE, NoVersion) /\ Goto(p, "save") /\ UNCHANGED cursor
        <5>1. at'[p] = "save" /\ cand'[p].approved /\ UNCHANGED job
          BY <2>0, <3>9, <4>1 DEF Look, Goto, Takes, TypeOK
        <5> QED
          BY <3>6, <3>9, <4>1, <5>1 DEF Promoting
      <4>2. CASE Advance(p) /\ (cursor[p].phase = "base" => Active(p) # NoVersion)
        <5>1. Bound(p) /\ Basing(p) => View(p)[Target(p)] # {}
          BY <4>2 DEF Active, Basing
        <5> QED
          BY <2>0, <3>4, <3>9, <4>2, <5>1, AdvanceServes DEF Look, Grows
      <4> QED
        BY <3>9, <4>1, <4>2 DEF Look
    <3>10. CASE (SaveArtifact(p) \/ Upload(p)) /\ ~Abort(p)
      <4>1. /\ at[p] \in Judging /\ at'[p] \in {"upload", "row"} /\ UNCHANGED <<job, cursor>>
            /\ cand'[p].approved = cand[p].approved
        BY <2>0, <3>10 DEF SaveArtifact, Upload, Goto, Takes, TypeOK, Judging
      <4> QED
        BY <2>0, <3>6, <3>10, <4>1 DEF Served, Judging, Promoting
    <3>11. CASE Register(p) /\ ~Abort(p)
      <4>1. CASE Activates(p)
        <5>1. /\ work' = [work EXCEPT ![Target(p)] = {cand[p].v}] /\ lock' = p
              /\ UNCHANGED <<job, cursor>> /\ at'[p] \in Promoting
          BY <2>0, <3>11, <4>1 DEF Register, Goto, TypeOK, Promoting
        <5>2. View(p)'[Target(p)] # {}
          BY <2>0, <5>1, TargetType DEF View, TypeOK
        <5> QED
          BY <3>6, <3>11, <5>1, <5>2 DEF Promoting, Judging
      <4>2. CASE ~Activates(p)
        <5>1. Settle(p) /\ at[p] \in Judging
          BY <3>11, <4>2 DEF Register, Judging
        <5>2. Bound(p) /\ Basing(p) => FALSE
          BY <2>0, <4>2, <5>1 DEF Served, Activates, Bound
        <5> QED
          BY <2>0, <3>4, <3>11, <5>1, <5>2, AdvanceServes DEF Settle, Grows
      <4> QED
        BY <4>1, <4>2
    <3>12. CASE PutPointer(p) /\ ~Abort(p)
      <4>1. at[p] \in Promoting /\ at'[p] = "compare" /\ UNCHANGED <<job, cursor>>
        BY <2>0, <3>12 DEF PutPointer, Goto, TypeOK, Promoting
      <4>2. Bound(p) /\ Basing(p) => View(p)'[Target(p)] # {}
        BY <2>0, <3>4, <3>12, <4>1, TargetType DEF Served, Grows
      <4> QED
        BY <3>6, <3>12, <4>1, <4>2 DEF Judging
    <3>13. CASE (GiveUp(p) \/ Compare(p) \/ CallFails(p)) /\ ~Abort(p)
      BY <3>5, <3>13 DEF GiveUp, Compare, CallFails, Fail
    <3>14. CASE LockTimeout(p) \/ Killed(p)
      BY <3>1, <3>14 DEF LockTimeout, Killed
    <3> QED
      BY <1>2, <3>1, <3>2, <3>3, <3>7, <3>8, <3>9, <3>10, <3>11, <3>12, <3>13, <3>14 DEF Step
  <2> QED
    BY <2>1, <2>2
<1> QED
  BY <1>0, <1>1, <1>2 DEF Next, ServedInv

(* A training or a prediction stage that ends has left a model for every target: *)
(* what it finds without one after its own candidates gets a bootstrap model,    *)
(* and no other job takes a target's model away.                                *)
THEOREM AllTargetsServed == Spec => EveryTargetServed
<1> DEFINE A == \A p \in Procs :
                  (/\ at[p] = "commit" /\ at'[p] = "idle" /\ faults' = faults
                   /\ job[p] \in {"weekly", "snapshot", "local", "predict"})
                  => \A t \in T : active'[t] # {}
<1>1. Init => ServedInv
  <2> SUFFICES ASSUME Init PROVE ServedInv
    OBVIOUS
  <2>1. StillModelled /\ \A p \in Procs : Served(p)
    BY DEF Init, StillModelled, Served, Bound, None
  <2> QED
    BY <2>1, InitInv DEF ServedInv
<1>2. ServedInv /\ [Next]_vars => [A]_vars
  <2> SUFFICES ASSUME ServedInv, Next, NEW p \in Procs, at[p] = "commit", at'[p] = "idle",
                      faults' = faults, Bound(p), NEW t \in T
               PROVE  active'[t] # {}
    BY DEF Bound
  <2>1. PICK q \in Procs : Start(q) \/ Step(q) \/ Killed(q)
    BY DEF Next
  <2>2. q = p
    <3>1. Others(q)
      BY <2>1, OnlyOneMoves DEF ServedInv
    <3> QED
      BY <3>1 DEF Others
  <2>3. faults \in Nat
    BY ModelsAssumption DEF ServedInv, Inv, TypeOK
  <2>4. Finish(p)
    <3>1. ~Start(p) /\ ~Killed(p)
      BY <2>3 DEF Start, Killed
    <3>2. ~(OpenRun(p) \/ GiveUp(p) \/ Judge(p) \/ Look(p) \/ SaveArtifact(p) \/ Upload(p))
      BY DEF OpenRun, GiveUp, Judge, Look, SaveArtifact, Upload
    <3>3. ~(Register(p) \/ PutPointer(p) \/ Compare(p) \/ CallFails(p) \/ LockTimeout(p))
      BY DEF Register, PutPointer, Compare, CallFails, LockTimeout
    <3> QED
      BY <2>1, <2>2, <3>1, <3>2, <3>3 DEF Step
  <2> QED
    BY <2>4 DEF Finish, Commit, ServedInv, Served
<1>3. ServedInv /\ [Next]_vars => ServedInv'
  BY NextServed
<1> QED
  BY <1>1, <1>2, <1>3, PTL DEF Spec, EveryTargetServed

-----------------------------------------------------------------------------
(* ModelRecovery.  For any targets, processes, bounds and jobs beside the     *)
(* operator's command:                                                        *)
(* recoveries and publications keep one active model of a target and complete *)
(* versions behind the pointers; none of them leaves a target without the     *)
(* model it had; a recovery goes behind a pointer only to the active model;   *)
(* what a publication points to is a trained model that the gate approved.    *)
(*                                                                            *)
(* The write lock no longer separates the jobs: a recovery activates what it  *)
(* has read long before.  What remains is that versions are immutable, that   *)
(* their objects are only added, and that time does not go back.              *)

(* A version that was saved, and activated after it was. *)
Row(v) == v \in 1..Len(models) /\ since[v] >= v

RowsInv ==
    \A t \in T :
        /\ Single(active[t]) /\ Single(work[t])
        /\ \A v \in active[t] \union work[t] : Row(v)
        /\ active[t] # {} => work[t] # {}

(* Objects belong to saved versions, and a version has no more than three. *)
ObjectsBounded == \A v \in Versions : uploaded[v] <= Objects /\ (v > Len(models) => uploaded[v] = 0)

Named(v) == uploaded[v] = Objects /\ Row(v)

PointersNamed == \A t \in T : pointer[t] # NoVersion => Named(pointer[t])

(* A job that is not the operator's: its candidate is saved, and complete before   *)
(* the pointer is put, by whomever.                                                *)
JobInv(p) ==
    /\ at[p] \in Making => cand[p].v \in 1..Len(models)
    /\ at[p] = "row" /\ job[p] \notin {"candidate", "local"} => uploaded[cand[p].v] = Objects
    /\ at[p] = "pointer" => Named(cand[p].v)
    /\ at[p] = "idle" /\ op.by # p => lock # p

(* The operator's session: what it has planned is saved, what a publication has    *)
(* selected is approved, and the objects of the choice are there, step by step.    *)
Selected(v) == Row(v) /\ models[v].by = "train" /\ models[v].approved

Planned(c) ==
    c # NoChoice => /\ c.v \in 1..Len(models)
                    /\ op.cmd = "publish" => Selected(c.v)

OpInv ==
    /\ op # NoOp => op.by \in Procs /\ at[op.by] = "idle"
    /\ op.at = "idle" => op = NoOp
    /\ op.at = "audit" \/ op.cmd = "publish" => lock # op.by
    /\ \A t \in T : Planned(op.plan[t])
    /\ op.at \in {"card", "metrics", "row", "pointer"} \/ (op.at = "binary" /\ Recovering)
         => Choice # NoChoice
    /\ op.at = "card" => uploaded[Choice.v] >= 1
    /\ op.at = "metrics" => uploaded[Choice.v] >= 2
    /\ op.at \in {"row", "pointer"} => uploaded[Choice.v] = Objects
    /\ op.at = "pointer" => Row(Choice.v)

RecoveryInv ==
    /\ RecoveryTypeOK
    /\ RowsInv /\ ObjectsBounded /\ PointersNamed /\ OpInv
    /\ \A p \in Procs : JobInv(p)

-----------------------------------------------------------------------------
(* What a step may do to the versions, and to the rows.                        *)

(* Saved versions stay, objects are added, activations move on. *)
VersionsStay ==
    /\ ModelsGrow
    /\ \A v \in Versions : uploaded[v] <= uploaded'[v]
    /\ \A v \in Versions : since'[v] = since[v] \/ since'[v] = Len(models)
    /\ ObjectsBounded'

(* Begins, commits or rolls back; or activates one version of one target. *)
RowsMove ==
    \/ active' \in {active, work} /\ work' \in {active', work}
    \/ /\ active' = active
       /\ \E t \in T, v \in 1..Len(models) :
             work' = [work EXCEPT ![t] = {v}] /\ Row(v)'

LEMMA VersionNumbers ==
  ASSUME RecoveryTypeOK
  PROVE  /\ Len(models) \in 0..MaxModels /\ Versions = 1..MaxModels /\ MaxModels \in Nat
         /\ 1..Len(models) \subseteq Versions
         /\ \A v \in Versions : since[v] \in Nat /\ uploaded[v] \in Nat
  BY ModelsAssumption DEF RecoveryTypeOK, TypeOK, Versions

LEMMA RowStays ==
  ASSUME RecoveryTypeOK, RecoveryTypeOK', VersionsStay, NEW v, Row(v)
  PROVE  Row(v)'
<1>1. v \in 1..Len(models) /\ v \in Versions /\ since[v] >= v /\ Len(models) \in Nat
  BY VersionNumbers DEF Row
<1>2. v \in 1..Len(models')
  BY <1>1 DEF VersionsStay, ModelsGrow
<1>3. since'[v] = since[v] \/ since'[v] = Len(models)
  BY <1>1 DEF VersionsStay
<1>4. since'[v] >= v
  BY <1>1, <1>3
<1> QED
  BY <1>2, <1>4 DEF Row

LEMMA NamedStays ==
  ASSUME RecoveryTypeOK, RecoveryTypeOK', VersionsStay, NEW v, Named(v)
  PROVE  Named(v)'
<1>1. Row(v)' /\ v \in Versions /\ uploaded[v] = Objects
  BY RowStays, VersionNumbers DEF Named, Row
<1>2. uploaded'[v] \in Nat /\ uploaded[v] <= uploaded'[v] /\ uploaded'[v] <= Objects
  BY <1>1 DEF VersionsStay, ObjectsBounded, RecoveryTypeOK, TypeOK
<1> QED
  BY <1>1, <1>2 DEF Named, Objects

LEMMA CompleteStays ==
  ASSUME RecoveryTypeOK, RecoveryTypeOK', VersionsStay, NEW v \in Versions, uploaded[v] = Objects
  PROVE  uploaded'[v] = Objects
<1>1. uploaded'[v] \in Nat /\ uploaded[v] <= uploaded'[v] /\ uploaded'[v] <= Objects
  BY DEF VersionsStay, ObjectsBounded, RecoveryTypeOK, TypeOK
<1> QED
  BY <1>1 DEF Objects

LEMMA RowsKept ==
  ASSUME RecoveryInv, RecoveryTypeOK', VersionsStay, RowsMove
  PROVE  /\ RowsInv'
         /\ \A t \in T : active[t] # {} => active'[t] # {}
<1>0. RecoveryTypeOK /\ RowsInv
  BY DEF RecoveryInv
<1>1. ASSUME NEW t \in T
      PROVE  /\ Single(active'[t]) /\ Single(work'[t])
             /\ \A v \in active'[t] \union work'[t] : Row(v)'
             /\ active'[t] # {} => work'[t] # {}
             /\ active[t] # {} => active'[t] # {}
  <2>1. /\ Single(active[t]) /\ Single(work[t])
        /\ \A v \in active[t] \union work[t] : Row(v)'
        /\ active[t] # {} => work[t] # {}
    BY <1>0, RowStays DEF RowsInv
  <2>2. CASE active' \in {active, work} /\ work' \in {active', work}
    BY <2>1, <2>2
  <2>3. ASSUME active' = active, NEW u \in T, NEW v \in 1..Len(models),
               work' = [work EXCEPT ![u] = {v}], Row(v)'
        PROVE  /\ Single(active'[t]) /\ Single(work'[t])
               /\ \A w \in active'[t] \union work'[t] : Row(w)'
               /\ active'[t] # {} => work'[t] # {}
               /\ active[t] # {} => active'[t] # {}
    <3>1. work'[t] = IF t = u THEN {v} ELSE work[t]
      BY <1>0, <2>3 DEF RecoveryTypeOK, TypeOK
    <3>2. CASE t = u
      BY <2>1, <2>3, <3>1, <3>2 DEF Single
    <3>3. CASE t # u
      BY <2>1, <2>3, <3>1, <3>3
    <3> QED
      BY <3>2, <3>3
  <2> QED
    BY <2>2, <2>3 DEF RowsMove
<1> QED
  BY <1>1 DEF RowsInv

(* A process that does not move, and is not the operator's. *)
LEMMA JobStays ==
  ASSUME RecoveryInv, RecoveryTypeOK', VersionsStay, NEW q \in Procs,
         at'[q] = at[q], job'[q] = job[q], cand'[q] = cand[q],
         at[q] = "idle" /\ op'.by # q => lock' # q
  PROVE  JobInv(q)'
<1>1. JobInv(q) /\ RecoveryTypeOK
  BY DEF RecoveryInv
<1>2. at[q] \in Making => cand[q].v \in 1..Len(models) /\ cand[q].v \in 1..Len(models')
                          /\ cand[q].v \in Versions
  BY <1>1, VersionNumbers DEF JobInv, VersionsStay, ModelsGrow
<1>3. at[q] = "row" /\ job[q] \notin {"candidate", "local"} => uploaded'[cand[q].v] = Objects
  BY <1>1, <1>2, CompleteStays DEF JobInv, Making
<1>4. at[q] = "pointer" => Named(cand[q].v)'
  <2>1. SUFFICES ASSUME at[q] = "pointer" PROVE Named(cand[q].v)'
    OBVIOUS
  <2>2. PICK v : v = cand[q].v
    OBVIOUS
  <2>3. Named(v)'
    BY <1>1, <2>1, <2>2, NamedStays DEF JobInv
  <2> QED
    BY <2>2, <2>3 DEF Named, Row
<1> QED
  BY <1>2, <1>3, <1>4 DEF JobInv, Named, Row

LEMMA PointersStay ==
  ASSUME RecoveryInv, RecoveryTypeOK', VersionsStay,
         \/ pointer' = pointer
         \/ \E t \in T : \E v \in 1..Len(models) : pointer' = [pointer EXCEPT ![t] = v] /\ Named(v)'
  PROVE  PointersNamed'
<1>0. RecoveryTypeOK /\ PointersNamed
  BY DEF RecoveryInv
<1>1. ASSUME NEW t \in T, NEW v, v = pointer'[t], v # NoVersion PROVE Named(v)'
  <2>1. CASE pointer'[t] = pointer[t]
    <3>1. Named(v)
      BY <1>0, <1>1, <2>1 DEF PointersNamed
    <3> QED
      BY <1>0, <3>1, NamedStays
  <2>2. CASE pointer'[t] # pointer[t]
    <3>1. PICK u \in T, w \in 1..Len(models) : pointer' = [pointer EXCEPT ![u] = w] /\ Named(w)'
      BY <2>2
    <3>2. v = w
      BY <1>0, <1>1, <2>2, <3>1 DEF RecoveryTypeOK, TypeOK
    <3> QED
      BY <3>1, <3>2
  <2> QED
    BY <2>1, <2>2
<1>2. ASSUME NEW t \in T, pointer'[t] # NoVersion
      PROVE  /\ uploaded'[pointer'[t]] = Objects /\ pointer'[t] \in 1..Len(models')
             /\ since'[pointer'[t]] >= pointer'[t]
  <2>1. PICK v : v = pointer'[t]
    OBVIOUS
  <2>2. Named(v)'
    BY <1>1, <1>2, <2>1
  <2> QED
    BY <2>1, <2>2 DEF Named, Row
<1> QED
  BY <1>2 DEF PointersNamed, Named, Row

(* The operator's session, while a job moves. *)
LEMMA OpStays ==
  ASSUME RecoveryInv, RecoveryTypeOK', VersionsStay, op' = op,
         op # NoOp => at'[op.by] = at[op.by],
         op # NoOp /\ lock # op.by => lock' # op.by
  PROVE  OpInv'
<1>0. RecoveryTypeOK /\ OpInv
  BY DEF RecoveryInv
<1>1. ASSUME NEW v \in 1..Len(models)
      PROVE  /\ v \in 1..Len(models') /\ v \in Versions /\ models'[v] = models[v]
             /\ uploaded[v] \in Nat /\ uploaded'[v] \in Nat
             /\ uploaded[v] <= uploaded'[v] /\ uploaded'[v] <= Objects
  <2>1. v \in 1..Len(models') /\ v \in Versions /\ models'[v] = models[v]
    BY <1>0, VersionNumbers DEF VersionsStay, ModelsGrow
  <2> QED
    BY <1>0, <2>1 DEF VersionsStay, ObjectsBounded, RecoveryTypeOK, TypeOK
<1>2. ASSUME NEW t \in T PROVE Planned(op.plan[t])'
  <2>1. PICK c : c = op.plan[t] /\ Planned(c)
    BY <1>0 DEF OpInv
  <2>2. c # NoChoice /\ op.cmd = "publish" => Selected(c.v)'
    <3>1. SUFFICES ASSUME c # NoChoice, op.cmd = "publish" PROVE Selected(c.v)'
      OBVIOUS
    <3>2. PICK v : v = c.v /\ Selected(v) /\ v \in 1..Len(models)
      BY <2>1, <3>1 DEF Planned
    <3>3. Row(v)'
      BY <1>0, <3>2, RowStays DEF Selected
    <3> QED
      BY <1>1, <3>2, <3>3 DEF Selected, Row
  <2>3. c # NoChoice => c.v \in 1..Len(models')
    BY <1>1, <2>1 DEF Planned
  <2>4. op'.plan[t] = c /\ op'.cmd = op.cmd
    BY <2>1
  <2> QED
    BY <2>2, <2>3, <2>4 DEF Planned, Selected, Row
<1>3. op.at = "pointer" => Row(Choice.v)'
  <2>1. SUFFICES ASSUME op.at = "pointer" PROVE Row(Choice.v)'
    OBVIOUS
  <2>2. PICK v : v = Choice.v /\ Row(v)
    BY <1>0, <2>1 DEF OpInv
  <2>3. Row(v)'
    BY <1>0, <2>2, RowStays
  <2> QED
    BY <2>2, <2>3 DEF Row, Choice
<1>4. Choice # NoChoice => Choice.v \in 1..Len(models)
  <2>1. Targets[op.i] \in T
    BY <1>0, ModelsAssumption DEF RecoveryTypeOK, T, Range
  <2>2. Planned(Choice)
    BY <1>0, <2>1 DEF OpInv, Choice
  <2> QED
    BY <2>2 DEF Planned
<1>5. Choice' = Choice
  BY DEF Choice
<1>6. /\ op.at = "card" => uploaded'[Choice.v] >= 1
      /\ op.at = "metrics" => uploaded'[Choice.v] >= 2
      /\ op.at \in {"row", "pointer"} => uploaded'[Choice.v] = Objects
  <2>1. SUFFICES ASSUME op.at \in {"card", "metrics", "row", "pointer"}
        PROVE  /\ op.at = "card" => uploaded'[Choice.v] >= 1
               /\ op.at = "metrics" => uploaded'[Choice.v] >= 2
               /\ op.at \in {"row", "pointer"} => uploaded'[Choice.v] = Objects
    OBVIOUS
  <2>2. PICK v \in 1..Len(models) : v = Choice.v
    BY <1>0, <1>4, <2>1 DEF OpInv
  <2>3. /\ op.at = "card" => uploaded[v] >= 1
        /\ op.at = "metrics" => uploaded[v] >= 2
        /\ op.at \in {"row", "pointer"} => uploaded[v] = Objects
    BY <1>0, <2>2 DEF OpInv
  <2> QED
    BY <1>1, <2>2, <2>3 DEF Objects
<1>7. (op # NoOp)' => (op.by)' \in Procs /\ at'[op.by] = "idle"
  BY <1>0 DEF OpInv, NoOp, NoChoice
<1>8. op.at = "audit" \/ op.cmd = "publish" => lock' # op.by
  <2>1. op = NoOp => op.at = "idle" /\ op.cmd = "none"
    BY DEF NoOp, None
  <2> QED
    BY <1>0, <2>1 DEF OpInv
<1> QED
  BY <1>0, <1>2, <1>3, <1>5, <1>6, <1>7, <1>8 DEF OpInv, Recovering, NoOp, NoChoice

(* A job moves: what is left to show. *)
LEMMA JobAssembled ==
  ASSUME RecoveryInv, RecoveryTypeOK', VersionsStay, RowsMove,
         NEW p \in Procs, op.by # p, op' = op, Others(p), lock' \in {lock, p, Free},
         \/ pointer' = pointer
         \/ \E t \in T : \E v \in 1..Len(models) : pointer' = [pointer EXCEPT ![t] = v] /\ Named(v)',
         JobInv(p)'
  PROVE  RecoveryInv' /\ \A t \in T : active[t] # {} => active'[t] # {}
<1>1. RowsInv' /\ \A t \in T : active[t] # {} => active'[t] # {}
  BY RowsKept
<1>2. PointersNamed' /\ ObjectsBounded'
  BY PointersStay DEF VersionsStay
<1>3. ASSUME NEW q \in Procs \ {p} PROVE JobInv(q)'
  <2>1. at'[q] = at[q] /\ job'[q] = job[q] /\ cand'[q] = cand[q]
    BY DEF Others
  <2>2. at[q] = "idle" /\ op'.by # q => lock' # q
    BY ModelsAssumption DEF RecoveryInv, JobInv
  <2> QED
    BY <2>1, <2>2, JobStays
<1>4. OpInv'
  <2>1. op # NoOp => op.by \in Procs /\ at'[op.by] = at[op.by]
    BY DEF RecoveryInv, OpInv, Others
  <2>2. op # NoOp /\ lock # op.by => lock' # op.by
    BY <2>1, ModelsAssumption
  <2> QED
    BY <2>1, <2>2, OpStays
<1> QED
  BY <1>1, <1>2, <1>3, <1>4 DEF RecoveryInv

-----------------------------------------------------------------------------
(* The jobs of HourlyModels, with nothing assumed of the others.               *)

(* What a job does to the lock and the rows. *)
StoreSteps(p) ==
    /\ lock' \in {lock, p, Free}
    /\ active' \in {active, work} /\ work' \in {active', work}
    /\ at'[p] = "idle" => lock' # p

LEMMA QuietJob ==
  ASSUME TypeOK, NEW p \in Procs, at[p] = "idle" => lock # p,
         \/ Start(p) \/ OpenRun(p) \/ GiveUp(p) \/ Judge(p) \/ Look(p) \/ Compare(p)
         \/ CallFails(p) \/ Finish(p) \/ LockTimeout(p) \/ Killed(p)
  PROVE  TypeOK' /\ StoreSteps(p)
<1>0. StoreType /\ ProcType /\ p # Free
  BY ModelsAssumption DEF TypeOK, StoreType, ProcType
<1>1. UNCHANGED <<models, uploaded, pointer>> /\ faults' \in 0..MaxFaults
  <2>1. UNCHANGED <<models, uploaded, pointer>>
    BY DEF Start, OpenRun, GiveUp, Judge, Look, Compare, CallFails, Finish, LockTimeout, Killed
  <2>2. faults' = faults \/ (faults < MaxFaults /\ faults' = faults + 1)
    BY DEF Start, OpenRun, GiveUp, Judge, Look, Compare, CallFails, Fail, Finish, LockTimeout, Killed
  <2>3. faults \in 0..MaxFaults /\ MaxFaults \in Nat
    BY ModelsAssumption DEF TypeOK
  <2> QED
    BY <2>1, <2>2, <2>3
<1> SUFFICES StoreType' /\ ProcType' /\ StoreSteps(p)
  BY <1>1 DEF TypeOK, StoreType, ProcType
<1>2. CASE Settle(p)
  BY <1>0, <1>2, SettleShape DEF StoreSteps, store
<1>3. CASE Abort(p)
  BY <1>0, <1>3, AbortShape DEF StoreSteps, store
<1>4. CASE Start(p)
  <2>1. PICK j \in Jobs :
           /\ job' = [job EXCEPT ![p] = j] /\ Moves(p, FirstPhase(j), 1)
           /\ lock' = lock \/ lock' = p
    BY <1>4 DEF Start
  <2>2. FirstPhase(j) \in Phases /\ 1 \in DOMAIN Targets
    BY ModelsAssumption DEF FirstPhase, Phases
  <2>3. /\ at'[p] \in {"open", "look"} /\ at' \in [Procs -> Steps]
        /\ cursor' \in [Procs -> [phase : Phases, i : DOMAIN Targets]]
    BY <1>0, <2>1, <2>2, MovesType
  <2> QED
    BY <1>0, <1>4, <2>1, <2>3 DEF Start, StoreType, ProcType, StoreSteps
<1>5. CASE OpenRun(p)
  <2>1. "look" \in Steps /\ Goto(p, "look")
    BY <1>5 DEF Steps, OpenRun
  <2>2. at' \in [Procs -> Steps] /\ at'[p] = "look"
    BY <1>0, <2>1, GotoType
  <2>3. CASE Commit(p)
    BY <1>0, <1>5, <2>2, <2>3, CommitShape DEF OpenRun, ProcType, StoreSteps, store
  <2>4. CASE lock' = p /\ UNCHANGED <<active, work>>
    BY <1>0, <1>5, <2>2, <2>4 DEF OpenRun, StoreType, ProcType, StoreSteps
  <2> QED
    BY <1>5, <2>3, <2>4 DEF OpenRun
<1>6. CASE Judge(p)
  <2>1. PICK approved \in BOOLEAN : Takes(p, Active(p), approved, NoVersion)
    BY <1>6 DEF Judge
  <2>2. Active(p) \in 0..MaxModels /\ NoVersion \in 0..MaxModels
    BY ActiveType, ModelsAssumption DEF NoVersion
  <2>3. cand' \in [Procs -> Candidate]
    BY <2>1, <2>2, TakesType
  <2>4. "save" \in Steps /\ Goto(p, "save")
    BY <1>6 DEF Steps, Judge
  <2>5. at' \in [Procs -> Steps] /\ at'[p] = "save"
    BY <2>4, GotoType
  <2> QED
    BY <1>0, <1>6, <2>3, <2>5 DEF Judge, StoreType, ProcType, StoreSteps
<1>7. CASE Look(p)
  <2>1. UNCHANGED <<store, job>> /\ at[p] = "look"
    BY <1>7 DEF Look
  <2>2. CASE Takes(p, Active(p), TRUE, NoVersion) /\ Goto(p, "save") /\ UNCHANGED cursor
    <3>1. Active(p) \in 0..MaxModels /\ NoVersion \in 0..MaxModels
      BY ActiveType, ModelsAssumption DEF NoVersion
    <3>2. cand' \in [Procs -> Candidate]
      BY <2>2, <3>1, TakesType
    <3>3. "save" \in Steps
      BY DEF Steps
    <3>4. at' \in [Procs -> Steps] /\ at'[p] = "save"
      BY <2>2, <3>3, GotoType
    <3> QED
      BY <1>0, <2>1, <2>2, <3>2, <3>4 DEF store, StoreType, ProcType, StoreSteps
  <2>3. CASE Advance(p)
    BY <1>0, <2>1, <2>3, AdvanceShape DEF store, StoreType, ProcType, StoreSteps
  <2> QED
    BY <1>7, <2>2, <2>3 DEF Look
<1>8. CASE Finish(p)
  BY <1>0, <1>8, CommitShape, RestsShape DEF Finish, StoreSteps, store
<1> QED
  BY <1>2, <1>3, <1>4, <1>5, <1>6, <1>7, <1>8
  DEF GiveUp, Compare, CallFails, Fail, LockTimeout, Killed

LEMMA SaveArtifactShape ==
  ASSUME TypeOK, NEW p \in Procs, SaveArtifact(p)
  PROVE  /\ TypeOK' /\ ModelsGrow /\ Others(p) /\ UNCHANGED <<store, uploaded, pointer, job, faults>>
         /\ Len(models') = Len(models) + 1 /\ cand'[p].v = Len(models')
         /\ at[p] = "save" /\ at'[p] = IF job[p] \in {"candidate", "local"} THEN "row" ELSE "upload"
<1> DEFINE m == [by |-> cursor[p].phase, approved |-> cand[p].approved, base |-> cand[p].base]
           n == Len(models) + 1
           next == IF job[p] \in {"candidate", "local"} THEN "row" ELSE "upload"
<1>1. /\ UNCHANGED <<store, uploaded, pointer, job, cursor, faults>>
      /\ at[p] = "save" /\ Len(models) < MaxModels /\ models' = Append(models, m)
      /\ Takes(p, cand[p].base, cand[p].approved, n)
      /\ Goto(p, next)
  BY DEF SaveArtifact
<1>2. /\ cand[p] \in Candidate /\ cand[p].base \in 0..MaxModels /\ cand[p].approved \in BOOLEAN
      /\ cursor[p].phase \in Phases
  BY DEF TypeOK, Candidate
<1>3. m \in Model
  BY <1>2 DEF Model
<1> HIDE DEF m
<1>4. /\ models' \in Seq(Model) /\ Len(models') = n /\ n \in 0..MaxModels /\ ModelsGrow
  BY <1>1, <1>3, ModelsAssumption DEF TypeOK, ModelsGrow
<1>5. next \in Steps
  BY DEF Steps
<1> HIDE DEF next
<1>6. at' \in [Procs -> Steps] /\ at'[p] = next /\ \A q \in Procs \ {p} : at'[q] = at[q]
  BY <1>1, <1>5, GotoType
<1>7. /\ cand' \in [Procs -> Candidate] /\ cand'[p].v = n
      /\ \A q \in Procs \ {p} : cand'[q] = cand[q]
  BY <1>1, <1>2, <1>4, TakesType
<1>8. TypeOK'
  BY <1>1, <1>4, <1>6, <1>7, ModelsAssumption DEF TypeOK, store
<1>9. Others(p)
  BY <1>1, <1>6, <1>7 DEF Others
<1> QED
  BY <1>1, <1>4, <1>6, <1>7, <1>8, <1>9 DEF next

LEMMA UploadShape ==
  ASSUME TypeOK, NEW p \in Procs, Upload(p), cand[p].v \in Versions
  PROVE  /\ TypeOK' /\ Others(p) /\ UNCHANGED <<models, store, pointer, job, cand>>
         /\ uploaded' = [uploaded EXCEPT ![cand[p].v] = @ + 1]
         /\ at'[p] = IF uploaded[cand[p].v] + 1 = Objects THEN "row" ELSE "upload"
<1> DEFINE next == IF uploaded[cand[p].v] + 1 = Objects THEN "row" ELSE "upload"
<1>1. next \in Steps /\ Goto(p, next)
  BY DEF Steps, Upload
<1> HIDE DEF next
<1>2. at' \in [Procs -> Steps] /\ at'[p] = next /\ \A q \in Procs \ {p} : at'[q] = at[q]
  BY <1>1, GotoType
<1>3. uploaded' \in [Versions -> Nat]
  BY DEF Upload, TypeOK
<1>4. TypeOK' /\ Others(p)
  BY <1>2, <1>3 DEF Upload, TypeOK, store, Others
<1> QED
  BY <1>2, <1>4 DEF Upload, next

LEMMA RegisterShape ==
  ASSUME TypeOK, NEW p \in Procs, Register(p), Activates(p), cand[p].v \in Versions
  PROVE  /\ TypeOK' /\ Others(p) /\ UNCHANGED <<models, uploaded, pointer, job, cand>>
         /\ at'[p] = IF job[p] = "local" THEN "compare" ELSE "pointer"
         /\ active' = active /\ work' = [work EXCEPT ![Target(p)] = {cand[p].v}] /\ lock' = p
         /\ at[p] = "row" /\ job[p] # "candidate"
<1> DEFINE next == IF job[p] = "local" THEN "compare" ELSE "pointer"
<1>1. next \in Steps /\ Goto(p, next)
  BY DEF Steps, Register
<1> HIDE DEF next
<1>2. at' \in [Procs -> Steps] /\ at'[p] = next /\ \A q \in Procs \ {p} : at'[q] = at[q]
  BY <1>1, GotoType
<1>3. work' = [work EXCEPT ![Target(p)] = {cand[p].v}] /\ {cand[p].v} \subseteq Versions
  BY DEF Register
<1>4. work' \in [T -> SUBSET Versions]
  BY <1>3 DEF TypeOK
<1>5. TypeOK' /\ Others(p)
  BY <1>2, <1>4 DEF Register, TypeOK, store, Others
<1> QED
  BY <1>2, <1>3, <1>5 DEF Register, next, Activates

LEMMA PutPointerShape ==
  ASSUME TypeOK, NEW p \in Procs, PutPointer(p), cand[p].v \in Versions
  PROVE  /\ TypeOK' /\ Others(p) /\ UNCHANGED <<models, store, uploaded, job, cand>>
         /\ pointer' = [pointer EXCEPT ![Target(p)] = cand[p].v]
         /\ at'[p] = "compare" /\ at[p] = "pointer"
<1>1. "compare" \in Steps /\ Goto(p, "compare")
  BY DEF Steps, PutPointer
<1>2. at' \in [Procs -> Steps] /\ at'[p] = "compare" /\ \A q \in Procs \ {p} : at'[q] = at[q]
  BY <1>1, GotoType
<1>3. pointer' \in [T -> 0..MaxModels]
  <2>1. cand[p].v \in 0..MaxModels
    BY ModelsAssumption DEF Versions
  <2> QED
    BY <2>1 DEF PutPointer, TypeOK
<1>4. TypeOK' /\ Others(p)
  BY <1>2, <1>3 DEF PutPointer, TypeOK, store, Others
<1> QED
  BY <1>2, <1>4 DEF PutPointer

(* What a job leaves beside the rows: the artifact it saves, the time it activates. *)
LEMMA FollowShape ==
  ASSUME RecoveryTypeOK, TypeOK', NEW p \in Procs, Follow(p), UNCHANGED <<card, row, op>>,
         UNCHANGED models \/ Len(models') = Len(models) + 1,
         at[p] = "row" => cand[p].v \in Versions
  PROVE  /\ RecoveryTypeOK'
         /\ \A v \in Versions : since'[v] = since[v] \/ since'[v] = Len(models)
         /\ at[p] = "row" /\ at'[p] \in {"pointer", "compare"} => since'[cand[p].v] = Len(models)
<1>1. Len(models) \in 0..MaxModels /\ Len(models') \in 0..MaxModels /\ Target(p) \in T
  BY TargetType, ModelsAssumption DEF RecoveryTypeOK, TypeOK
<1>2. of' \in Seq(T) /\ Len(of') = Len(models') /\ files' \subseteq 1..Len(models')
  <2>1. of \in Seq(T) /\ Len(of) = Len(models) /\ files \subseteq 1..Len(models)
    BY DEF RecoveryTypeOK
  <2>2. CASE UNCHANGED models
    <3>1. ~(Len(models') > Len(models))
      BY <1>1, <2>2
    <3>2. UNCHANGED <<of, files>>
      BY <3>1 DEF Follow
    <3> QED
      BY <2>1, <2>2, <3>2
  <2>3. CASE Len(models') = Len(models) + 1
    <3>1. Len(models') > Len(models)
      BY <1>1, <2>3
    <3>2. of' = Append(of, Target(p)) /\ files' = files \union {Len(models')}
      BY <3>1 DEF Follow
    <3>3. of' \in Seq(T) /\ Len(of') = Len(of) + 1
      BY <1>1, <2>1, <3>2
    <3>4. Len(models') \in 1..Len(models') /\ 1..Len(models) \subseteq 1..Len(models')
      BY <1>1, <2>3
    <3>5. files' \subseteq 1..Len(models')
      BY <2>1, <3>2, <3>4
    <3> QED
      BY <2>1, <2>3, <3>3, <3>5
  <2> QED
    BY <2>2, <2>3
<1>3. since \in [Versions -> 0..MaxModels]
  BY DEF RecoveryTypeOK
<1>4. /\ since' \in [Versions -> 0..MaxModels]
      /\ \A v \in Versions : since'[v] = since[v] \/ since'[v] = Len(models)
      /\ at[p] = "row" /\ at'[p] \in {"pointer", "compare"} => since'[cand[p].v] = Len(models)
  BY <1>1, <1>3 DEF Follow
<1> QED
  BY <1>2, <1>4 DEF RecoveryTypeOK

LEMMA JobKeeps ==
  ASSUME RecoveryInv, NEW p \in Procs, Job(p)
  PROVE  RecoveryInv' /\ \A t \in T : active[t] # {} => active'[t] # {}
<1>0. RecoveryTypeOK /\ TypeOK /\ ObjectsBounded /\ JobInv(p) /\ op.by # p /\ op' = op /\ Follow(p)
  BY DEF RecoveryInv, RecoveryTypeOK, Job
<1>1. UNCHANGED <<card, row, op>>
  BY DEF Job
<1>2. at[p] \in Making => cand[p].v \in 1..Len(models) /\ cand[p].v \in Versions
  BY <1>0, VersionNumbers DEF JobInv
<1>3. at[p] = "row" => cand[p].v \in Versions
  BY <1>2 DEF Making
<1>4. \A v \in Versions : uploaded[v] <= uploaded[v]
  BY <1>0 DEF TypeOK
<1>5. Target(p) \in T
  BY <1>0, TargetType
<1>6. ASSUME UNCHANGED <<models, uploaded, pointer>>, Others(p), at'[p] \notin Making, TypeOK',
             StoreSteps(p)
      PROVE  RecoveryInv' /\ \A t \in T : active[t] # {} => active'[t] # {}
  <2>1. /\ RecoveryTypeOK'
        /\ \A v \in Versions : since'[v] = since[v] \/ since'[v] = Len(models)
    BY <1>0, <1>1, <1>3, <1>6, FollowShape
  <2>2. VersionsStay
    BY <1>0, <1>4, <1>6, <2>1, SameModels DEF VersionsStay, ObjectsBounded
  <2>3. RowsMove /\ lock' \in {lock, p, Free}
    BY <1>6 DEF StoreSteps, RowsMove
  <2>4. JobInv(p)'
    BY <1>6 DEF JobInv, StoreSteps, Making
  <2> QED
    BY <1>0, <1>6, <2>1, <2>2, <2>3, <2>4, JobAssembled
<1>7. CASE \/ Start(p) \/ OpenRun(p) \/ GiveUp(p) \/ Judge(p) \/ Look(p) \/ Compare(p)
           \/ CallFails(p) \/ Finish(p) \/ LockTimeout(p) \/ Killed(p)
  <2>1. at[p] = "idle" => lock # p
    BY <1>0 DEF JobInv
  <2>2. TypeOK' /\ StoreSteps(p)
    BY <1>0, <1>7, <2>1, QuietJob
  <2>3. UNCHANGED <<models, uploaded, pointer>> /\ Others(p) /\ at'[p] \notin Making
    BY <1>0, <1>7, StepShape
  <2> QED
    BY <1>6, <2>2, <2>3
<1>8. CASE SaveArtifact(p)
  <2>1. /\ TypeOK' /\ ModelsGrow /\ Others(p) /\ UNCHANGED <<store, uploaded, pointer, job, faults>>
        /\ Len(models') = Len(models) + 1 /\ cand'[p].v = Len(models')
        /\ at[p] = "save" /\ at'[p] = IF job[p] \in {"candidate", "local"} THEN "row" ELSE "upload"
    BY <1>0, <1>8, SaveArtifactShape
  <2>2. /\ RecoveryTypeOK'
        /\ \A v \in Versions : since'[v] = since[v] \/ since'[v] = Len(models)
    BY <1>0, <1>1, <1>3, <2>1, FollowShape
  <2>3. Len(models) \in Nat /\ Len(models') \in Nat
    BY <2>1 DEF ModelsGrow
  <2>4. ObjectsBounded'
    BY <1>0, <2>1, <2>3 DEF ObjectsBounded, Versions
  <2>5. VersionsStay
    BY <1>4, <2>1, <2>2, <2>4 DEF VersionsStay
  <2>6. RowsMove /\ lock' \in {lock, p, Free}
    BY <2>1 DEF RowsMove, store
  <2>7. JobInv(p)'
    BY <2>1, <2>3 DEF JobInv
  <2> QED
    BY <1>0, <2>1, <2>2, <2>5, <2>6, <2>7, JobAssembled
<1>9. CASE SkipUpload(p)
  <2>1. at[p] = "upload" /\ UNCHANGED <<models, uploaded, pointer, faults>>
    BY <1>9 DEF SkipUpload, UploadedElsewhere
  <2>2. CASE card[cand[p].v] = "training"
    <3>1. uploaded[cand[p].v] = Objects
      BY <1>9, <2>2 DEF SkipUpload, UploadedElsewhere
    <3>2. "row" \in Steps /\ Goto(p, "row") /\ UNCHANGED <<store, job, cursor, cand>>
      BY <1>9, <2>2 DEF SkipUpload, Steps
    <3>3. at' \in [Procs -> Steps] /\ at'[p] = "row" /\ \A q \in Procs \ {p} : at'[q] = at[q]
      BY <1>0, <3>2, GotoType
    <3>4. TypeOK' /\ Others(p)
      BY <1>0, <2>1, <3>2, <3>3 DEF TypeOK, Others, store
    <3>5. /\ RecoveryTypeOK'
          /\ \A v \in Versions : since'[v] = since[v] \/ since'[v] = Len(models)
      BY <1>0, <1>1, <1>3, <2>1, <3>4, FollowShape
    <3>6. VersionsStay
      BY <1>0, <1>4, <2>1, <3>5, SameModels DEF VersionsStay, ObjectsBounded
    <3>7. RowsMove /\ lock' \in {lock, p, Free}
      BY <3>2 DEF RowsMove, store
    <3>8. JobInv(p)'
      BY <1>2, <2>1, <3>1, <3>2, <3>3 DEF JobInv, Making
    <3> QED
      BY <1>0, <2>1, <3>4, <3>5, <3>6, <3>7, <3>8, JobAssembled
  <2>3. CASE card[cand[p].v] # "training"
    <3>1. Settle(p) \/ Abort(p)
      BY <1>9, <2>3 DEF SkipUpload
    <3>2. StoreType /\ ProcType /\ p # Free
      BY <1>0, ModelsAssumption DEF TypeOK, StoreType, ProcType
    <3>3. /\ StoreType' /\ ProcType' /\ Others(p) /\ StoreSteps(p)
          /\ at'[p] \in {"open", "look", "commit", "idle"}
      BY <1>0, <3>1, <3>2, SettleShape, AbortShape DEF StoreSteps, store
    <3>4. TypeOK'
      BY <1>0, <2>1, <3>3 DEF TypeOK, StoreType, ProcType
    <3> QED
      BY <1>6, <2>1, <3>3, <3>4 DEF Making
  <2> QED
    BY <2>2, <2>3
<1>10. CASE ~UploadedElsewhere(p) /\ Upload(p)
  <2>1. PICK v \in 1..Len(models) : v = cand[p].v /\ v \in Versions
    BY <1>2, <1>10 DEF Upload, Making
  <2>2. /\ TypeOK' /\ Others(p) /\ UNCHANGED <<models, store, pointer, job, cand>>
        /\ uploaded' = [uploaded EXCEPT ![v] = @ + 1]
        /\ at'[p] = IF uploaded[v] + 1 = Objects THEN "row" ELSE "upload"
    BY <1>0, <1>10, <2>1, UploadShape
  <2>3. uploaded[v] # Objects /\ uploaded[v] \in Nat /\ uploaded[v] <= Objects
    BY <1>0, <1>10, <2>1 DEF UploadedElsewhere, Upload, ObjectsBounded, TypeOK
  <2>4. /\ RecoveryTypeOK'
        /\ \A w \in Versions : since'[w] = since[w] \/ since'[w] = Len(models)
    BY <1>0, <1>1, <1>3, <2>2, FollowShape
  <2>5. /\ uploaded'[v] = uploaded[v] + 1
        /\ \A w \in Versions \ {v} : uploaded'[w] = uploaded[w]
    BY <1>0, <2>1, <2>2 DEF TypeOK
  <2>6. \A w \in Versions : uploaded[w] <= uploaded'[w]
    BY <1>4, <2>3, <2>5
  <2>7. Len(models) \in Nat /\ ~(v > Len(models))
    BY <1>0, <2>1 DEF TypeOK
  <2>8. ObjectsBounded'
    BY <1>0, <2>2, <2>3, <2>5, <2>7 DEF ObjectsBounded, Objects
  <2>9. VersionsStay
    BY <1>0, <2>2, <2>4, <2>6, <2>8, SameModels DEF VersionsStay
  <2>10. RowsMove /\ lock' \in {lock, p, Free}
    BY <2>2 DEF RowsMove, store
  <2>11. JobInv(p)'
    BY <2>1, <2>2, <2>3, <2>5 DEF JobInv
  <2> QED
    BY <1>0, <2>2, <2>4, <2>9, <2>10, <2>11, JobAssembled
<1>11. CASE Register(p) /\ ~Activates(p)
  <2>1. Settle(p) /\ UNCHANGED <<models, uploaded, pointer, faults>>
    BY <1>11 DEF Register
  <2>2. StoreType' /\ ProcType' /\ Others(p) /\ StoreSteps(p) /\ at'[p] \notin Making
    BY <1>0, <2>1, SettleShape DEF StoreSteps, store, Making
  <2>3. TypeOK'
    BY <1>0, <2>1, <2>2 DEF TypeOK, StoreType, ProcType
  <2> QED
    BY <1>6, <2>1, <2>2, <2>3
<1>12. CASE Register(p) /\ Activates(p)
  <2>1. PICK v \in 1..Len(models) : v = cand[p].v /\ v \in Versions
    BY <1>2, <1>12 DEF Register, Making
  <2>2. /\ TypeOK' /\ Others(p) /\ UNCHANGED <<models, uploaded, pointer, job, cand>>
        /\ at'[p] = IF job[p] = "local" THEN "compare" ELSE "pointer"
        /\ active' = active /\ work' = [work EXCEPT ![Target(p)] = {v}] /\ lock' = p
        /\ at[p] = "row" /\ job[p] # "candidate"
    BY <1>0, <1>12, <2>1, RegisterShape
  <2>3. /\ RecoveryTypeOK'
        /\ \A w \in Versions : since'[w] = since[w] \/ since'[w] = Len(models)
        /\ since'[v] = Len(models)
    BY <1>0, <1>1, <1>3, <2>1, <2>2, FollowShape
  <2>4. VersionsStay
    BY <1>0, <1>4, <2>2, <2>3, SameModels DEF VersionsStay, ObjectsBounded
  <2>5. Row(v)'
    BY <1>0, <2>1, <2>2, <2>3 DEF Row, TypeOK
  <2>6. RowsMove
    BY <1>5, <2>1, <2>2, <2>5 DEF RowsMove
  <2>7. JobInv(p)'
    BY <1>0, <2>1, <2>2, <2>5 DEF JobInv, Named, Row
  <2> QED
    BY <1>0, <2>2, <2>3, <2>4, <2>6, <2>7, JobAssembled
<1>13. CASE PutPointer(p)
  <2>1. PICK v \in 1..Len(models) : v = cand[p].v /\ v \in Versions
    BY <1>2, <1>13 DEF PutPointer, Making
  <2>2. /\ TypeOK' /\ Others(p) /\ UNCHANGED <<models, store, uploaded, job, cand>>
        /\ pointer' = [pointer EXCEPT ![Target(p)] = v]
        /\ at'[p] = "compare" /\ at[p] = "pointer"
    BY <1>0, <1>13, <2>1, PutPointerShape
  <2>3. /\ RecoveryTypeOK'
        /\ \A w \in Versions : since'[w] = since[w] \/ since'[w] = Len(models)
    BY <1>0, <1>1, <1>3, <2>2, FollowShape
  <2>4. VersionsStay
    BY <1>0, <1>4, <2>2, <2>3, SameModels DEF VersionsStay, ObjectsBounded
  <2>5. Named(v)'
    BY <1>0, <2>1, <2>2, <2>3, <2>4, NamedStays DEF JobInv
  <2>6. RowsMove /\ lock' \in {lock, p, Free}
    BY <2>2 DEF RowsMove, store
  <2>7. JobInv(p)'
    BY <2>1, <2>2 DEF JobInv
  <2> QED
    BY <1>0, <1>5, <2>2, <2>3, <2>4, <2>5, <2>6, <2>7, JobAssembled
<1> QED
  BY <1>7, <1>8, <1>9, <1>10, <1>11, <1>12, <1>13 DEF Job, Step

-----------------------------------------------------------------------------
(* The operator's session. *)

Session == [by : Procs \union {Free}, cmd : {None, "recover", "resume", "publish"},
            at : OpSteps, i : DOMAIN Targets, missing : BOOLEAN,
            plan : [T -> [v : 0..MaxModels, from : Sources]]]

LEMMA NoSession == NoOp \in Session /\ NoChoice \in [v : 0..MaxModels, from : Sources]
<1>1. NoChoice \in [v : 0..MaxModels, from : Sources]
  BY ModelsAssumption DEF NoChoice, NoVersion, Sources
<1>2. 1 \in DOMAIN Targets
  BY ModelsAssumption
<1>3. [t \in T |-> NoChoice] \in [T -> [v : 0..MaxModels, from : Sources]]
  BY <1>1
<1> QED
  BY <1>1, <1>2, <1>3 DEF NoOp, Session, OpSteps, None

LEMMA SessionNow ==
  ASSUME RecoveryInv
  PROVE  /\ op \in Session /\ Targets[op.i] \in T
         /\ Choice \in [v : 0..MaxModels, from : Sources]
         /\ Choice # NoChoice => Choice.v \in 1..Len(models) /\ Choice.v \in Versions
         /\ op.at # "idle" => op.by \in Procs /\ at[op.by] = "idle" /\ op.by # Free
<1>1. op \in Session /\ RecoveryTypeOK /\ OpInv
  BY DEF RecoveryInv, RecoveryTypeOK, Session
<1>2. Targets[op.i] \in T
  BY <1>1, ModelsAssumption DEF Session, T, Range
<1>3. Choice \in [v : 0..MaxModels, from : Sources] /\ Planned(Choice)
  BY <1>1, <1>2 DEF Session, Choice, OpInv
<1>4. op.at # "idle" => op # NoOp
  BY DEF NoOp
<1> QED
  BY <1>1, <1>2, <1>3, <1>4, VersionNumbers, ModelsAssumption DEF Planned, OpInv

(* The session is over. *)
LEMMA Resting ==
  ASSUME op' = NoOp
  PROVE  OpInv' /\ op' \in Session /\ op'.by = Free
<1>1. op'.at = "idle" /\ op'.cmd = "none" /\ op'.by = Free /\ op'.plan = [t \in T |-> NoChoice]
  BY DEF NoOp, None
<1>2. \A t \in T : op'.plan[t] = NoChoice
  BY <1>1
<1> QED
  BY <1>1, <1>2, NoSession DEF OpInv, Planned, Recovering

LEMMA PlannedStays ==
  ASSUME RecoveryTypeOK, RecoveryTypeOK', VersionsStay, NEW c, Planned(c), op'.cmd = op.cmd
  PROVE  Planned(c)'
<1>1. c # NoChoice => c.v \in 1..Len(models')
  BY VersionNumbers DEF Planned, VersionsStay, ModelsGrow
<1>2. SUFFICES ASSUME c # NoChoice, op.cmd = "publish" PROVE Selected(c.v)'
  BY <1>1 DEF Planned
<1>3. PICK v : v = c.v /\ Selected(v) /\ v \in 1..Len(models)
  BY <1>2 DEF Planned
<1>4. Row(v)' /\ models'[v] = models[v]
  BY <1>3, RowStays DEF Selected, VersionsStay, ModelsGrow
<1> QED
  BY <1>3, <1>4 DEF Selected, Row

LEMMA NextTarget ==
  ASSUME RecoveryInv, RecoveryTypeOK', VersionsStay, NEW m \in BOOLEAN, OpNext(m), op.at # "idle",
         at' = at, op.cmd = "publish" => lock' # op.by
  PROVE  OpInv' /\ op'.by = op.by
<1> DEFINE i == IF op.i < Len(Targets) THEN op.i + 1 ELSE op.i
           step == IF op.i = Len(Targets) THEN "commit" ELSE IF Recovering THEN "load" ELSE "binary"
<1>1. /\ op \in Session /\ Targets[op.i] \in T /\ op.by \in Procs /\ at[op.by] = "idle"
      /\ RecoveryTypeOK /\ OpInv
  BY SessionNow DEF RecoveryInv
<1>2. op' = [op EXCEPT !.i = i, !.at = step, !.missing = @ \/ m, !.plan[Targets[op.i]] = NoChoice]
  BY DEF OpNext
<1>3. step \in {"commit", "load", "binary"} /\ (step = "binary" => ~Recovering)
  OBVIOUS
<1> HIDE DEF i, step
<1>4. op'.by = op.by /\ op'.cmd = op.cmd /\ op'.at = step
      /\ op'.plan = [op.plan EXCEPT ![Targets[op.i]] = NoChoice]
  BY <1>1, <1>2 DEF Session
<1>5. ASSUME NEW t \in T PROVE Planned(op.plan[t])'
  <2>1. op'.plan[t] \in {op.plan[t], NoChoice}
    BY <1>1, <1>4 DEF Session
  <2>2. PICK c : c = op'.plan[t] /\ Planned(c)
    BY <1>1, <2>1 DEF OpInv, Planned
  <2>3. Planned(c)'
    BY <1>1, <1>4, <2>2, PlannedStays
  <2> QED
    BY <2>2, <2>3 DEF Planned, Selected, Row
<1> QED
  BY <1>1, <1>3, <1>4, <1>5 DEF OpInv, Recovering

LEMMA SameTarget ==
  ASSUME RecoveryInv, RecoveryTypeOK', VersionsStay, NEW step \in OpSteps \ {"idle", "audit"},
         OpGoes(step), op.at # "idle", at' = at, op.cmd = "publish" => lock' # op.by,
         Choice # NoChoice,
         step = "card" => uploaded'[Choice.v] >= 1,
         step = "metrics" => uploaded'[Choice.v] >= 2,
         step \in {"row", "pointer"} => uploaded'[Choice.v] = Objects,
         step = "pointer" => Row(Choice.v)'
  PROVE  OpInv' /\ op'.by = op.by
<1>1. /\ op \in Session /\ op.by \in Procs /\ at[op.by] = "idle"
      /\ RecoveryTypeOK /\ OpInv
  BY SessionNow DEF RecoveryInv
<1>2. op'.by = op.by /\ op'.cmd = op.cmd /\ op'.at = step /\ op'.plan = op.plan /\ op'.i = op.i
  BY <1>1 DEF OpGoes, Session
<1>3. Choice' = Choice
  BY <1>2 DEF Choice
<1>4. ASSUME NEW t \in T PROVE Planned(op.plan[t])'
  <2>1. PICK c : c = op.plan[t] /\ Planned(c)
    BY <1>1 DEF OpInv
  <2>2. Planned(c)'
    BY <1>1, <1>2, <2>1, PlannedStays
  <2> QED
    BY <1>2, <2>1, <2>2 DEF Planned, Selected, Row
<1>5. op'.at = "pointer" => Row(Choice.v)'
  BY <1>2
<1> QED
  BY <1>1, <1>2, <1>3, <1>4, <1>5 DEF OpInv, Recovering

(* A step of the operator: what is left to show. *)
LEMMA OperatorAssembled ==
  ASSUME RecoveryInv, RecoveryTypeOK', VersionsStay, RowsMove, OpInv',
         \A q \in Procs : \/ at'[q] = at[q] /\ job'[q] = job[q] /\ cand'[q] = cand[q]
                          \/ q = op.by /\ at'[q] \in {"open", "look"},
         lock' \in {lock, op.by, Free}, op'.by # op.by => lock' # op.by \/ op.by = Free,
         \/ pointer' = pointer
         \/ \E t \in T : \E v \in 1..Len(models) : pointer' = [pointer EXCEPT ![t] = v] /\ Named(v)'
  PROVE  RecoveryInv' /\ \A t \in T : active[t] # {} => active'[t] # {}
<1>1. RowsInv' /\ \A t \in T : active[t] # {} => active'[t] # {}
  BY RowsKept
<1>2. PointersNamed' /\ ObjectsBounded'
  BY PointersStay DEF VersionsStay
<1>3. ASSUME NEW q \in Procs PROVE JobInv(q)'
  <2>1. CASE at'[q] = at[q] /\ job'[q] = job[q] /\ cand'[q] = cand[q]
    <3>1. at[q] = "idle" /\ op'.by # q => lock' # q
      BY ModelsAssumption DEF RecoveryInv, JobInv
    <3> QED
      BY <2>1, <3>1, JobStays
  <2>2. CASE at'[q] \in {"open", "look"}
    BY <2>2 DEF JobInv, Making
  <2> QED
    BY <2>1, <2>2
<1> QED
  BY <1>1, <1>2, <1>3 DEF RecoveryInv

-----------------------------------------------------------------------------
(* What a recovery chooses: one of the best by rank, then time, then source.   *)

LEMMA LeastNatural ==
  ASSUME NEW S \in SUBSET Nat, S # {}
  PROVE  \E p \in S : \A q \in S : p <= q
<1> DEFINE Less == {pair \in Nat \X Nat : pair[1] < pair[2]}
<1>1. IsWellFoundedOn(Less, Nat)
  BY NatLessThanWellFounded DEF OpToRel
<1>2. PICK p \in S : \A q \in S : <<q, p>> \notin Less
  <2> HIDE DEF Less
  <2> QED
    BY <1>1, WFMin
<1>3. ASSUME NEW q \in S, q < p
      PROVE  FALSE
  <2>1. <<q, p>> \in Nat \X Nat /\ <<q, p>>[1] = q /\ <<q, p>>[2] = p
    BY <1>2
  <2> QED
    BY <1>2, <1>3, <2>1
<1> QED
  BY <1>2, <1>3

(* The members of C that are greatest in one component of their keys. *)
LEMMA GreatestComponent ==
  ASSUME NEW C, C # {}, NEW N \in Nat, NEW i \in 1..3, \A c \in C : c.key[i] \in 0..N
  PROVE  \E b \in C : \A d \in C : d.key[i] <= b.key[i]
<1> DEFINE S == {n \in Nat : \E c \in C : c.key[i] + n = N}
<1>1. \A c \in C : N - c.key[i] \in S
  OBVIOUS
<1>2. S # {} /\ S \in SUBSET Nat
  BY <1>1
<1>3. PICK m \in S : \A n \in S : m <= n
  <2> HIDE DEF S
  <2> QED
    BY <1>2, LeastNatural
<1>4. PICK b \in C : b.key[i] + m = N
  BY <1>3
<1>5. ASSUME NEW d \in C PROVE d.key[i] <= b.key[i]
  <2>1. m <= N - d.key[i]
    BY <1>1, <1>3
  <2> QED
    BY <1>4, <2>1
<1> QED
  BY <1>5

LEMMA GreatestKey ==
  ASSUME NEW C, C # {}, NEW N \in Nat, \A c \in C : \A i \in 1..3 : c.key[i] \in 0..N
  PROVE  \E b \in C : \A d \in C : ~Before(b.key, d.key)
<1> DEFINE Second(a) == {c \in C : c.key[1] = a.key[1]}
           Third(b) == {c \in C : c.key[1] = b.key[1] /\ c.key[2] = b.key[2]}
<1>0. 1 \in 1..3 /\ 2 \in 1..3 /\ 3 \in 1..3
  OBVIOUS
<1>1. PICK a \in C : \A d \in C : d.key[1] <= a.key[1]
  <2>1. \A c \in C : c.key[1] \in 0..N
    BY <1>0
  <2> QED
    BY <1>0, <2>1, GreatestComponent
<1>2. PICK b \in Second(a) : \A d \in Second(a) : d.key[2] <= b.key[2]
  <2>1. Second(a) # {} /\ \A c \in Second(a) : c.key[2] \in 0..N
    BY <1>0, <1>1
  <2> HIDE DEF Second
  <2> QED
    BY <1>0, <2>1, GreatestComponent
<1>3. PICK e \in Third(b) : \A d \in Third(b) : d.key[3] <= e.key[3]
  <2>1. Third(b) # {} /\ \A c \in Third(b) : c.key[3] \in 0..N
    BY <1>0, <1>2
  <2> HIDE DEF Third
  <2> QED
    BY <1>0, <2>1, GreatestComponent
<1>4. e \in C /\ e.key[1] = a.key[1] /\ e.key[2] = b.key[2] /\ b.key[1] = a.key[1]
  BY <1>2, <1>3
<1>5. ASSUME NEW d \in C, NEW n \in 1..3, e.key[n] < d.key[n], \A m \in 1..(n - 1) : e.key[m] = d.key[m]
      PROVE  FALSE
  <2>1. d.key[1] \in Nat /\ d.key[2] \in Nat /\ d.key[3] \in Nat
        /\ e.key[1] \in Nat /\ e.key[2] \in Nat /\ e.key[3] \in Nat
    BY <1>4
  <2>2. CASE n = 1
    BY <1>1, <1>4, <1>5, <2>1, <2>2
  <2>3. CASE n = 2
    <3>1. e.key[1] = d.key[1]
      BY <1>5, <2>3
    <3>2. d \in Second(a)
      BY <1>4, <3>1
    <3> QED
      BY <1>2, <1>4, <1>5, <2>1, <2>3, <3>2
  <2>4. CASE n = 3
    <3>1. e.key[1] = d.key[1] /\ e.key[2] = d.key[2]
      BY <1>5, <2>4
    <3>2. d \in Third(b)
      BY <1>4, <3>1
    <3> QED
      BY <1>3, <1>5, <2>1, <2>4, <3>2
  <2> QED
    BY <2>2, <2>3, <2>4
<1> QED
  BY <1>4, <1>5 DEF Before

(* The candidates of a target: saved versions; only its pointer and its rows    *)
(* give the time of an activation.                                             *)
LEMMA CandidateShape ==
  ASSUME RecoveryInv, lock # op.by, NEW t \in T, NEW c \in Candidates(t)
  PROVE  /\ c.v \in 1..Len(models) /\ c.from \in Sources
         /\ c.key[1] \in 1..2 /\ c.key[2] \in 0..(2 * MaxModels + 4) /\ c.key[3] \in 1..4
         /\ \/ c.v = pointer[t]
            \/ c.v \in active[t]
            \/ c.key[2] = 2 * c.v
<1>0. RecoveryTypeOK /\ RowsInv /\ PointersNamed
  BY DEF RecoveryInv
<1> DEFINE Time(v, time) == \/ time = 2 * v
                           \/ (time = 2 * since[v] + 1 /\ v \in {pointer[t]} \union active[t])
<1>1. PICK v \in 1..Len(models), from \in Sources, bootstrap \in BOOLEAN, time \in Nat :
         c = Found(t, v, from, bootstrap, time) /\ Time(v, time)
  <2>0. \A v \in 1..Len(models) :
           /\ Activated(v) \in Nat /\ Saved(v) \in Nat
           /\ Activated(v) = 2 * since[v] + 1 /\ Saved(v) = 2 * v
           /\ Bootstrap(v) \in BOOLEAN
    BY <1>0, VersionNumbers DEF Activated, Saved, Bootstrap
  <2>1. CASE c \in {Found(t, v, "pointer", FALSE, Activated(v)) : v \in {pointer[t]} \ {NoVersion}}
    <3>1. PICK v \in 1..Len(models) : v = pointer[t] /\ c = Found(t, v, "pointer", FALSE, Activated(v))
      BY <1>0, <2>1 DEF PointersNamed, Named, Row
    <3>2. Time(v, Activated(v)) /\ "pointer" \in Sources /\ Activated(v) \in Nat
      BY <2>0, <3>1 DEF Sources
    <3> HIDE DEF Time
    <3> QED
      BY <3>1, <3>2
  <2>2. CASE c \in {Found(t, v, "remote", Bootstrap(v) /\ uploaded[v] > 1, Saved(v)) :
                      v \in {w \in DOMAIN of : of[w] = t /\ uploaded[w] > 0}}
    <3>1. PICK v \in DOMAIN of : c = Found(t, v, "remote", Bootstrap(v) /\ uploaded[v] > 1, Saved(v))
      BY <2>2
    <3>2. v \in 1..Len(models)
      BY <1>0 DEF RecoveryTypeOK
    <3>3. Saved(v) = 2 * v
      BY <2>0, <3>2
    <3>4. Time(v, Saved(v))
      BY <3>3
    <3>5. "remote" \in Sources /\ Saved(v) \in Nat
      BY <2>0, <3>2 DEF Sources
    <3>6. (Bootstrap(v) /\ uploaded[v] > 1) \in BOOLEAN
      OBVIOUS
    <3> HIDE DEF Time
    <3> QED
      BY <3>1, <3>2, <3>4, <3>5, <3>6, Zenon
  <2>3. CASE c \in {Found(t, v, "local", Bootstrap(v), Saved(v)) : v \in {w \in files : of[w] = t}}
    <3>1. PICK v \in files : c = Found(t, v, "local", Bootstrap(v), Saved(v))
      BY <2>3
    <3>2. v \in 1..Len(models)
      BY <1>0 DEF RecoveryTypeOK
    <3>3. Saved(v) = 2 * v
      BY <2>0, <3>2
    <3>4. Time(v, Saved(v))
      BY <3>3
    <3>5. "local" \in Sources /\ Saved(v) \in Nat /\ Bootstrap(v) \in BOOLEAN
      BY <2>0, <3>2 DEF Sources
    <3> HIDE DEF Time
    <3> QED
      BY <3>1, <3>2, <3>4, <3>5
  <2>4. CASE c \in {Found(t, v, "database", Bootstrap(v), Activated(v)) :
                      v \in files \intersect View(op.by)[t]}
    <3>1. PICK v \in files \intersect active[t] : c = Found(t, v, "database", Bootstrap(v), Activated(v))
      BY <2>4 DEF View
    <3>2. v \in 1..Len(models)
      BY <1>0 DEF RecoveryTypeOK
    <3>3. Time(v, Activated(v)) /\ "database" \in Sources /\ Activated(v) \in Nat
          /\ Bootstrap(v) \in BOOLEAN
      BY <2>0, <3>1, <3>2 DEF Sources
    <3> HIDE DEF Time
    <3> QED
      BY <3>1, <3>2, <3>3
  <2> QED
    BY <2>1, <2>2, <2>3, <2>4 DEF Candidates
<1>2. c.v = v /\ c.from = from /\ c.key[1] = Rank(bootstrap) /\ c.key[2] = time
      /\ c.key[3] = Priority[from]
  BY <1>1 DEF Found
<1>3. Rank(bootstrap) \in 1..2 /\ Priority[from] \in 1..4
  BY DEF Rank, Priority, Sources
<1>4. time \in 0..(2 * MaxModels + 4)
  BY <1>0, <1>1, VersionNumbers DEF RecoveryTypeOK
<1> QED
  BY <1>1, <1>2, <1>3, <1>4

(* A recovery goes behind the pointer of a target only to its active model. *)
LEMMA BestShape ==
  ASSUME RecoveryInv, lock # op.by, NEW t \in T, NEW c \in Best(t)
  PROVE  /\ c \in [v : 0..MaxModels, from : Sources]
         /\ c # NoChoice => c.v \in 1..Len(models)
         /\ c.v >= pointer[t] \/ c.v \in active[t]
<1>0. RecoveryTypeOK /\ PointersNamed
  BY DEF RecoveryInv
<1>1. CASE Candidates(t) = {}
  <2>1. c = NoChoice
    BY <1>1 DEF Best
  <2>2. pointer[t] = NoVersion
    <3>1. SUFFICES ASSUME pointer[t] # NoVersion PROVE FALSE
      OBVIOUS
    <3>2. Found(t, pointer[t], "pointer", FALSE, Activated(pointer[t])) \in Candidates(t)
      BY <3>1 DEF Candidates
    <3> QED
      BY <1>1, <3>2
  <2>3. c.v = 0 /\ pointer[t] = 0
    BY <2>1, <2>2 DEF NoChoice, NoVersion
  <2> QED
    BY <2>1, <2>3, NoSession
<1>2. CASE Candidates(t) # {}
  <2> DEFINE Top(b) == \A d \in Candidates(t) : ~Before(b.key, d.key)
             best == CHOOSE b \in Candidates(t) : Top(b)
  <2>1. \E b \in Candidates(t) : Top(b)
    <3>1. 2 * MaxModels + 4 \in Nat
      BY ModelsAssumption
    <3>2. \A d \in Candidates(t) : \A i \in 1..3 : d.key[i] \in 0..(2 * MaxModels + 4)
      <4>1. ASSUME NEW d \in Candidates(t), NEW i \in 1..3 PROVE d.key[i] \in 0..(2 * MaxModels + 4)
        <5>1. d.key[1] \in 1..2 /\ d.key[2] \in 0..(2 * MaxModels + 4) /\ d.key[3] \in 1..4
          BY CandidateShape
        <5>2. MaxModels \in Nat
          BY ModelsAssumption
        <5> QED
          BY <5>1, <5>2
      <4> QED
        BY <4>1
    <3> QED
      BY <1>2, <3>1, <3>2, GreatestKey
  <2>2. PICK b \in Candidates(t) : Top(b) /\ c.v = b.v /\ c \in [v : {b.v}, from : {b.from, "database"}]
    <3>1. best \in Candidates(t) /\ Top(best)
      BY <2>1
    <3>2. c \in {[v |-> best.v, from |-> from] :
                   from \in {best.from} \union (IF best.from = "local" THEN {"database"} ELSE {})}
      BY <1>2 DEF Best
    <3> HIDE DEF best, Top
    <3> QED
      BY <3>1, <3>2
  <2>3. /\ b.v \in 1..Len(models) /\ b.from \in Sources
        /\ b.key[1] \in 1..2 /\ b.key[2] \in 0..(2 * MaxModels + 4) /\ b.key[3] \in 1..4
        /\ \/ b.v = pointer[t]
           \/ b.v \in active[t]
           \/ b.key[2] = 2 * b.v
    BY CandidateShape
  <2>4. c.v >= pointer[t] \/ c.v \in active[t]
    <3>1. SUFFICES ASSUME pointer[t] # NoVersion, b.v # pointer[t], b.v \notin active[t]
                   PROVE  b.v >= pointer[t]
      BY <1>0, <2>2, <2>3 DEF NoVersion, RecoveryTypeOK, TypeOK
    <3>2. PICK v : v = pointer[t] /\ Row(v)
      BY <1>0, <3>1 DEF PointersNamed, Named
    <3>3. PICK d \in Candidates(t) : d.key = <<2, 2 * since[v] + 1, 4>>
      <4> DEFINE d == Found(t, v, "pointer", FALSE, Activated(v))
      <4>1. d \in Candidates(t)
        BY <3>1, <3>2 DEF Candidates
      <4>2. d.key = <<2, 2 * since[v] + 1, 4>>
        BY DEF Found, Activated, Rank, Priority
      <4> QED
        BY <4>1, <4>2
    <3>4. ~Before(b.key, d.key)
      BY <2>2
    <3>5. d.key[1] = 2 /\ d.key[2] = 2 * since[v] + 1
      BY <3>3
    <3>6. b.key[1] = 2 /\ ~(b.key[2] < d.key[2])
      <4>1. ~(b.key[1] < d.key[1])
        BY <3>4 DEF Before
      <4>2. b.key[1] = d.key[1]
        BY <2>3, <3>5, <4>1
      <4>3. \A m \in 1..(2 - 1) : b.key[m] = d.key[m]
        BY <4>2
      <4>4. ~(b.key[2] < d.key[2])
        BY <3>4, <4>3 DEF Before
      <4> QED
        BY <3>5, <4>2, <4>4
    <3>7. since[v] \in Nat /\ since[v] >= v /\ v \in Nat
      BY <1>0, <3>2, VersionNumbers DEF Row
    <3> QED
      BY <2>3, <3>1, <3>2, <3>5, <3>6, <3>7
  <2>5. b.v \in 0..MaxModels
    BY <1>0, <2>3, VersionNumbers
  <2>6. c \in [v : 0..MaxModels, from : Sources]
    BY <2>2, <2>3, <2>5 DEF Sources
  <2> QED
    BY <2>2, <2>3, <2>4, <2>6
<1> QED
  BY <1>1, <1>2

-----------------------------------------------------------------------------
(* The steps of the operator's commands. *)

RecoveryKept == RecoveryInv' /\ \A t \in T : active[t] # {} => active'[t] # {}

LEMMA NextSession ==
  ASSUME RecoveryInv, NEW m \in BOOLEAN, OpNext(m)
  PROVE  op' \in Session
<1> DEFINE i == IF op.i < Len(Targets) THEN op.i + 1 ELSE op.i
           step == IF op.i = Len(Targets) THEN "commit" ELSE IF Recovering THEN "load" ELSE "binary"
<1>1. op \in Session /\ Targets[op.i] \in T
  BY SessionNow
<1>2. op' = [op EXCEPT !.i = i, !.at = step, !.missing = @ \/ m, !.plan[Targets[op.i]] = NoChoice]
  BY DEF OpNext
<1>3. step \in OpSteps
  BY DEF OpSteps
<1>4. i \in DOMAIN Targets
  BY <1>1, ModelsAssumption DEF Session
<1> HIDE DEF i, step
<1>5. [op.plan EXCEPT ![Targets[op.i]] = NoChoice] \in [T -> [v : 0..MaxModels, from : Sources]]
  BY <1>1, NoSession DEF Session
<1>6. (op.missing \/ m) \in BOOLEAN
  OBVIOUS
<1> QED
  BY <1>1, <1>2, <1>3, <1>4, <1>5, <1>6 DEF Session

LEMMA StepSession ==
  ASSUME RecoveryInv, NEW step \in OpSteps, OpGoes(step)
  PROVE  op' \in Session
  BY SessionNow DEF OpGoes, Session

LEMMA OneMoreFault ==
  ASSUME RecoveryInv, faults < MaxFaults, faults' = faults + 1
  PROVE  faults' \in 0..MaxFaults
<1>1. faults \in 0..MaxFaults /\ MaxFaults \in Nat
  BY ModelsAssumption DEF RecoveryInv, RecoveryTypeOK, TypeOK
<1> QED
  BY <1>1

(* A step that leaves rows and objects alone. *)
LEMMA QuietOperator ==
  ASSUME RecoveryInv,
         UNCHANGED <<models, store, uploaded, pointer, job, at, cursor, cand, of, since, card, row>>,
         files' \subseteq 1..Len(models), faults' \in 0..MaxFaults, op' \in Session
  PROVE  /\ RecoveryTypeOK' /\ VersionsStay
         /\ OpInv' /\ (op'.by = op.by \/ op.by = Free \/ lock # op.by) => RecoveryKept
<1>1. RecoveryTypeOK /\ TypeOK
  BY DEF RecoveryInv, RecoveryTypeOK
<1>2. RecoveryTypeOK'
  BY <1>1 DEF RecoveryTypeOK, TypeOK, store, Session
<1>3. \A v \in Versions : uploaded[v] <= uploaded[v]
  BY <1>1 DEF TypeOK
<1>4. ModelsGrow
  BY <1>1, SameModels
<1>5. VersionsStay
  BY <1>3, <1>4 DEF VersionsStay, RecoveryInv, ObjectsBounded
<1>6. RowsMove
  BY DEF RowsMove, store
<1>7. lock' = lock /\ \A q \in Procs : at'[q] = at[q] /\ job'[q] = job[q] /\ cand'[q] = cand[q]
  BY DEF store
<1>8. ASSUME OpInv', op'.by = op.by \/ op.by = Free \/ lock # op.by PROVE RecoveryKept
  <2>1. op'.by # op.by => lock' # op.by \/ op.by = Free
    BY <1>7, <1>8
  <2> QED
    BY <1>2, <1>5, <1>6, <1>7, <1>8, <2>1, OperatorAssembled DEF RecoveryKept
<1> QED
  BY <1>2, <1>5, <1>8

LEMMA OperateKeeps ==
  ASSUME RecoveryInv, NEW p \in Procs, Operate(p)
  PROVE  RecoveryKept
<1>1. PICK cmd \in {"recover", "resume", "publish"} : op' = [NoOp EXCEPT !.by = p, !.cmd = cmd, !.at = "audit"]
  BY DEF Operate, Command
<1>2. /\ op'.by = p /\ op'.cmd = cmd /\ op'.at = "audit" /\ op'.plan = [t \in T |-> NoChoice]
      /\ op' \in Session
  BY <1>1, NoSession DEF NoOp, Session, OpSteps
<1>3. op = NoOp /\ at[p] = "idle" /\ UNCHANGED <<vars, artifacts>>
  BY DEF Operate
<1>4. op.by = Free /\ lock # p
  BY <1>3, ModelsAssumption DEF NoOp, RecoveryInv, JobInv
<1>5. OpInv'
  <2>1. \A t \in T : op'.plan[t] = NoChoice
    BY <1>2
  <2>2. lock' = lock /\ at' = at
    BY <1>3 DEF vars, store
  <2> QED
    BY <1>2, <1>3, <1>4, <2>1, <2>2 DEF OpInv, Planned, Recovering
<1>6. files \subseteq 1..Len(models) /\ faults \in 0..MaxFaults
  BY DEF RecoveryInv, RecoveryTypeOK, TypeOK
<1> QED
  BY <1>2, <1>3, <1>4, <1>5, <1>6, QuietOperator DEF vars, store, artifacts

(* The next target, whatever was missing. *)
LEMMA PassedOver ==
  ASSUME RecoveryInv, NEW m \in BOOLEAN, OpNext(m), op.at # "idle", faults' \in 0..MaxFaults,
         UNCHANGED <<models, store, uploaded, pointer, job, at, cursor, cand, artifacts>>
  PROVE  RecoveryKept
<1>1. op' \in Session
  BY NextSession
<1>2. files \subseteq 1..Len(models) /\ lock' = lock
  BY DEF RecoveryInv, RecoveryTypeOK, TypeOK, store
<1>3. RecoveryTypeOK' /\ VersionsStay
  BY <1>1, <1>2, QuietOperator DEF artifacts
<1>4. op.cmd = "publish" => lock' # op.by
  BY <1>2 DEF RecoveryInv, OpInv
<1>5. OpInv' /\ op'.by = op.by
  BY <1>3, <1>4, NextTarget
<1> QED
  BY <1>1, <1>2, <1>5, QuietOperator DEF artifacts

LEMMA LoadKeeps ==
  ASSUME RecoveryInv, Load
  PROVE  RecoveryKept
<1>1. op.at = "load" /\ UNCHANGED <<vars, of, since, card, row>> /\ faults' \in 0..MaxFaults
      /\ files \subseteq 1..Len(models)
  BY DEF Load, vars, RecoveryInv, RecoveryTypeOK, TypeOK
<1>2. CASE Choice = NoChoice
  BY <1>1, <1>2, PassedOver DEF Load, vars, artifacts
<1>3. CASE Choice # NoChoice
  <2>1. OpGoes("binary") /\ files' = files \union {Choice.v}
    BY <1>3 DEF Load
  <2>2. op' \in Session
    BY <2>1, StepSession DEF OpSteps
  <2>3. files' \subseteq 1..Len(models)
    BY <1>1, <1>3, <2>1, SessionNow
  <2>4. RecoveryTypeOK' /\ VersionsStay
    BY <1>1, <2>2, <2>3, QuietOperator DEF vars
  <2>5. op.cmd = "publish" => lock' # op.by
    BY <1>1 DEF RecoveryInv, OpInv, vars, store
  <2>6. OpInv' /\ op'.by = op.by
    BY <1>1, <1>3, <2>1, <2>4, <2>5, SameTarget DEF OpSteps, vars
  <2> QED
    BY <1>1, <2>2, <2>3, <2>6, QuietOperator DEF vars
<1> QED
  BY <1>2, <1>3

(* An object of the choice is there: it was put, or found. *)
LEMMA ObjectKeeps ==
  ASSUME RecoveryInv, NEW n \in 1..Objects, NEW next \in {"card", "metrics", "row", "pointer"},
         op.at # "idle", Choice # NoChoice, OpGoes(next),
         uploaded' = [uploaded EXCEPT ![Choice.v] = IF @ < n THEN n ELSE @],
         UNCHANGED <<models, store, pointer, job, at, cursor, cand, faults, of, files, since, row>>,
         card' \in [Versions -> Cards],
         next = "metrics" => n >= 2, next \in {"row", "pointer"} => n = Objects,
         next = "pointer" => Row(Choice.v)
  PROVE  RecoveryKept
<1>0. RecoveryTypeOK /\ TypeOK /\ ObjectsBounded /\ 0..Objects \subseteq Nat /\ n \in Nat /\ n <= Objects
  BY DEF RecoveryInv, RecoveryTypeOK, Objects
<1>1. PICK v \in 1..Len(models) : v = Choice.v /\ v \in Versions
  BY SessionNow
<1>2. uploaded[v] \in Nat /\ uploaded[v] <= Objects
  BY <1>0, <1>1 DEF TypeOK, ObjectsBounded
<1>3. PICK m \in Nat : m = (IF uploaded[v] < n THEN n ELSE uploaded[v]) /\ m <= Objects /\ m >= n
                       /\ uploaded[v] <= m
  BY <1>0, <1>2
<1>4. uploaded' = [uploaded EXCEPT ![v] = m]
  BY <1>0, <1>1, <1>3 DEF TypeOK
<1>5. uploaded' \in [Versions -> Nat] /\ uploaded'[v] = m
      /\ \A w \in Versions \ {v} : uploaded'[w] = uploaded[w]
  BY <1>0, <1>1, <1>4 DEF TypeOK
<1>6. op' \in Session
  BY StepSession DEF OpSteps
<1>7. RecoveryTypeOK'
  BY <1>0, <1>5, <1>6 DEF RecoveryTypeOK, TypeOK, store, Session
<1>8. VersionsStay
  <2>1. ~(v > Len(models)) /\ ModelsGrow
    BY <1>0, <1>1, SameModels DEF TypeOK
  <2>2. \A w \in Versions : uploaded[w] <= uploaded'[w]
    BY <1>0, <1>3, <1>5 DEF TypeOK
  <2>3. ObjectsBounded'
    BY <1>0, <1>3, <1>5, <2>1 DEF ObjectsBounded
  <2> QED
    BY <2>1, <2>2, <2>3 DEF VersionsStay
<1>9. OpInv' /\ op'.by = op.by
  <2>1. next \in OpSteps \ {"idle", "audit"}
    BY DEF OpSteps
  <2>2. op.cmd = "publish" => lock' # op.by
    BY DEF RecoveryInv, OpInv, store
  <2>3. /\ next = "card" => uploaded'[Choice.v] >= 1
        /\ next = "metrics" => uploaded'[Choice.v] >= 2
        /\ next \in {"row", "pointer"} => uploaded'[Choice.v] = Objects
    BY <1>0, <1>1, <1>3, <1>5 DEF Objects
  <2>4. next = "pointer" => Row(Choice.v)'
    <3>1. Row(v) => Row(v)'
      BY DEF Row
    <3>2. op'.plan = op.plan /\ op'.i = op.i
      BY SessionNow DEF OpGoes, Session
    <3> QED
      BY <1>1, <3>1, <3>2 DEF Choice, Row
  <2> QED
    BY <1>7, <1>8, <2>1, <2>2, <2>3, <2>4, SameTarget
<1>10. RowsMove /\ lock' = lock
  BY DEF RowsMove, store
<1> QED
  BY <1>7, <1>8, <1>9, <1>10, OperatorAssembled DEF RecoveryKept

LEMMA PutKeeps ==
  ASSUME RecoveryInv, PutBinary \/ PutCard \/ PutMetrics
  PROVE  RecoveryKept
<1>0. RecoveryTypeOK /\ OpInv
  BY DEF RecoveryInv
<1>1. op.at \in {"binary", "card", "metrics"} /\ Recovering
  BY DEF PutBinary, PutCard, PutMetrics, PutMissing
<1>2. Choice # NoChoice
  BY <1>0, <1>1 DEF OpInv
<1>3. CASE PutBinary
  <2>1. /\ OpGoes("card") /\ uploaded' = [uploaded EXCEPT ![Choice.v] = IF @ < 1 THEN 1 ELSE @]
        /\ UNCHANGED <<models, store, pointer, job, at, cursor, cand, faults, of, files, since, row, card>>
    BY <1>3 DEF PutBinary, PutMissing
  <2>2. card' \in [Versions -> Cards]
    BY <1>0, <2>1 DEF RecoveryTypeOK
  <2> QED
    BY <1>1, <1>2, <2>1, <2>2, ObjectKeeps DEF Objects
<1>4. CASE PutCard
  <2>1. /\ OpGoes("metrics") /\ uploaded' = [uploaded EXCEPT ![Choice.v] = IF @ < 2 THEN 2 ELSE @]
        /\ UNCHANGED <<models, store, pointer, job, at, cursor, cand, faults, of, files, since, row>>
    BY <1>4 DEF PutCard, PutMissing
  <2>2. card' \in [Versions -> Cards]
    BY <1>0, <1>4 DEF PutCard, RecoveryTypeOK, Cards
  <2> QED
    BY <1>1, <1>2, <2>1, <2>2, ObjectKeeps DEF Objects
<1>5. CASE PutMetrics
  <2>1. /\ OpGoes("row") /\ uploaded' = [uploaded EXCEPT ![Choice.v] = IF @ < 3 THEN 3 ELSE @]
        /\ UNCHANGED <<models, store, pointer, job, at, cursor, cand, faults, of, files, since, row, card>>
    BY <1>5 DEF PutMetrics, PutMissing
  <2>2. card' \in [Versions -> Cards]
    BY <1>0, <2>1 DEF RecoveryTypeOK
  <2> QED
    BY <1>1, <1>2, <2>1, <2>2, ObjectKeeps DEF Objects
<1> QED
  BY <1>3, <1>4, <1>5

LEMMA PublishKeeps ==
  ASSUME RecoveryInv, PublishBinary \/ PublishCard \/ PublishMetrics
  PROVE  RecoveryKept
<1>0. RecoveryTypeOK /\ OpInv
  BY DEF RecoveryInv
<1>1. PICK n \in 1..Objects, next \in {"card", "metrics", "pointer"} :
         /\ \/ PublishBinary /\ n = 1 /\ next = "card"
            \/ PublishCard /\ n = 2 /\ next = "metrics"
            \/ PublishMetrics /\ n = 3 /\ next = "pointer"
  BY DEF Objects
<1>2. /\ op.at \in {"binary", "card", "metrics"} /\ op.cmd = "publish" /\ Choice # NoChoice
      /\ UNCHANGED <<models, store, pointer, job, at, cursor, cand, faults, of, files, since, row>>
      /\ \/ /\ OpGoes(next)
            /\ uploaded' = [uploaded EXCEPT ![Choice.v] = IF @ < n THEN n ELSE @]
            /\ card' = IF n = 2 THEN [card EXCEPT ![Choice.v] = "publication"] ELSE card
         \/ op' = NoOp /\ UNCHANGED <<uploaded, card>>
  BY <1>1 DEF PublishBinary, PublishCard, PublishMetrics, Publish
<1>3. CASE op' = NoOp /\ UNCHANGED <<uploaded, card>>
  <2>1. files' \subseteq 1..Len(models) /\ faults' \in 0..MaxFaults
    BY <1>0, <1>2 DEF RecoveryTypeOK, TypeOK
  <2>2. lock # op.by
    BY <1>0, <1>2 DEF OpInv
  <2> QED
    BY <1>2, <1>3, <2>1, <2>2, Resting, QuietOperator
<1>4. CASE /\ OpGoes(next)
           /\ uploaded' = [uploaded EXCEPT ![Choice.v] = IF @ < n THEN n ELSE @]
           /\ card' = IF n = 2 THEN [card EXCEPT ![Choice.v] = "publication"] ELSE card
  <2>1. card' \in [Versions -> Cards]
    BY <1>0, <1>4 DEF RecoveryTypeOK, Cards
  <2>2. next = "pointer" => Row(Choice.v)
    <3>1. Targets[op.i] \in T
      BY SessionNow
    <3>2. Planned(Choice)
      BY <1>0, <3>1 DEF OpInv, Choice
    <3> QED
      BY <1>2, <3>2 DEF Planned, Selected
  <2>3. next = "metrics" => n >= 2
    BY <1>1
  <2>4. next \in {"row", "pointer"} => n = Objects
    BY <1>1 DEF Objects
  <2> QED
    BY <1>2, <1>4, <2>1, <2>2, <2>3, <2>4, ObjectKeeps
<1> QED
  BY <1>2, <1>3, <1>4

(* The version that a recovery activates is saved, and is activated now. *)
LEMMA RecoverRowKeeps ==
  ASSUME RecoveryInv, RecoverRow
  PROVE  RecoveryKept
<1>0. RecoveryTypeOK /\ TypeOK /\ OpInv /\ ObjectsBounded
  BY DEF RecoveryInv, RecoveryTypeOK
<1>1. /\ op.at = "row" /\ Recovering /\ lock' = op.by /\ CanWrite(op.by)
      /\ work' = [work EXCEPT ![Targets[op.i]] = {Choice.v}]
      /\ since' = [since EXCEPT ![Choice.v] = Len(models)]
      /\ row' = [row EXCEPT ![Choice.v] = RecoveredMetrics]
      /\ OpGoes("pointer")
      /\ UNCHANGED <<models, active, uploaded, pointer, job, at, cursor, cand, faults, of, files, card>>
  BY DEF RecoverRow, WriteRow
<1>2. Choice # NoChoice /\ op.by \in Procs
  BY <1>0, <1>1, SessionNow DEF OpInv
<1>3. PICK v \in 1..Len(models) : v = Choice.v /\ v \in Versions
  BY <1>2, SessionNow
<1>4. PICK t \in T : t = Targets[op.i]
  BY SessionNow
<1>5. RecoveredMetrics \in Metrics
  BY DEF RecoveredMetrics, Metrics
<1>6. op' \in Session
  BY <1>1, StepSession DEF OpSteps
<1>7. Len(models) \in 0..MaxModels /\ v \in Nat /\ v <= Len(models)
  BY <1>0, <1>3, VersionNumbers
<1>8. work' = [work EXCEPT ![t] = {v}] /\ work' \in [T -> SUBSET Versions]
  BY <1>0, <1>1, <1>3, <1>4 DEF TypeOK
<1>9. /\ since' \in [Versions -> 0..MaxModels] /\ row' \in [Versions -> Metrics]
      /\ since'[v] = Len(models) /\ \A w \in Versions \ {v} : since'[w] = since[w]
  BY <1>0, <1>1, <1>3, <1>5, <1>7 DEF RecoveryTypeOK
<1>10. RecoveryTypeOK'
  BY <1>0, <1>1, <1>2, <1>6, <1>8, <1>9 DEF RecoveryTypeOK, TypeOK, Session
<1>11. VersionsStay
  <2>1. ModelsGrow /\ \A w \in Versions : uploaded[w] <= uploaded[w]
    BY <1>0, <1>1, SameModels DEF TypeOK
  <2> QED
    BY <1>0, <1>1, <1>9, <2>1 DEF VersionsStay, ObjectsBounded
<1>12. Row(v)'
  BY <1>1, <1>7, <1>9 DEF Row
<1>13. RowsMove
  BY <1>1, <1>8, <1>12 DEF RowsMove
<1>14. OpInv' /\ op'.by = op.by
  <2>1. "pointer" \in OpSteps \ {"idle", "audit"}
    BY DEF OpSteps
  <2>2. uploaded'[Choice.v] = Objects
    BY <1>0, <1>1 DEF OpInv
  <2>3. op.cmd # "publish"
    BY <1>1 DEF Recovering
  <2>4. op'.plan = op.plan /\ op'.i = op.i
    BY <1>1, SessionNow DEF OpGoes, Session
  <2>5. Row(Choice.v)'
    BY <1>3, <1>12, <2>4 DEF Choice, Row
  <2> QED
    BY <1>1, <1>2, <1>10, <1>11, <2>1, <2>2, <2>3, <2>5, SameTarget
<1> QED
  BY <1>1, <1>10, <1>11, <1>13, <1>14, OperatorAssembled DEF RecoveryKept

LEMMA OpPointerKeeps ==
  ASSUME RecoveryInv, OpPointer
  PROVE  RecoveryKept
<1>0. RecoveryTypeOK /\ TypeOK /\ OpInv /\ ObjectsBounded
  BY DEF RecoveryInv, RecoveryTypeOK
<1>1. /\ op.at = "pointer" /\ pointer' = [pointer EXCEPT ![Targets[op.i]] = Choice.v] /\ OpNext(FALSE)
      /\ UNCHANGED <<models, store, uploaded, job, at, cursor, cand, faults, artifacts>>
  BY DEF OpPointer
<1>2. Choice # NoChoice
  BY <1>0, <1>1 DEF OpInv
<1>3. PICK v \in 1..Len(models) : v = Choice.v /\ v \in Versions
  BY <1>2, SessionNow
<1>4. PICK t \in T : t = Targets[op.i]
  BY SessionNow
<1>5. pointer' = [pointer EXCEPT ![t] = v] /\ pointer' \in [T -> 0..MaxModels]
  <2>1. v \in 0..MaxModels
    BY <1>0, <1>3, VersionNumbers
  <2> QED
    BY <1>0, <1>1, <1>3, <1>4, <2>1 DEF TypeOK
<1>6. op' \in Session
  BY <1>1, NextSession
<1>7. RecoveryTypeOK'
  BY <1>0, <1>1, <1>5, <1>6 DEF RecoveryTypeOK, TypeOK, store, artifacts, Session
<1>8. VersionsStay
  <2>1. ModelsGrow /\ \A w \in Versions : uploaded[w] <= uploaded[w]
    BY <1>0, <1>1, SameModels DEF TypeOK
  <2> QED
    BY <1>0, <1>1, <2>1 DEF VersionsStay, ObjectsBounded, artifacts
<1>9. Named(v)'
  BY <1>0, <1>1, <1>3 DEF OpInv, Named, Row, artifacts
<1>10. RowsMove /\ lock' = lock
  BY <1>1 DEF RowsMove, store
<1>11. op.cmd = "publish" => lock' # op.by
  BY <1>0, <1>10 DEF OpInv
<1>12. OpInv' /\ op'.by = op.by
  BY <1>1, <1>7, <1>8, <1>11, NextTarget
<1>13. \A q \in Procs : at'[q] = at[q] /\ job'[q] = job[q] /\ cand'[q] = cand[q]
  BY <1>1
<1> QED
  BY <1>4, <1>5, <1>7, <1>8, <1>9, <1>10, <1>12, <1>13, OperatorAssembled DEF RecoveryKept

(* The session ends: it commits, or everything it has written is rolled back. *)
LEMMA EndKeeps ==
  ASSUME RecoveryInv, op # NoOp, op' = NoOp, StoreType',
         \/ UNCHANGED store
         \/ active' = work /\ work' = work /\ lock' = Free
         \/ active' = active /\ work' = active /\ lock' = Free,
         lock' # op.by, faults' \in 0..MaxFaults,
         UNCHANGED <<models, uploaded, pointer, cand, artifacts>>,
         job' \in [Procs -> Jobs \union {None}], at' \in [Procs -> Steps],
         cursor' \in [Procs -> [phase : Phases, i : DOMAIN Targets]],
         \A q \in Procs : \/ at'[q] = at[q] /\ job'[q] = job[q]
                          \/ q = op.by /\ at'[q] \in {"open", "look"}
  PROVE  RecoveryKept
<1>0. RecoveryTypeOK /\ TypeOK
  BY DEF RecoveryInv, RecoveryTypeOK
<1>1. OpInv' /\ op' \in Session
  BY Resting
<1>2. RecoveryTypeOK'
  BY <1>0, <1>1 DEF RecoveryTypeOK, TypeOK, StoreType, artifacts, Session
<1>3. VersionsStay
  <2>1. ModelsGrow /\ \A w \in Versions : uploaded[w] <= uploaded[w]
    BY <1>0, SameModels DEF TypeOK
  <2> QED
    BY <1>0, <2>1 DEF VersionsStay, RecoveryInv, ObjectsBounded, artifacts
<1>4. RowsMove /\ lock' \in {lock, op.by, Free}
  BY DEF RowsMove, store
<1>5. \A q \in Procs : \/ at'[q] = at[q] /\ job'[q] = job[q] /\ cand'[q] = cand[q]
                       \/ q = op.by /\ at'[q] \in {"open", "look"}
  OBVIOUS
<1> QED
  BY <1>1, <1>2, <1>3, <1>4, <1>5, OperatorAssembled DEF RecoveryKept

LEMMA RollbackKeeps ==
  ASSUME RecoveryInv, op # NoOp, OpRollsBack, faults' \in 0..MaxFaults
  PROVE  RecoveryKept
<1>0. TypeOK /\ op.by \in Procs /\ op.by # Free
  BY ModelsAssumption DEF RecoveryInv, RecoveryTypeOK, OpInv
<1>1. /\ op' = NoOp
      /\ work' = IF lock = op.by THEN active ELSE work
      /\ lock' = IF lock = op.by THEN Free ELSE lock
      /\ UNCHANGED <<models, active, uploaded, pointer, job, at, cursor, cand, artifacts>>
  BY DEF OpRollsBack
<1>2. StoreType' /\ lock' # op.by
  BY <1>0, <1>1 DEF TypeOK, StoreType
<1>3. \/ UNCHANGED store
      \/ active' = active /\ work' = active /\ lock' = Free
  BY <1>1 DEF store
<1>4. /\ job' \in [Procs -> Jobs \union {None}] /\ at' \in [Procs -> Steps]
      /\ cursor' \in [Procs -> [phase : Phases, i : DOMAIN Targets]]
  BY <1>0, <1>1 DEF TypeOK
<1> QED
  BY <1>1, <1>2, <1>3, <1>4, EndKeeps

LEMMA RecoveryCommitKeeps ==
  ASSUME RecoveryInv, RecoveryCommit
  PROVE  RecoveryKept
<1>0. TypeOK /\ op.by \in Procs /\ op.by # Free /\ op # NoOp /\ StoreType
  <2>1. op.at = "commit"
    BY DEF RecoveryCommit
  <2>2. op # NoOp
    BY <2>1 DEF NoOp
  <2> QED
    BY <2>2, ModelsAssumption DEF RecoveryInv, RecoveryTypeOK, OpInv, TypeOK, StoreType
<1>1. Commit(op.by) /\ op' = NoOp /\ UNCHANGED <<models, uploaded, pointer, cand, faults, artifacts>>
  BY DEF RecoveryCommit
<1>2. /\ StoreType'
      /\ UNCHANGED store \/ (active' = work /\ work' = work /\ lock' = Free)
      /\ lock' # op.by
  BY <1>0, <1>1, CommitShape DEF store
<1>3. faults' \in 0..MaxFaults
  BY <1>0, <1>1 DEF TypeOK
<1>4. CASE UNCHANGED <<job, at, cursor>>
  <2>1. /\ job' \in [Procs -> Jobs \union {None}] /\ at' \in [Procs -> Steps]
        /\ cursor' \in [Procs -> [phase : Phases, i : DOMAIN Targets]]
    BY <1>0, <1>4 DEF TypeOK
  <2> QED
    BY <1>0, <1>1, <1>2, <1>3, <1>4, <2>1, EndKeeps
<1>5. CASE job' = [job EXCEPT ![op.by] = "predict"] /\ Moves(op.by, "base", 1)
  <2>1. "base" \in Phases /\ 1 \in DOMAIN Targets
    BY ModelsAssumption DEF Phases
  <2>2. /\ cursor' \in [Procs -> [phase : Phases, i : DOMAIN Targets]]
        /\ at' \in [Procs -> Steps] /\ at'[op.by] = "look"
        /\ \A q \in Procs \ {op.by} : at'[q] = at[q]
    BY <1>0, <1>5, <2>1, MovesType
  <2>3. job' \in [Procs -> Jobs \union {None}] /\ \A q \in Procs \ {op.by} : job'[q] = job[q]
    BY <1>0, <1>5 DEF TypeOK, Jobs
  <2>4. \A q \in Procs : \/ at'[q] = at[q] /\ job'[q] = job[q]
                         \/ q = op.by /\ at'[q] \in {"open", "look"}
    BY <2>2, <2>3
  <2> QED
    BY <1>0, <1>1, <1>2, <1>3, <2>2, <2>3, <2>4, EndKeeps
<1> QED
  BY <1>4, <1>5 DEF RecoveryCommit

LEMMA AuditKeeps ==
  ASSUME RecoveryInv, Audit
  PROVE  /\ RecoveryKept
         /\ op'.at = "load" => \A t \in T : op'.plan[t].v >= pointer[t] \/ op'.plan[t].v \in active[t]
<1>0. RecoveryTypeOK /\ TypeOK /\ OpInv
  BY DEF RecoveryInv, RecoveryTypeOK
<1>1. /\ op.at = "audit" /\ Recovering
      /\ UNCHANGED <<models, store, uploaded, pointer, cand, faults, artifacts>>
  BY DEF Audit
<1>2. lock # op.by /\ op.by \in Procs /\ op # NoOp
  BY <1>0, <1>1, SessionNow DEF OpInv, NoOp
<1>3. PICK plan \in [T -> UNION {Best(t) : t \in T}] :
         /\ \A t \in T : plan[t] \in Best(t)
         /\ \/ /\ op.cmd = "recover" \/ \A t \in T : plan[t] # NoChoice
               /\ op' = [op EXCEPT !.plan = plan, !.at = "load"]
               /\ UNCHANGED <<job, at, cursor>>
            \/ /\ op.cmd = "resume" /\ \E t \in T : plan[t] = NoChoice
               /\ op' = NoOp
               /\ \/ /\ Len(models) < MaxModels
                     /\ job' = [job EXCEPT ![op.by] = "weekly"] /\ Moves(op.by, "train", 1)
                  \/ UNCHANGED <<job, at, cursor>>
  BY DEF Audit
<1>4. \A t \in T : /\ plan[t] \in [v : 0..MaxModels, from : Sources]
                   /\ plan[t] # NoChoice => plan[t].v \in 1..Len(models)
                   /\ plan[t].v >= pointer[t] \/ plan[t].v \in active[t]
  BY <1>2, <1>3, BestShape
<1>5. CASE op' = [op EXCEPT !.plan = plan, !.at = "load"] /\ UNCHANGED <<job, at, cursor>>
  <2>1. plan \in [T -> [v : 0..MaxModels, from : Sources]]
    BY <1>3, <1>4
  <2>2. /\ op' \in Session /\ op'.by = op.by /\ op'.cmd = op.cmd /\ op'.at = "load" /\ op'.plan = plan
    BY <1>5, <2>1, SessionNow DEF Session, OpSteps
  <2>3. OpInv'
    <3>1. op.cmd # "publish" /\ models' = models /\ at' = at
      BY <1>1, <1>5 DEF Recovering
    <3>2. \A t \in T : Planned(op.plan[t])'
      BY <1>4, <2>2, <3>1 DEF Planned
    <3> QED
      BY <1>0, <1>2, <2>2, <3>1, <3>2 DEF OpInv
  <2>4. files' \subseteq 1..Len(models) /\ faults' \in 0..MaxFaults
    BY <1>0, <1>1 DEF RecoveryTypeOK, TypeOK, artifacts
  <2>5. RecoveryKept
    BY <1>1, <1>5, <2>2, <2>3, <2>4, QuietOperator DEF artifacts
  <2> QED
    BY <1>4, <2>2, <2>5
<1>6. CASE /\ op' = NoOp
           /\ \/ /\ Len(models) < MaxModels
                 /\ job' = [job EXCEPT ![op.by] = "weekly"] /\ Moves(op.by, "train", 1)
              \/ UNCHANGED <<job, at, cursor>>
  <2>1. StoreType' /\ lock' # op.by /\ faults' \in 0..MaxFaults
    BY <1>0, <1>1, <1>2 DEF TypeOK, StoreType, store
  <2>2. op'.at # "load"
    BY <1>6 DEF NoOp
  <2>3. CASE UNCHANGED <<job, at, cursor>>
    <3>1. /\ job' \in [Procs -> Jobs \union {None}] /\ at' \in [Procs -> Steps]
          /\ cursor' \in [Procs -> [phase : Phases, i : DOMAIN Targets]]
      BY <1>0, <2>3 DEF TypeOK
    <3>2. RecoveryKept
      BY <1>1, <1>2, <1>6, <2>1, <2>3, <3>1, EndKeeps
    <3> QED
      BY <2>2, <3>2
  <2>4. CASE job' = [job EXCEPT ![op.by] = "weekly"] /\ Moves(op.by, "train", 1)
    <3>1. "train" \in Phases /\ 1 \in DOMAIN Targets
      BY ModelsAssumption DEF Phases
    <3>2. /\ cursor' \in [Procs -> [phase : Phases, i : DOMAIN Targets]]
          /\ at' \in [Procs -> Steps] /\ at'[op.by] = "open"
          /\ \A q \in Procs \ {op.by} : at'[q] = at[q]
      BY <1>0, <1>2, <2>4, <3>1, MovesType
    <3>3. job' \in [Procs -> Jobs \union {None}] /\ \A q \in Procs \ {op.by} : job'[q] = job[q]
      BY <1>0, <1>2, <2>4 DEF TypeOK, Jobs
    <3>4. \A q \in Procs : \/ at'[q] = at[q] /\ job'[q] = job[q]
                           \/ q = op.by /\ at'[q] \in {"open", "look"}
      BY <3>2, <3>3
    <3>5. RecoveryKept
      BY <1>1, <1>2, <1>6, <2>1, <3>2, <3>3, <3>4, EndKeeps
    <3> QED
      BY <2>2, <3>5
  <2> QED
    BY <1>6, <2>3, <2>4
<1> QED
  BY <1>3, <1>5, <1>6

(* What a publication selects is the active version of each target it was asked for. *)
LEMMA SelectKeeps ==
  ASSUME RecoveryInv, Select
  PROVE  RecoveryKept
<1>0. RecoveryTypeOK /\ TypeOK /\ OpInv /\ RowsInv
  BY DEF RecoveryInv, RecoveryTypeOK
<1>1. op.at = "audit" /\ op.cmd = "publish" /\ UNCHANGED <<vars, artifacts>>
  BY DEF Select
<1>2. lock # op.by /\ op.by \in Procs /\ op # NoOp
  BY <1>0, <1>1, SessionNow DEF OpInv, NoOp
<1>3. files' \subseteq 1..Len(models) /\ faults' \in 0..MaxFaults
  BY <1>0, <1>1 DEF RecoveryTypeOK, TypeOK, artifacts, vars
<1>4. PICK requested \in SUBSET T \ {{}} :
        op' = IF \A t \in requested : \E v \in active[t] : Publishable(v)
              THEN [op EXCEPT !.at = "binary",
                        !.plan = [t \in T |-> IF t \in requested
                                              THEN [v |-> CHOOSE v \in active[t] : TRUE, from |-> "database"]
                                              ELSE NoChoice]]
              ELSE NoOp
  BY DEF Select
<1>5. CASE op' = NoOp
  BY <1>1, <1>2, <1>3, <1>5, Resting, QuietOperator DEF vars, artifacts
<1>6. CASE \A t \in requested : \E v \in active[t] : Publishable(v)
  <2> DEFINE Chosen(t) == CHOOSE v \in active[t] : TRUE
             plan == [t \in T |-> IF t \in requested THEN [v |-> Chosen(t), from |-> "database"]
                                  ELSE NoChoice]
  <2>1. ASSUME NEW t \in requested PROVE Selected(Chosen(t)) /\ Chosen(t) \in 0..MaxModels
    <3>1. PICK v \in active[t] : Publishable(v)
      BY <1>6
    <3>2. t \in T /\ Single(active[t]) /\ Row(v)
      BY <1>0, <3>1 DEF RowsInv
    <3>3. Chosen(t) = v
      BY <3>1, <3>2 DEF Single
    <3>4. models[v].by = "train" /\ models[v].approved
      BY <3>1 DEF Publishable
    <3>5. v \in 0..MaxModels
      BY <1>0, <3>2, VersionNumbers DEF Row
    <3> QED
      BY <3>2, <3>3, <3>4, <3>5 DEF Selected
  <2>2. op' = [op EXCEPT !.at = "binary", !.plan = plan]
    BY <1>4, <1>6
  <2>3. \A t \in T : plan[t] = IF t \in requested THEN [v |-> Chosen(t), from |-> "database"] ELSE NoChoice
    OBVIOUS
  <2>4. plan \in [T -> [v : 0..MaxModels, from : Sources]]
    BY <2>1, NoSession DEF Sources
  <2> HIDE DEF plan, Chosen
  <2>5. /\ op' \in Session /\ op'.by = op.by /\ op'.cmd = "publish" /\ op'.at = "binary" /\ op'.plan = plan
    BY <1>1, <2>2, <2>4, SessionNow DEF Session, OpSteps
  <2>6. ASSUME NEW t \in T PROVE Planned(op.plan[t])'
    <3>1. CASE t \in requested
      <4>1. PICK v : v = Chosen(t) /\ Selected(v)
        BY <2>1, <3>1
      <4>2. PICK c : c = [v |-> v, from |-> "database"] /\ c = plan[t]
        BY <2>3, <3>1, <4>1
      <4>3. c.v = v /\ v \in 1..Len(models)
        BY <4>1, <4>2 DEF Selected, Row
      <4>4. op'.plan[t] = c
        BY <2>5, <4>2
      <4> QED
        BY <1>1, <4>1, <4>3, <4>4 DEF Planned, Selected, Row, vars, artifacts
    <3>2. CASE t \notin requested
      BY <2>3, <2>5, <3>2 DEF Planned
    <3> QED
      BY <3>1, <3>2
  <2>7. OpInv'
    BY <1>0, <1>1, <1>2, <2>5, <2>6 DEF OpInv, Recovering, vars, store
  <2> QED
    BY <1>1, <1>3, <2>5, <2>7, QuietOperator DEF vars, artifacts
<1> QED
  BY <1>4, <1>5, <1>6

LEMMA OperatorKeeps ==
  ASSUME RecoveryInv, OpStep
  PROVE  RecoveryKept
<1>0. faults \in 0..MaxFaults /\ files \subseteq 1..Len(models) /\ OpInv
  BY DEF RecoveryInv, RecoveryTypeOK, TypeOK
<1>1. CASE NotRequested
  <2>1. op.at # "idle" /\ OpNext(FALSE) /\ UNCHANGED <<vars, artifacts>>
    BY <1>1 DEF NotRequested
  <2> QED
    BY <1>0, <2>1, PassedOver DEF vars
<1>2. CASE PublicationCommit
  <2>1. op.cmd = "publish" /\ op' = NoOp /\ UNCHANGED <<vars, artifacts>>
    BY <1>2 DEF PublicationCommit
  <2> QED
    BY <1>0, <2>1, Resting, QuietOperator DEF OpInv, vars, artifacts
<1>3. CASE OpFails
  <2>1. op.at # "idle" /\ faults' \in 0..MaxFaults
    BY <1>3, OneMoreFault DEF OpFails
  <2>2. CASE Recovering
    <3>1. OpNext(TRUE) /\ UNCHANGED <<models, store, uploaded, pointer, job, at, cursor, cand, artifacts>>
      BY <1>3, <2>2 DEF OpFails
    <3> QED
      BY <2>1, <3>1, PassedOver
  <2>3. CASE ~Recovering
    BY <1>3, <2>1, <2>3, RollbackKeeps DEF OpFails, NoOp
  <2> QED
    BY <2>2, <2>3
<1>4. CASE OpTimesOut
  <2>1. CASE op.at = "row" /\ OpNext(TRUE) /\ UNCHANGED <<vars, artifacts>>
    BY <1>0, <2>1, PassedOver DEF vars
  <2>2. CASE op.at = "commit" /\ OpRollsBack /\ UNCHANGED faults
    BY <1>0, <2>2, RollbackKeeps DEF NoOp
  <2> QED
    BY <1>4, <2>1, <2>2 DEF OpTimesOut
<1>5. CASE OpKilled
  BY <1>5, OneMoreFault, RollbackKeeps DEF OpKilled
<1> QED
  BY <1>1, <1>2, <1>3, <1>4, <1>5, AuditKeeps, LoadKeeps, PutKeeps, RecoverRowKeeps, OpPointerKeeps,
     RecoveryCommitKeeps, SelectKeeps, PublishKeeps
  DEF OpStep

(* A new machine has no rows and no files; the objects and the pointers stay. *)
LEMMA LostKeeps ==
  ASSUME RecoveryInv, Lost
  PROVE  RecoveryInv'
<1>0. RecoveryTypeOK /\ TypeOK
  BY DEF RecoveryInv, RecoveryTypeOK
<1>1. /\ faults' \in 0..MaxFaults /\ op' = NoOp /\ op = NoOp
      /\ active' = [t \in T |-> {}] /\ work' = active' /\ files' = {}
      /\ UNCHANGED <<models, lock, uploaded, pointer, job, at, cursor, cand, of, since, card, row, op>>
  BY OneMoreFault DEF Lost
<1>2. RecoveryTypeOK'
  BY <1>0, <1>1 DEF RecoveryTypeOK, TypeOK
<1>3. VersionsStay
  <2>1. ModelsGrow /\ \A w \in Versions : uploaded[w] <= uploaded[w]
    BY <1>0, <1>1, SameModels DEF TypeOK
  <2> QED
    BY <1>0, <1>1, <2>1 DEF VersionsStay, RecoveryInv, ObjectsBounded
<1>4. RowsInv'
  BY <1>1 DEF RowsInv, Single
<1>5. PointersNamed' /\ ObjectsBounded'
  BY <1>1, <1>2, <1>3, PointersStay DEF VersionsStay
<1>6. OpInv'
  BY <1>1, Resting
<1>7. ASSUME NEW q \in Procs PROVE JobInv(q)'
  <2>1. at[q] = "idle" /\ op'.by # q => lock' # q
    BY <1>1 DEF RecoveryInv, JobInv
  <2> QED
    BY <1>1, <1>2, <1>3, <2>1, JobStays
<1> QED
  BY <1>2, <1>4, <1>5, <1>6, <1>7 DEF RecoveryInv

LEMMA RecoveryInitial == RecoveryInit => RecoveryInv
<1> SUFFICES ASSUME RecoveryInit PROVE RecoveryInv
  OBVIOUS
<1>1. TypeOK
  BY InitTypeOK DEF RecoveryInit
<1>2. /\ models = <<>> /\ Len(models) = 0
      /\ \A v \in Versions : uploaded[v] = 0
      /\ \A t \in T : active[t] = {} /\ work[t] = {} /\ pointer[t] = NoVersion
      /\ \A p \in Procs : at[p] = "idle" /\ lock # p
  BY ModelsAssumption DEF RecoveryInit, Init
<1>3. /\ of = <<>> /\ files = {} /\ since = [v \in Versions |-> 0]
      /\ card = [v \in Versions |-> "training"] /\ row = [v \in Versions |-> "own"] /\ op = NoOp
  BY DEF RecoveryInit
<1>4. RecoveryTypeOK
  <2>1. of \in Seq(T) /\ Len(of) = Len(models)
    BY <1>2, <1>3
  <2>2. since \in [Versions -> 0..MaxModels] /\ card \in [Versions -> Cards] /\ row \in [Versions -> Metrics]
    BY <1>3, ModelsAssumption DEF Cards, Metrics
  <2> QED
    BY <1>1, <1>3, <2>1, <2>2, NoSession DEF RecoveryTypeOK, Session
<1>5. RowsInv /\ ObjectsBounded /\ PointersNamed
  BY <1>2 DEF RowsInv, Single, ObjectsBounded, Objects, PointersNamed
<1>6. OpInv
  <2>1. op.at = "idle" /\ op.cmd = "none" /\ op.plan = [t \in T |-> NoChoice]
    BY <1>3 DEF NoOp, None
  <2>2. \A t \in T : op.plan[t] = NoChoice
    BY <2>1
  <2> QED
    BY <1>3, <2>1, <2>2 DEF OpInv, Planned, Recovering
<1>7. \A p \in Procs : JobInv(p)
  BY <1>2 DEF JobInv, Making
<1> QED
  BY <1>4, <1>5, <1>6, <1>7 DEF RecoveryInv

LEMMA RecoveryStep ==
  ASSUME RecoveryInv, RecoveryNext
  PROVE  RecoveryInv' /\ (Lost \/ RecoveryKept)
  BY JobKeeps, OperateKeeps, OperatorKeeps, LostKeeps DEF RecoveryNext, RecoveryKept

LEMMA RecoveryStutter ==
  ASSUME RecoveryInv, UNCHANGED allVars
  PROVE  RecoveryInv'
<1> USE DEF RecoveryInv, allVars, vars, store, artifacts
<1>1. RecoveryTypeOK'
  BY DEF RecoveryTypeOK, TypeOK
<1>2. RowsInv' /\ ObjectsBounded' /\ PointersNamed'
  BY DEF RowsInv, Row, ObjectsBounded, PointersNamed, Named
<1>3. OpInv'
  BY DEF OpInv, Planned, Selected, Row, Choice, Recovering
<1>4. \A p \in Procs : JobInv(p)'
  BY DEF JobInv, Named, Row
<1> QED
  BY <1>1, <1>2, <1>3, <1>4

-----------------------------------------------------------------------------
LEMMA AlwaysRecoveryInv == RecoverySpec => []RecoveryInv
<1>1. RecoveryInv /\ [RecoveryNext]_allVars => RecoveryInv'
  BY RecoveryStep, RecoveryStutter
<1> QED
  BY <1>1, RecoveryInitial, PTL DEF RecoverySpec

(* recovery.py, resume.py and publish.py beside the jobs: types, at most one    *)
(* active model of a target, and complete versions behind the pointers.         *)
THEOREM RecoverySafeHolds == RecoverySpec => []RecoverySafe
<1>1. RecoveryInv => RecoverySafe
  <2>1. RowsInv => OneActive
    BY SingleIsSmall DEF RowsInv, OneActive
  <2>2. PointersNamed => PointerComplete
    BY DEF PointersNamed, Named, PointerComplete
  <2> QED
    BY <2>1, <2>2 DEF RecoveryInv, RecoverySafe
<1> QED
  BY <1>1, AlwaysRecoveryInv, PTL

(* A target that has an active model keeps one, whatever becomes of a recovery *)
(* or of a publication; only a new machine begins without rows.                *)
THEOREM RecoveryNeverLoses == RecoverySpec => RecoveryKeepsModels
<1> DEFINE A == Lost \/ \A t \in T : active[t] # {} => active'[t] # {}
<1>1. RecoveryInv /\ [RecoveryNext]_allVars => [A]_allVars
  BY RecoveryStep DEF RecoveryKept
<1> QED
  BY <1>1, AlwaysRecoveryInv, PTL DEF RecoverySpec, RecoveryKeepsModels

(* The audit of recovery.py, which asks neither the gate nor the rows, never    *)
(* chooses a version before the pointer's, except the one that is active.       *)
THEOREM RecoveryNotBehindPointer == RecoverySpec => NeverBehindPointer
<1> DEFINE A == op.at = "audit" /\ op'.at = "load" =>
                  \A t \in T : op'.plan[t].v >= pointer[t] \/ op'.plan[t].v \in active[t]
<1>1. RecoveryInv /\ [RecoveryNext]_allVars => [A]_allVars
  <2> SUFFICES ASSUME RecoveryInv, RecoveryNext, op.at = "audit", op'.at = "load"
               PROVE  \A t \in T : op'.plan[t].v >= pointer[t] \/ op'.plan[t].v \in active[t]
    OBVIOUS
  <2>1. ~Lost /\ \A p \in Procs : ~Job(p) /\ ~Operate(p)
    BY DEF Lost, Job, Operate, NoOp
  <2>2. CASE Audit
    BY <2>2, AuditKeeps
  <2>3. CASE Select
    BY <2>3, SessionNow DEF Select, NoOp, Session
  <2>4. CASE OpKilled
    BY <2>4 DEF OpKilled, OpRollsBack, NoOp
  <2> QED
    BY <2>1, <2>2, <2>3, <2>4
    DEF RecoveryNext, OpStep, Load, PutBinary, PutCard, PutMetrics, RecoverRow, WriteRow, OpPointer,
        RecoveryCommit, NotRequested, PublishBinary, PublishCard, PublishMetrics, Publish,
        PublicationCommit, OpFails, OpTimesOut
<1> QED
  BY <1>1, AlwaysRecoveryInv, PTL DEF RecoverySpec, NeverBehindPointer

(* A pointer that a publication moves names a trained model that the gate       *)
(* approved, although recovery has no gate and rewrites what a row says.        *)
THEOREM OnlyApprovedPublished == RecoverySpec => PublishedIsApproved
<1> DEFINE A == op.cmd = "publish" /\ op' # op =>
                  \A t \in T : pointer'[t] # pointer[t] =>
                    models[pointer'[t]].by = "train" /\ models[pointer'[t]].approved
<1>1. RecoveryInv /\ [RecoveryNext]_allVars => [A]_allVars
  <2> SUFFICES ASSUME RecoveryInv, RecoveryNext, op.cmd = "publish", op' # op,
                      NEW t \in T, pointer'[t] # pointer[t]
               PROVE  models[pointer'[t]].by = "train" /\ models[pointer'[t]].approved
    OBVIOUS
  <2>1. ~Lost /\ \A p \in Procs : ~Job(p) /\ ~Operate(p)
    BY DEF Lost, Job, Operate, NoOp, None
  <2>2. OpPointer
    BY <2>1
    DEF RecoveryNext, OpStep, Audit, Load, PutBinary, PutCard, PutMetrics, PutMissing, RecoverRow, WriteRow,
        RecoveryCommit, Select, NotRequested, PublishBinary, PublishCard, PublishMetrics, Publish,
        PublicationCommit, OpFails, OpTimesOut, OpKilled, OpRollsBack, Recovering, vars
  <2>3. PICK v : v = Choice.v /\ pointer' = [pointer EXCEPT ![Targets[op.i]] = v]
    BY <2>2 DEF OpPointer
  <2>4. pointer'[t] = v
    BY <2>3 DEF RecoveryInv, RecoveryTypeOK, TypeOK
  <2>5. Selected(v)
    <3>1. Targets[op.i] \in T /\ Choice # NoChoice
      BY <2>2, SessionNow DEF OpPointer, RecoveryInv, OpInv
    <3>2. Planned(Choice)
      BY <3>1 DEF RecoveryInv, OpInv, Choice
    <3> QED
      BY <2>3, <3>1, <3>2 DEF Planned
  <2> QED
    BY <2>4, <2>5 DEF Selected
<1> QED
  BY <1>1, AlwaysRecoveryInv, PTL DEF RecoverySpec, PublishedIsApproved
===============================================================================
