--------------------------- MODULE AutomationProofs ---------------------------
(***************************************************************************)
(* Proof that run.json never calls a stage complete whose work was not     *)
(* done since the automation run began, for any number of controllers,     *)
(* stages and children.                                                    *)
(*                                                                         *)
(* Safe alone is not inductive: run.json is written from the memory of a   *)
(* controller, which learns of a child from its outcome, its progress file *)
(* or a success noted when it was adopted.  The invariant says of each of  *)
(* those what it is worth.                                                 *)
(***************************************************************************)
EXTENDS Automation, TLAPS, FiniteSetTheorems

\* A document claims nothing that was not done since it began.
Truthful(d) ==
    /\ d.since <= now
    /\ \A s \in Stages : d.stages[s] = "success" => done[s] >= d.since
    /\ d.status = "success" => \A s \in Stages : d.stages[s] \in Completed

Begins == {"off", "check", "claim", "preflight", "refused"}

\* The child a controller waits for does its stage, and was started for this run.
Follows(x) ==
    /\ x.i \in Stages
    /\ x.child \in Slots
    /\ child[x.child].job = x.i
    /\ child[x.child].began >= x.mem.since

Lawful(x) ==
    /\ Truthful(x.mem)
    /\ x.i >= 1
    /\ \A s \in Stages : s < x.i => x.mem.stages[s] \in Completed
    /\ x.pc \in Begins => x.i = 1
    /\ x.pc \in {"adopted", "poll"} => Follows(x)
    /\ x.pc = "adopted" /\ x.ok => files[x.i] >= x.mem.since

\* A child that shows success has done its work.
Earned(k) ==
    k.note = "success" \/ k.outcome \in {"success", "partial"} => done[k.job] >= k.began

FilesAreWork == \A s \in Stages : files[s] <= done[s]

AutomationInv ==
    /\ TypeOK
    /\ Truthful(run)
    /\ FilesAreWork
    /\ \A r \in Runners : Lawful(ctl[r])
    /\ \A c \in Slots : Earned(child[c])

-----------------------------------------------------------------------------
(* Types of the records.                                                   *)

Marks == {"open"} \cup Completed

Controllers ==
    [pc : {"off", "check", "claim"} \cup InControl \cup Over, resume : BOOLEAN, mem : Docs,
     i : Nat, child : Slots \cup {NoChild}, back : {"stage", "again"}, ok : BOOLEAN,
     seen : BOOLEAN]

Notes == TerminalNotes \cup {"none", "running", "partial_success", "skipped_locked"}

Children ==
    [pc : {"gone", "started", "busy", "idle"}, job : Stages, began : Nat, note : Notes,
     outcome : {"none", "success", "failed", "partial", "refused", "locked"}]

\* The stages are an interval from 1 and there is one.
LEMMA StagesAreNumbers ==
    /\ Stages \subseteq Nat \ {0}
    /\ 1 \in Stages
    /\ \A i \in Nat : i >= 1 /\ i \notin Stages => \A s \in Stages : s < i
<1>1. Cardinality(Stages) \in Nat
  BY AutomationAssumption, FS_CardinalityType
<1>2. Stages = 1..Cardinality(Stages) /\ Stages # {}
  BY AutomationAssumption
<1>3. Cardinality(Stages) >= 1
  BY <1>1, <1>2
<1> QED
  BY <1>1, <1>2, <1>3

\* The empty document, a controller that is not in control and a vacant place.
LEMMA Blanks ==
    /\ Pending \in [Stages -> Marks]
    /\ \A s \in Stages : Pending[s] = "open"
    /\ NoDoc \in Docs
    /\ NoDoc.since = 0 /\ NoDoc.status = "none" /\ NoDoc.stages = Pending
    /\ Off \in Controllers
    /\ Vacant \in Children
<1>1. Pending \in [Stages -> Marks] /\ \A s \in Stages : Pending[s] = "open"
  BY DEF Pending, Marks
<1>2. NoDoc \in Docs /\ NoDoc.since = 0 /\ NoDoc.status = "none" /\ NoDoc.stages = Pending
  BY <1>1 DEF NoDoc, Doc, Docs, Marks
<1>3. Off \in Controllers
  BY <1>2 DEF Off, Controllers, InControl, Over
<1>4. Vacant \in Children
  BY StagesAreNumbers DEF Vacant, Children, Notes, TerminalNotes
<1> QED
  BY <1>1, <1>2, <1>3, <1>4

-----------------------------------------------------------------------------
(* What time, and the work that is done, leave true.                       *)

Grows ==
    /\ now <= now'
    /\ \A s \in Stages : done[s] <= done'[s] /\ files[s] <= files'[s]

LEMMA TruthfulLasts ==
    ASSUME TypeOK, TypeOK', Grows, NEW d \in Docs, Truthful(d)
    PROVE  Truthful(d)'
<1>1. d.since \in Nat /\ now \in Nat /\ now' \in Nat
  BY DEF TypeOK, Docs
<1>2. ASSUME NEW s \in Stages, d.stages[s] = "success" PROVE done'[s] >= d.since
  <2>1. done[s] \in Nat /\ done'[s] \in Nat /\ done[s] <= done'[s]
    BY DEF TypeOK, Grows
  <2>2. done[s] >= d.since
    BY <1>2 DEF Truthful
  <2> QED
    BY <1>1, <2>1, <2>2
<1>3. d.since <= now'
  BY <1>1 DEF Grows, Truthful
<1> QED
  BY <1>2, <1>3 DEF Truthful

\* The child a controller follows keeps what it was started for.
StillFollowed(x) ==
    x.pc \in {"adopted", "poll"} =>
        /\ child'[x.child].job = child[x.child].job
        /\ child'[x.child].began = child[x.child].began

LEMMA LawfulLasts ==
    ASSUME TypeOK, TypeOK', Grows, NEW x \in Controllers, Lawful(x), StillFollowed(x)
    PROVE  Lawful(x)'
<1>1. Truthful(x.mem)'
  BY TruthfulLasts DEF Lawful, Controllers
<1>2. x.pc \in {"adopted", "poll"} => Follows(x)'
  BY DEF Lawful, Follows, StillFollowed
<1>3. ASSUME x.pc = "adopted", x.ok PROVE files'[x.i] >= x.mem.since
  <2>1. x.i \in Stages /\ files[x.i] >= x.mem.since
    BY <1>3 DEF Lawful, Follows
  <2>2. files[x.i] \in Nat /\ files'[x.i] \in Nat /\ files[x.i] <= files'[x.i]
    BY <2>1 DEF TypeOK, Grows
  <2>3. x.mem.since \in Nat
    BY DEF Controllers, Docs
  <2> QED
    BY <2>1, <2>2, <2>3
<1> QED
  BY <1>1, <1>2, <1>3 DEF Lawful

LEMMA EarnedLasts ==
    ASSUME TypeOK, TypeOK', Grows, NEW k \in Children, Earned(k)
    PROVE  Earned(k)'
<1>1. k.job \in Stages /\ k.began \in Nat
  BY DEF Children
<1>2. done[k.job] \in Nat /\ done'[k.job] \in Nat /\ done[k.job] <= done'[k.job]
  BY <1>1 DEF TypeOK, Grows
<1> QED
  BY <1>1, <1>2 DEF Earned

\* Nothing done and no time passing is also growth.
LEMMA Still ==
    ASSUME TypeOK, UNCHANGED <<done, files, now>>
    PROVE  Grows
BY DEF TypeOK, Grows

-----------------------------------------------------------------------------
(* A step of one controller, whatever it does to the children.             *)

LEMMA OthersStayLawful ==
    ASSUME AutomationInv, TypeOK', Grows,
           NEW q \in Runners, ctl'[q] = ctl[q], StillFollowed(ctl[q])
    PROVE  Lawful(ctl[q])'
<1>1. ctl[q] \in Controllers /\ Lawful(ctl[q])
  BY DEF AutomationInv, TypeOK, Controllers
<1> PICK x \in Controllers : x = ctl[q]
  BY <1>1
<1>2. TypeOK /\ Lawful(x) /\ StillFollowed(x)
  BY <1>1 DEF AutomationInv
<1>3. Lawful(x)'
  BY <1>2, LawfulLasts
<1>4. ctl'[q] = x
  OBVIOUS
<1> QED
  BY <1>3, <1>4 DEF Lawful, Truthful, Follows

LEMMA ControllerMoves ==
    ASSUME AutomationInv, NEW r \in Runners, NEW x \in Controllers, NEW d \in Docs,
           ctl' = [ctl EXCEPT ![r] = x], run' = d, lock' \in Runners \cup {NoRunner},
           child' \in [Slots -> Children], lease' \in Slots \cup {NoChild},
           now' \in Nat, now <= now', UNCHANGED <<recent, done, files, foreign>>,
           \A q \in Runners \ {r} : StillFollowed(ctl[q]),
           \A c \in Slots : Earned(child'[c]),
           Truthful(d)', Lawful(x)'
    PROVE  AutomationInv'
<1>1. TypeOK'
  <2>1. ctl \in [Runners -> Controllers]
    BY DEF AutomationInv, TypeOK, Controllers
  <2>2. ctl' \in [Runners -> Controllers]
    BY <2>1
  <2> QED
    BY <2>2 DEF AutomationInv, TypeOK, Controllers, Children, Notes
<1>2. Grows
  BY DEF Grows, AutomationInv, TypeOK
<1>3. Truthful(run)'
  BY DEF Truthful
<1>4. FilesAreWork'
  BY DEF FilesAreWork, AutomationInv
<1>5. ASSUME NEW q \in Runners PROVE Lawful(ctl[q])'
  <2>0. ctl \in [Runners -> Controllers]
    BY DEF AutomationInv, TypeOK, Controllers
  <2>1. CASE q = r
    <3>1. ctl'[q] = x
      BY <2>0, <2>1
    <3> QED
      BY <3>1 DEF Lawful, Truthful, Follows
  <2>2. CASE q # r
    <3>1. ctl'[q] = ctl[q] /\ StillFollowed(ctl[q])
      BY <2>0, <2>2
    <3> QED
      BY <3>1, <1>1, <1>2, OthersStayLawful
  <2> QED
    BY <2>1, <2>2
<1>6. ASSUME NEW c \in Slots PROVE Earned(child[c])'
  BY DEF Earned
<1> QED
  BY <1>1, <1>3, <1>4, <1>5, <1>6 DEF AutomationInv

\* The same for a controller that leaves the children and the clock alone.
LEMMA ControllerAlone ==
    ASSUME AutomationInv, NEW r \in Runners, NEW x \in Controllers, NEW d \in Docs,
           ctl' = [ctl EXCEPT ![r] = x], run' = d, lock' \in Runners \cup {NoRunner},
           UNCHANGED <<child, lease, recent, done, files, now, foreign>>,
           Truthful(d), Lawful(x)
    PROVE  AutomationInv'
<1>1. child' \in [Slots -> Children] /\ lease' \in Slots \cup {NoChild} /\ now' \in Nat
      /\ now <= now'
  BY DEF AutomationInv, TypeOK, Children, Notes
<1>2. \A q \in Runners \ {r} : StillFollowed(ctl[q])
  BY DEF StillFollowed
<1>3. \A c \in Slots : Earned(child'[c])
  BY DEF AutomationInv
<1>4. Truthful(d)'
  BY DEF Truthful
<1>5. Lawful(x)'
  BY DEF Lawful, Truthful, Follows
<1> QED
  BY <1>1, <1>2, <1>3, <1>4, <1>5, ControllerMoves

-----------------------------------------------------------------------------
(* Children that are started, and children that are forgotten.             *)

LEMMA SpawnKeeps ==
    ASSUME AutomationInv, NEW c \in Slots, NEW s \in Stages, Spawn(c, s)
    PROVE  /\ child' \in [Slots -> Children]
           /\ \A q \in Runners : StillFollowed(ctl[q])
           /\ \A k \in Slots : Earned(child'[k])
           /\ child'[c].job = s /\ child'[c].began = now
<1> DEFINE new == [pc |-> IF s \in Leased THEN "started" ELSE "busy", job |-> s, began |-> now,
                   note |-> IF s \in Reports THEN "running" ELSE "none", outcome |-> "none"]
<1>1. new \in Children
  BY DEF AutomationInv, TypeOK, Children, Notes
<1>2. new.job = s /\ new.began = now /\ new.note # "success" /\ new.outcome = "none"
  OBVIOUS
<1>3. child' = [child EXCEPT ![c] = new] /\ c \in Free
  BY DEF Spawn
<1> HIDE DEF new
<1>4. child \in [Slots -> Children]
  BY DEF AutomationInv, TypeOK, Children, Notes
<1>5. child' \in [Slots -> Children] /\ child'[c] = new
      /\ \A k \in Slots : k # c => child'[k] = child[k]
  BY <1>1, <1>3, <1>4
<1>6. \A q \in Runners : ctl[q].child # c
  BY <1>3 DEF Free
<1>7. ASSUME NEW q \in Runners PROVE StillFollowed(ctl[q])
  <2>1. Lawful(ctl[q])
    BY DEF AutomationInv
  <2> QED
    BY <2>1, <1>5, <1>6 DEF StillFollowed, Lawful, Follows
<1>8. ASSUME NEW k \in Slots PROVE Earned(child'[k])
  <2>1. CASE k = c
    BY <2>1, <1>2, <1>5 DEF Earned
  <2>2. CASE k # c
    BY <2>2, <1>5 DEF AutomationInv
  <2> QED
    BY <2>1, <2>2
<1> QED
  BY <1>2, <1>5, <1>7, <1>8

LEMMA ForgetKeeps ==
    ASSUME AutomationInv, NEW r \in Runners, NEW c \in Slots, child' = Forget(r, c)
    PROVE  /\ child' \in [Slots -> Children]
           /\ \A q \in Runners \ {r} : StillFollowed(ctl[q])
           /\ \A k \in Slots : Earned(child'[k])
<1> DEFINE kept == [child[c] EXCEPT !.pc = "gone"]
           shared == \E q \in Runners \ {r} : ctl[q].child = c
           new == IF shared THEN kept ELSE Vacant
<1>1. child \in [Slots -> Children]
  BY DEF AutomationInv, TypeOK, Children, Notes
<1>2. kept \in Children /\ kept.job = child[c].job /\ kept.began = child[c].began
      /\ kept.note = child[c].note /\ kept.outcome = child[c].outcome
  BY <1>1 DEF Children
<1>3. child' = [child EXCEPT ![c] = new]
  BY DEF Forget
<1> HIDE DEF kept
<1>4. new \in Children
  BY <1>2, Blanks
<1>5. ~shared => new = Vacant
  OBVIOUS
<1>6. shared => new = kept
  OBVIOUS
<1> HIDE DEF new
<1>7. child' \in [Slots -> Children] /\ child'[c] = new
      /\ \A k \in Slots : k # c => child'[k] = child[k]
  BY <1>1, <1>3, <1>4
<1>8. ASSUME NEW q \in Runners \ {r} PROVE StillFollowed(ctl[q])
  <2>1. Lawful(ctl[q])
    BY DEF AutomationInv
  <2>2. CASE ctl[q].child = c
    BY <2>1, <2>2, <1>2, <1>6, <1>7 DEF StillFollowed
  <2>3. CASE ctl[q].child # c
    BY <2>1, <2>3, <1>7 DEF StillFollowed, Lawful, Follows
  <2> QED
    BY <2>2, <2>3
<1>9. ASSUME NEW k \in Slots PROVE Earned(child'[k])
  <2>1. CASE k = c /\ shared
    BY <2>1, <1>2, <1>6, <1>7 DEF Earned, AutomationInv
  <2>2. CASE k = c /\ ~shared
    BY <2>2, <1>5, <1>7 DEF Earned, Vacant
  <2>3. CASE k # c
    BY <2>3, <1>7 DEF AutomationInv
  <2> QED
    BY <2>1, <2>2, <2>3
<1> QED
  BY <1>7, <1>8, <1>9

-----------------------------------------------------------------------------
(* What a controller becomes.                                              *)

\* A controller that waits for no child asks nothing of the children.
LEMMA RestingStaysLawful ==
    ASSUME NEW x \in Controllers, Lawful(x), x.pc \notin {"adopted", "poll"},
           UNCHANGED <<done, now>>
    PROVE  Lawful(x)'
BY DEF Lawful, Truthful

LEMMA CompleteIsLawful ==
    ASSUME AutomationInv, NEW r \in Runners, NEW status \in Completed,
           ctl[r].i \in Stages, Complete(r, status),
           status = "success" => done[ctl[r].i] >= ctl[r].mem.since
    PROVE  \E x \in Controllers :
              /\ ctl' = [ctl EXCEPT ![r] = x] /\ run' = x.mem /\ x.mem \in Docs
              /\ x.pc = "stage" /\ Truthful(x.mem) /\ Lawful(x)
<1> DEFINE s == ctl[r].i
           m == ctl[r].mem
           doc == [m EXCEPT !.stages[s] = status]
           x == [ctl[r] EXCEPT !.pc = "stage", !.i = @ + 1, !.child = NoChild, !.seen = FALSE,
                               !.ok = FALSE, !.back = "stage", !.mem.stages[ctl[r].i] = status]
<1>1. ctl[r] \in Controllers /\ Lawful(ctl[r]) /\ m \in Docs /\ s \in Nat
  BY DEF AutomationInv, TypeOK, Controllers
<1>2. status \in Marks
  BY DEF Marks
<1>3. m.stages \in [Stages -> Marks]
  BY <1>1 DEF Docs, Marks
<1>4. /\ doc \in Docs /\ doc.since = m.since /\ doc.status = m.status
      /\ doc.stages = [m.stages EXCEPT ![s] = status]
  BY <1>1, <1>2, <1>3 DEF Docs, Marks
<1>5. x = [ctl[r] EXCEPT !.pc = "stage", !.i = s + 1, !.child = NoChild, !.seen = FALSE,
                         !.ok = FALSE, !.back = "stage", !.mem = doc]
  BY <1>1, Zenon DEF Controllers
<1> HIDE DEF doc
<1>7. ctl' = [ctl EXCEPT ![r] = x] /\ run' = x.mem
  BY DEF Complete, Save, Stage
<1> HIDE DEF x
<1>6. /\ x \in Controllers /\ x.pc = "stage" /\ x.i = s + 1 /\ x.mem = doc
  <2> DEFINE k == ctl[r]
             n == s + 1
  <2>1. k \in Controllers /\ n \in Nat /\ doc \in Docs
    BY <1>1, <1>4
  <2>2. x = [k EXCEPT !.pc = "stage", !.i = n, !.child = NoChild, !.seen = FALSE,
                      !.ok = FALSE, !.back = "stage", !.mem = doc]
    BY <1>5
  <2> HIDE DEF k, n
  <2>3. "stage" \in {"off", "check", "claim"} \cup InControl \cup Over
    BY DEF InControl
  <2>4. x \in Controllers /\ x.pc = "stage" /\ x.i = n /\ x.mem = doc
    BY <2>1, <2>2, <2>3 DEF Controllers
  <2> QED
    BY <2>4 DEF n
<1>8. Truthful(m) /\ s >= 1 /\ \A t \in Stages : t < s => m.stages[t] \in Completed
  BY <1>1 DEF Lawful
<1>9. \A t \in Stages : doc.stages[t] = IF t = s THEN status ELSE m.stages[t]
  BY <1>3, <1>4
<1>10. Truthful(doc)
  BY <1>4, <1>8, <1>9 DEF Truthful
<1>11. ASSUME NEW t \in Stages, t < s + 1 PROVE doc.stages[t] \in Completed
  <2>1. t \in Nat /\ (t = s \/ t < s)
    BY <1>1, <1>11, StagesAreNumbers
  <2> QED
    BY <2>1, <1>8, <1>9
<1>12. Lawful(x)
  BY <1>1, <1>6, <1>8, <1>10, <1>11 DEF Lawful, Begins
<1> QED
  BY <1>4, <1>6, <1>7, <1>10, <1>12

\* The controller that ends, or whose process dies.
Left(pc) == [Off EXCEPT !.pc = pc]

LEMMA LeftIsLawful ==
    ASSUME AutomationInv, NEW pc \in {"ended", "dead"}
    PROVE  Left(pc) \in Controllers /\ Lawful(Left(pc)) /\ Left(pc).pc = pc
<1> DEFINE x == Left(pc)
<1>1. x \in Controllers /\ x.pc = pc /\ x.i = Off.i /\ x.mem = Off.mem
  BY Blanks DEF Left, Controllers, Over
<1>2. Off.i = 1 /\ Off.mem = NoDoc
  BY DEF Off
<1> HIDE DEF x
<1>3. now \in Nat
  BY DEF AutomationInv, TypeOK
<1>4. Truthful(NoDoc)
  BY <1>3, Blanks DEF Truthful
<1>5. \A s \in Stages : ~(s < 1)
  BY StagesAreNumbers
<1>6. Lawful(x)
  BY <1>1, <1>2, <1>4, <1>5 DEF Lawful
<1> QED
  BY <1>1, <1>6 DEF x

\* A document that is saved as failed claims no more than before.
LEMMA FailedIsTruthful ==
    ASSUME NEW d \in Docs, NEW e, e = [d EXCEPT !.status = "failed"]
    PROVE  e \in Docs /\ (Truthful(d) => Truthful(e))
<1>1. e \in Docs /\ e.since = d.since /\ e.stages = d.stages /\ e.status = "failed"
  BY DEF Docs
<1> QED
  BY <1>1 DEF Truthful

LEMMA FailKeeps ==
    ASSUME AutomationInv, NEW r \in Runners, Fail(r, ctl[r].mem),
           child' \in [Slots -> Children], lease' \in Slots \cup {NoChild},
           UNCHANGED <<now, recent, done, files, foreign>>,
           \A q \in Runners \ {r} : StillFollowed(ctl[q]),
           \A c \in Slots : Earned(child'[c])
    PROVE  AutomationInv'
<1>1. PICK x \in Controllers : x = Left("ended") /\ Lawful(x) /\ x.pc = "ended"
  BY LeftIsLawful
<1>2. ctl[r].mem \in Docs /\ Truthful(ctl[r].mem)
  BY DEF AutomationInv, TypeOK, Lawful
<1>3. PICK m \in Docs : m = ctl[r].mem /\ Truthful(m)
  BY <1>2
<1>4. PICK e : e = [m EXCEPT !.status = "failed"]
  OBVIOUS
<1>5. e \in Docs /\ Truthful(e)
  BY <1>3, <1>4, FailedIsTruthful
<1>6. ctl' = [ctl EXCEPT ![r] = x] /\ run' = e /\ lock' \in Runners \cup {NoRunner}
  BY <1>1, <1>3, <1>4 DEF Fail, EndWith, Left
<1>7. now' \in Nat /\ now <= now'
  BY DEF AutomationInv, TypeOK
<1>8. Lawful(x)'
  BY <1>1, RestingStaysLawful
<1>9. Truthful(e)'
  BY <1>5 DEF Truthful
<1> QED
  BY <1>5, <1>6, <1>7, <1>8, <1>9, ControllerMoves

\* A failure that leaves the children as they are.
LEMMA FailAlone ==
    ASSUME AutomationInv, NEW r \in Runners, Fail(r, ctl[r].mem),
           UNCHANGED <<child, lease, recent, done, files, now, foreign>>
    PROVE  AutomationInv'
<1>1. child' \in [Slots -> Children] /\ lease' \in Slots \cup {NoChild}
  BY DEF AutomationInv, TypeOK, Children, Notes
<1>2. \A q \in Runners \ {r} : StillFollowed(ctl[q])
  BY DEF StillFollowed
<1>3. \A c \in Slots : Earned(child'[c])
  BY DEF AutomationInv
<1> QED
  BY <1>1, <1>2, <1>3, FailKeeps

-----------------------------------------------------------------------------
(* Controllers: start, lock, preflight.                                    *)

LEMMA Controlled ==
    ASSUME AutomationInv, NEW r \in Runners
    PROVE  /\ ctl[r] \in Controllers /\ Lawful(ctl[r])
           /\ run \in Docs /\ Truthful(run)
           /\ lock \in Runners \cup {NoRunner} /\ now \in Nat
BY DEF AutomationInv, TypeOK, Controllers

\* A controller that goes on at another place, with what it knew.
LEMMA StartKeeps ==
    ASSUME AutomationInv, NEW r \in Runners, NEW pc \in {"check", "claim", "preflight", "refused"},
           ctl[r].pc \in Begins, lock' \in Runners \cup {NoRunner},
           ctl' = [ctl EXCEPT ![r].pc = pc],
           UNCHANGED <<run, child, lease, recent, done, files, now, foreign>>
    PROVE  AutomationInv'
<1>1. PICK k \in Controllers : k = ctl[r] /\ Lawful(k)
  BY Controlled
<1>2. pc \in {"off", "check", "claim"} \cup InControl \cup Over
  BY DEF InControl, Over
<1>3. PICK x \in Controllers : x = [k EXCEPT !.pc = pc]
  BY <1>2 DEF Controllers
<1>4. x.pc = pc /\ x.mem = k.mem /\ x.i = k.i
  BY <1>3 DEF Controllers
<1>5. k.pc \in Begins
  BY <1>1
<1>6. Lawful(x)
  BY <1>1, <1>4, <1>5 DEF Lawful, Begins
<1>7. PICK d \in Docs : d = run /\ Truthful(d)
  BY Controlled
<1>8. ctl' = [ctl EXCEPT ![r] = x] /\ run' = d
  BY <1>1, <1>3, <1>7
<1> QED
  BY <1>6, <1>7, <1>8, ControllerAlone

LEMMA StartResumeKeeps ==
    ASSUME AutomationInv, NEW r \in Runners, StartResume(r)
    PROVE  AutomationInv'
<1>1. PICK k \in Controllers : k = ctl[r] /\ Lawful(k)
  BY Controlled
<1>2. PICK d \in Docs : d = run /\ Truthful(d)
  BY Controlled
<1>3. PICK x \in Controllers : x = [k EXCEPT !.pc = "check", !.resume = TRUE, !.mem = d]
  BY DEF Controllers
<1>4. x.pc = "check" /\ x.mem = d /\ x.i = k.i
  BY <1>3 DEF Controllers
<1>5. k.i = 1
  BY <1>1 DEF StartResume, Lawful, Begins
<1>6. \A s \in Stages : ~(s < 1)
  BY StagesAreNumbers
<1>7. Lawful(x)
  BY <1>2, <1>4, <1>5, <1>6 DEF Lawful
<1>8. ctl' = [ctl EXCEPT ![r] = x] /\ run' = d
  BY <1>1, <1>2, <1>3 DEF StartResume
<1> QED
  BY <1>2, <1>7, <1>8, Controlled, ControllerAlone DEF StartResume

LEMMA BeginKeeps ==
    ASSUME AutomationInv, NEW r \in Runners,
           StartFresh(r) \/ LockCheck(r) \/ LockWrite(r)
    PROVE  AutomationInv'
<1>1. lock \in Runners \cup {NoRunner}
  BY Controlled
<1>2. CASE StartFresh(r)
  <2>1. /\ ctl[r].pc \in Begins /\ ctl' = [ctl EXCEPT ![r].pc = "check"]
        /\ lock' \in Runners \cup {NoRunner}
        /\ UNCHANGED <<run, child, lease, recent, done, files, now, foreign>>
    BY <1>1, <1>2 DEF StartFresh, Begins
  <2> QED
    BY <2>1, StartKeeps
<1>3. CASE LockCheck(r)
  <2>1. PICK pc \in {"check", "claim", "preflight", "refused"} :
            /\ ctl[r].pc \in Begins /\ ctl' = [ctl EXCEPT ![r].pc = pc]
            /\ lock' \in Runners \cup {NoRunner}
            /\ UNCHANGED <<run, child, lease, recent, done, files, now, foreign>>
    <3> DEFINE next == IF lock # NoRunner /\ ctl[lock].pc \notin Over THEN "refused" ELSE "claim"
    <3>1. next \in {"check", "claim", "preflight", "refused"}
      OBVIOUS
    <3>2. ctl' = [ctl EXCEPT ![r].pc = next] /\ ctl[r].pc = "check"
          /\ UNCHANGED <<lock, run, child, lease, recent, done, files, now, foreign>>
      BY <1>3 DEF LockCheck
    <3> HIDE DEF next
    <3> QED
      BY <3>1, <3>2, <1>1 DEF Begins
  <2> QED
    BY <2>1, StartKeeps
<1>4. CASE LockWrite(r)
  <2>1. /\ ctl[r].pc \in Begins /\ ctl' = [ctl EXCEPT ![r].pc = "preflight"]
        /\ lock' \in Runners \cup {NoRunner}
        /\ UNCHANGED <<run, child, lease, recent, done, files, now, foreign>>
    BY <1>4 DEF LockWrite, Begins
  <2> QED
    BY <2>1, StartKeeps
<1> QED
  BY <1>2, <1>3, <1>4

\* A step that leaves the children alone keeps what is known of them.
LEMMA AroundController ==
    ASSUME AutomationInv, NEW r \in Runners, UNCHANGED <<child, lease>>
    PROVE  /\ child' \in [Slots -> Children] /\ lease' \in Slots \cup {NoChild}
           /\ \A q \in Runners \ {r} : StillFollowed(ctl[q])
           /\ \A c \in Slots : Earned(child'[c])
BY DEF AutomationInv, TypeOK, Children, Notes, StillFollowed

\* A document of this moment, without stages.
LEMMA FreshIsTruthful ==
    ASSUME TypeOK, NEW status \in {"running", "failed"}, NEW epoch \in BOOLEAN,
           NEW since \in Beginnings, NEW d, d = Doc(status, since, epoch, Pending), now' = since
    PROVE  d \in Docs /\ Truthful(d)'
<1>1. since \in Nat
  BY DEF TypeOK, Beginnings
<1>2. d \in Docs /\ d.status = status /\ d.since = since /\ d.stages = Pending
  BY <1>1, Blanks DEF Doc, Docs, Marks
<1>3. \A s \in Stages : d.stages[s] = "open"
  BY <1>2, Blanks
<1>4. d.since <= now'
  BY <1>1, <1>2
<1> QED
  BY <1>2, <1>3, <1>4 DEF Truthful

LEMMA PreflightDoneKeeps ==
    ASSUME AutomationInv, NEW r \in Runners, PreflightDone(r)
    PROVE  AutomationInv'
<1>1. PICK k \in Controllers : k = ctl[r] /\ Lawful(k)
  BY Controlled
<1>0. PICK since \in Beginnings :
         /\ Save(r, [ctl[r] EXCEPT !.pc = "stage", !.mem = FirstState(r, since)])
         /\ now' = IF ctl[r].resume THEN now ELSE since
  BY DEF PreflightDone
<1>2. now \in Nat /\ now' \in Nat /\ now <= now'
  BY Controlled, <1>0 DEF Beginnings
<1>3. PICK d : d = FirstState(r, since)
  OBVIOUS
<1>4. d \in Docs /\ Truthful(d)'
  <2>1. CASE k.resume
    <3>1. d = [k.mem EXCEPT !.status = "running"] /\ k.mem \in Docs /\ Truthful(k.mem)
      BY <2>1, <1>1, <1>3 DEF FirstState, Controllers, Lawful
    <3>2. d \in Docs /\ d.since = k.mem.since /\ d.stages = k.mem.stages /\ d.status = "running"
      BY <3>1 DEF Docs
    <3>3. UNCHANGED <<done, now>>
      BY <2>1, <1>0, <1>1 DEF PreflightDone
    <3> QED
      BY <3>1, <3>2, <3>3 DEF Truthful
  <2>2. CASE ~k.resume
    <3>1. d = Doc("running", since, TRUE, Pending) /\ now' = since
      BY <2>2, <1>0, <1>1, <1>3 DEF FirstState
    <3> QED
      BY <3>1, FreshIsTruthful DEF AutomationInv
  <2> QED
    BY <2>1, <2>2
<1>5. PICK x : x = [k EXCEPT !.pc = "stage", !.mem = d]
  OBVIOUS
<1>6. "stage" \in {"off", "check", "claim"} \cup InControl \cup Over
  BY DEF InControl
<1>7. x \in Controllers /\ x.pc = "stage" /\ x.mem = d /\ x.i = k.i
  BY <1>4, <1>5, <1>6 DEF Controllers
<1>8. k.i = 1
  BY <1>1 DEF PreflightDone, Lawful, Begins
<1>9. \A s \in Stages : ~(s < 1)
  BY StagesAreNumbers
<1>10. Lawful(x)'
  BY <1>4, <1>7, <1>8, <1>9 DEF Lawful, Begins
<1>11. ctl' = [ctl EXCEPT ![r] = x] /\ run' = d
  BY <1>0, <1>1, <1>3, <1>5, <1>7 DEF Save
<1>12. lock' \in Runners \cup {NoRunner}
  BY Controlled DEF PreflightDone
<1> QED
  BY <1>2, <1>4, <1>7, <1>10, <1>11, <1>12, AroundController, ControllerMoves DEF PreflightDone

LEMMA PreflightFailsKeeps ==
    ASSUME AutomationInv, NEW r \in Runners, PreflightFails(r)
    PROVE  AutomationInv'
<1>1. PICK x \in Controllers : x = Left("ended") /\ Lawful(x) /\ x.pc = "ended"
  BY LeftIsLawful
<1>0. PICK since \in Beginnings : Fail(r, Doc("failed", since, FALSE, Pending)) /\ now' = since
  BY DEF PreflightFails
<1>a. UNCHANGED <<child, lease, recent, done, files, foreign>>
  BY DEF PreflightFails
<1>2. now' = since /\ now' \in Nat /\ now <= now'
  BY Controlled, <1>0 DEF Beginnings
<1>3. PICK m : m = Doc("failed", since, FALSE, Pending)
  OBVIOUS
<1>4. m \in Docs /\ Truthful(m)'
  BY <1>2, <1>3, FreshIsTruthful DEF AutomationInv
<1>5. [m EXCEPT !.status = "failed"] = m
  <2>1. m.status = "failed"
    BY <1>3 DEF Doc
  <2> QED
    BY <2>1, <1>4 DEF Docs
<1>6. /\ ctl' = [ctl EXCEPT ![r] = x] /\ run' = m
      /\ lock' \in Runners \cup {NoRunner}
      /\ UNCHANGED <<child, lease, recent, done, files, foreign>>
  BY <1>0, <1>a, <1>1, <1>3, <1>5 DEF Fail, EndWith, Left
<1>7. Lawful(x)'
  <2>1. Truthful(x.mem)'
    <3>1. x.mem = NoDoc
      BY <1>1, Blanks DEF Left, Off
    <3> QED
      BY <1>2, <3>1, Blanks DEF Truthful
  <2> QED
    BY <1>1, <2>1 DEF Lawful, Begins
<1> QED
  BY <1>2, <1>4, <1>6, <1>7, AroundController, ControllerMoves

-----------------------------------------------------------------------------
(* run_stage: stages that are skipped, adopted and recovered.              *)

\* A step that records a stage as complete and leaves the children alone.
LEMMA CompleteAlone ==
    ASSUME AutomationInv, NEW r \in Runners, NEW status \in Completed,
           ctl[r].i \in Stages, Complete(r, status),
           status = "success" => done[ctl[r].i] >= ctl[r].mem.since,
           UNCHANGED <<lock, child, lease, recent, done, files, now, foreign>>
    PROVE  AutomationInv'
<1>1. PICK x \in Controllers :
          /\ ctl' = [ctl EXCEPT ![r] = x] /\ run' = x.mem /\ x.mem \in Docs
          /\ x.pc = "stage" /\ Truthful(x.mem) /\ Lawful(x)
  BY CompleteIsLawful
<1>2. lock' \in Runners \cup {NoRunner}
  BY Controlled
<1> QED
  BY <1>1, <1>2, ControllerAlone

LEMMA SkipKeeps ==
    ASSUME AutomationInv, NEW r \in Runners, Skip(r)
    PROVE  AutomationInv'
<1>1. PICK k \in Controllers : k = ctl[r] /\ Lawful(k)
  BY Controlled
<1>2. PICK d \in Docs : d = run /\ Truthful(d)
  BY Controlled
<1>3. k.i \in Stages /\ k.pc = "stage" /\ k.mem.stages[k.i] \in Completed /\ k.i \in Nat
  BY <1>1 DEF Skip, At, Stage, Controllers
<1>4. PICK x : x = [k EXCEPT !.i = k.i + 1]
  OBVIOUS
<1>5. x \in Controllers /\ x.pc = "stage" /\ x.mem = k.mem /\ x.i = k.i + 1
  BY <1>3, <1>4 DEF Controllers
<1>6. ASSUME NEW t \in Stages, t < k.i + 1 PROVE k.mem.stages[t] \in Completed
  <2>1. t = k.i \/ t < k.i
    BY <1>3, <1>6, StagesAreNumbers
  <2> QED
    BY <2>1, <1>1, <1>3 DEF Lawful
<1>7. Lawful(x)
  BY <1>1, <1>3, <1>5, <1>6 DEF Lawful, Begins
<1>8. ctl' = [ctl EXCEPT ![r] = x] /\ run' = d
  BY <1>1, <1>2, <1>4 DEF Skip
<1> QED
  BY <1>2, <1>5, <1>7, <1>8, Controlled, ControllerAlone DEF Skip

\* A success among the progress files is the work of a stage.
LEMMA SuccessIsWork ==
    ASSUME AutomationInv, NEW r \in Runners, ctl[r].i \in Stages,
           files[ctl[r].i] >= ctl[r].mem.since
    PROVE  done[ctl[r].i] >= ctl[r].mem.since
<1>1. ctl[r].mem.since \in Nat
  BY DEF AutomationInv, TypeOK, Docs
<1>2. files[ctl[r].i] \in Nat /\ done[ctl[r].i] \in Nat /\ files[ctl[r].i] <= done[ctl[r].i]
  BY DEF AutomationInv, TypeOK, FilesAreWork
<1> QED
  BY <1>1, <1>2

LEMMA AdoptKeeps ==
    ASSUME AutomationInv, NEW r \in Runners, Adopt(r)
    PROVE  AutomationInv'
<1>1. PICK k \in Controllers : k = ctl[r] /\ Lawful(k)
  BY Controlled
<1>2. PICK c \in ActiveChildren(r) :
          Save(r, [ctl[r] EXCEPT !.pc = "adopted", !.back = ctl[r].pc, !.child = c,
                                 !.ok = HasSuccess(r)])
  BY DEF Adopt
<1>3. c \in Slots /\ child[c].job = k.i /\ child[c].began >= k.mem.since
  BY <1>1, <1>2 DEF ActiveChildren, Related, Stage
<1>4. k.i \in Stages /\ k.pc \in {"stage", "again"}
  BY <1>1 DEF Adopt, AsksForChild, At, Stage
<1>5. PICK ok \in BOOLEAN : ok = HasSuccess(r)
  BY DEF HasSuccess
<1>6. PICK x : x = [k EXCEPT !.pc = "adopted", !.back = k.pc, !.child = c, !.ok = ok]
  OBVIOUS
<1>7. "adopted" \in {"off", "check", "claim"} \cup InControl \cup Over
  BY DEF InControl
<1>8. /\ x \in Controllers /\ x.pc = "adopted" /\ x.mem = k.mem /\ x.i = k.i
      /\ x.child = c /\ x.ok = ok
  BY <1>3, <1>4, <1>6, <1>7 DEF Controllers
<1>9. ok => files[k.i] >= k.mem.since
  BY <1>1, <1>5 DEF HasSuccess, Stage
<1>10. Follows(x)
  BY <1>3, <1>4, <1>8 DEF Follows
<1>11. Lawful(x)
  BY <1>1, <1>8, <1>9, <1>10 DEF Lawful, Begins
<1>12. ctl' = [ctl EXCEPT ![r] = x] /\ run' = k.mem
  BY <1>1, <1>2, <1>5, <1>6, <1>8 DEF Save
<1>13. k.mem \in Docs /\ Truthful(k.mem)
  BY <1>1 DEF Controllers, Lawful
<1> QED
  BY <1>8, <1>11, <1>12, <1>13, Controlled, ControllerAlone DEF Adopt

LEMMA RecoverKeeps ==
    ASSUME AutomationInv, NEW r \in Runners, Recover(r)
    PROVE  AutomationInv'
<1>1. ctl[r].i \in Stages /\ files[ctl[r].i] >= ctl[r].mem.since
  BY DEF Recover, AsksForChild, At, HasSuccess, Stage
<1>2. done[ctl[r].i] >= ctl[r].mem.since
  BY <1>1, SuccessIsWork
<1> QED
  BY <1>1, <1>2, CompleteAlone DEF Recover, Completed

LEMMA StillLockedKeeps ==
    ASSUME AutomationInv, NEW r \in Runners, StillLocked(r)
    PROVE  AutomationInv'
BY FailAlone DEF StillLocked

\* The child that is followed showed success, so its stage is done.
LEMMA FollowedIsDone ==
    ASSUME AutomationInv, NEW r \in Runners, ctl[r].pc \in {"adopted", "poll"},
           \/ child[ctl[r].child].note = "success"
           \/ child[ctl[r].child].outcome \in {"success", "partial"}
    PROVE  ctl[r].i \in Stages /\ done[ctl[r].i] >= ctl[r].mem.since
<1>1. Follows(ctl[r])
  BY DEF AutomationInv, Lawful
<1>2. PICK c \in Slots : c = ctl[r].child
  BY <1>1 DEF Follows
<1>3. Earned(child[c])
  BY DEF AutomationInv
<1>4. done[ctl[r].i] >= child[c].began /\ child[c].began >= ctl[r].mem.since
  BY <1>1, <1>2, <1>3 DEF Earned, Follows
<1>5. /\ ctl[r].i \in Stages /\ child[c].began \in Nat
      /\ done[ctl[r].i] \in Nat /\ ctl[r].mem.since \in Nat
  BY <1>1 DEF Follows, AutomationInv, TypeOK, Docs
<1> QED
  BY <1>4, <1>5

LEMMA AdoptedSucceedsKeeps ==
    ASSUME AutomationInv, NEW r \in Runners, AdoptedSucceeds(r)
    PROVE  AutomationInv'
<1>1. ctl[r].i \in Stages /\ done[ctl[r].i] >= ctl[r].mem.since
  BY FollowedIsDone DEF AdoptedSucceeds, At
<1> QED
  BY <1>1, CompleteAlone DEF AdoptedSucceeds, Completed

LEMMA NotAdoptedKeeps ==
    ASSUME AutomationInv, NEW r \in Runners, At(r, "adopted"), NotAdopted(r),
           UNCHANGED <<child, lease, recent, done, files, now, foreign>>
    PROVE  AutomationInv'
<1>1. CASE ctl[r].back = "again"
  BY <1>1, FailAlone DEF NotAdopted
<1>2. CASE ctl[r].back # "again"
  <2>1. PICK k \in Controllers : k = ctl[r] /\ Lawful(k)
    BY Controlled
  <2>2. PICK d \in Docs : d = run /\ Truthful(d)
    BY Controlled
  <2>3. PICK x : x = [k EXCEPT !.pc = "launch", !.child = NoChild, !.ok = FALSE]
    OBVIOUS
  <2>4. "launch" \in {"off", "check", "claim"} \cup InControl \cup Over
    BY DEF InControl
  <2>5. x \in Controllers /\ x.pc = "launch" /\ x.mem = k.mem /\ x.i = k.i
    BY <2>3, <2>4 DEF Controllers
  <2>6. Lawful(x)
    BY <2>1, <2>5 DEF Lawful, Begins
  <2>7. ctl' = [ctl EXCEPT ![r] = x] /\ run' = d /\ lock' = lock
    BY <1>2, <2>1, <2>2, <2>3 DEF NotAdopted
  <2> QED
    BY <2>5, <2>2, <2>6, <2>7, Controlled, ControllerAlone
<1> QED
  BY <1>1, <1>2

LEMMA AdoptedEndsKeeps ==
    ASSUME AutomationInv, NEW r \in Runners, AdoptedFails(r) \/ AdoptedGivesUp(r)
    PROVE  AutomationInv'
<1>1. CASE AdoptedFails(r)
  BY <1>1, NotAdoptedKeeps DEF AdoptedFails
<1>2. CASE AdoptedGivesUp(r)
  <2>1. At(r, "adopted")
    BY <1>2 DEF AdoptedGivesUp, WaitIsOver, StillUndecided
  <2>2. CASE ctl[r].ok
    <3>1. ctl[r].i \in Stages /\ files[ctl[r].i] >= ctl[r].mem.since
      BY <2>1, <2>2 DEF At, Stage, AutomationInv, Lawful
    <3>2. done[ctl[r].i] >= ctl[r].mem.since
      BY <3>1, SuccessIsWork
    <3> QED
      BY <1>2, <2>2, <3>1, <3>2, CompleteAlone DEF AdoptedGivesUp, Completed
  <2>3. CASE ~ctl[r].ok
    BY <1>2, <2>1, <2>3, NotAdoptedKeeps DEF AdoptedGivesUp
  <2> QED
    BY <2>2, <2>3
<1> QED
  BY <1>1, <1>2

-----------------------------------------------------------------------------
(* run_stage: the child that is started, polled and judged.                *)

LEMMA LaunchKeeps ==
    ASSUME AutomationInv, NEW r \in Runners, Launch(r)
    PROVE  AutomationInv'
<1>1. PICK k \in Controllers : k = ctl[r] /\ Lawful(k)
  BY Controlled
<1>2. k.i \in Stages /\ k.pc \in {"stage", "launch"}
  BY <1>1 DEF Launch, MayLaunch, AsksForChild, At, Stage
<1>3. PICK c \in Slots :
          /\ Spawn(c, k.i)
          /\ Save(r, [ctl[r] EXCEPT !.pc = "poll", !.child = c, !.seen = SeenAtOnce(r)])
  BY <1>1 DEF Launch, Stage
<1>4. PICK seen \in BOOLEAN : seen = SeenAtOnce(r)
  BY DEF SeenAtOnce
<1>5. PICK x : x = [k EXCEPT !.pc = "poll", !.child = c, !.seen = seen]
  OBVIOUS
<1>6. "poll" \in {"off", "check", "claim"} \cup InControl \cup Over
  BY DEF InControl
<1>7. x \in Controllers /\ x.pc = "poll" /\ x.mem = k.mem /\ x.i = k.i /\ x.child = c
  BY <1>5, <1>6 DEF Controllers
<1>8. /\ child' \in [Slots -> Children]
      /\ \A q \in Runners : StillFollowed(ctl[q])
      /\ \A j \in Slots : Earned(child'[j])
      /\ child'[c].job = k.i /\ child'[c].began = now
  BY <1>2, <1>3, SpawnKeeps
<1>9. now \in Nat /\ now' = now /\ UNCHANGED <<lock, lease, recent, done, files, foreign>>
  BY Controlled DEF Launch
<1>10. k.mem \in Docs /\ Truthful(k.mem) /\ k.mem.since <= now /\ k.mem.since \in Nat
  BY <1>1 DEF Controllers, Docs, Lawful, Truthful
<1>11. Truthful(k.mem)'
  BY <1>9, <1>10 DEF Truthful
<1>12. Follows(x)'
  BY <1>2, <1>7, <1>8, <1>9, <1>10 DEF Follows
<1>13. Lawful(x)'
  BY <1>1, <1>7, <1>11, <1>12 DEF Lawful, Begins
<1>14. ctl' = [ctl EXCEPT ![r] = x] /\ run' = k.mem
  BY <1>1, <1>3, <1>4, <1>5, <1>7 DEF Save
<1>15. lock' \in Runners \cup {NoRunner} /\ lease' \in Slots \cup {NoChild} /\ now <= now'
  BY <1>9, Controlled DEF AutomationInv, TypeOK
<1> QED
  BY <1>7, <1>8, <1>9, <1>10, <1>11, <1>13, <1>14, <1>15, ControllerMoves

LEMMA FailingKeeps ==
    ASSUME AutomationInv, NEW r \in Runners, MlflowAway(r) \/ PollBreaks(r)
    PROVE  AutomationInv'
BY FailAlone DEF MlflowAway, PollBreaks

\* The child a controller polls has a place.
LEMMA PolledHasPlace ==
    ASSUME AutomationInv, NEW r \in Runners, At(r, "poll")
    PROVE  ctl[r].child \in Slots /\ ctl[r].i \in Stages
BY DEF AutomationInv, Lawful, Follows, At

LEMMA WithoutLeaseHasType ==
    ASSUME AutomationInv, NEW c
    PROVE  WithoutLease(c) \in Slots \cup {NoChild}
BY DEF AutomationInv, TypeOK, WithoutLease

LEMMA TimeoutKeeps ==
    ASSUME AutomationInv, NEW r \in Runners, Timeout(r)
    PROVE  AutomationInv'
<1>1. PICK c \in Slots : c = ctl[r].child
  BY PolledHasPlace DEF Timeout, Polls
<1>2. child' = Forget(r, c) /\ lease' \in Slots \cup {NoChild}
  BY <1>1, WithoutLeaseHasType DEF Timeout
<1>3. /\ child' \in [Slots -> Children]
      /\ \A q \in Runners \ {r} : StillFollowed(ctl[q])
      /\ \A k \in Slots : Earned(child'[k])
  BY <1>2, ForgetKeeps
<1> QED
  BY <1>2, <1>3, FailKeeps DEF Timeout

\* A step that records a stage as complete and forgets its child.
LEMMA CompleteKeeps ==
    ASSUME AutomationInv, NEW r \in Runners, NEW status \in Completed,
           At(r, "poll"), Complete(r, status),
           status = "success" => done[ctl[r].i] >= ctl[r].mem.since,
           child' = Forget(r, ctl[r].child), lease' \in Slots \cup {NoChild},
           UNCHANGED <<lock, recent, done, files, now, foreign>>
    PROVE  AutomationInv'
<1>1. PICK c \in Slots : c = ctl[r].child
  BY PolledHasPlace
<1>2. /\ child' \in [Slots -> Children]
      /\ \A q \in Runners \ {r} : StillFollowed(ctl[q])
      /\ \A k \in Slots : Earned(child'[k])
  BY <1>1, ForgetKeeps
<1>3. PICK x \in Controllers :
          /\ ctl' = [ctl EXCEPT ![r] = x] /\ run' = x.mem /\ x.mem \in Docs
          /\ x.pc = "stage" /\ Truthful(x.mem) /\ Lawful(x)
  BY PolledHasPlace, CompleteIsLawful
<1>4. Lawful(x)' /\ Truthful(x.mem)'
  BY <1>3, RestingStaysLawful DEF Truthful
<1>5. now' \in Nat /\ now <= now' /\ lock' \in Runners \cup {NoRunner}
  BY Controlled
<1> QED
  BY <1>2, <1>3, <1>4, <1>5, ControllerMoves

LEMMA ForcedShutdownKeeps ==
    ASSUME AutomationInv, NEW r \in Runners, ForcedShutdown(r)
    PROVE  AutomationInv'
<1>1. At(r, "poll") /\ lease' \in Slots \cup {NoChild} /\ "forced" \in Completed
  BY WithoutLeaseHasType DEF ForcedShutdown, Polls, Completed
<1> QED
  BY <1>1, CompleteKeeps DEF ForcedShutdown

LEMMA JudgeKeeps ==
    ASSUME AutomationInv, NEW r \in Runners, Judge(r)
    PROVE  AutomationInv'
<1>1. At(r, "poll") /\ child[ctl[r].child].outcome \in {"success", "partial"}
  BY DEF Judge, ChildEnded, OutcomeOf, AcceptedOutcomes
<1>2. done[ctl[r].i] >= ctl[r].mem.since
  BY <1>1, FollowedIsDone DEF At
<1>3. lease' \in Slots \cup {NoChild} /\ "success" \in Completed
  BY DEF Judge, AutomationInv, TypeOK, Completed
<1> QED
  BY <1>1, <1>2, <1>3, CompleteKeeps DEF Judge

LEMMA JudgeLockedKeeps ==
    ASSUME AutomationInv, NEW r \in Runners, JudgeLocked(r)
    PROVE  AutomationInv'
<1>1. PICK k \in Controllers : k = ctl[r] /\ Lawful(k)
  BY Controlled
<1>2. PICK c \in Slots : c = ctl[r].child
  BY PolledHasPlace DEF JudgeLocked, ChildEnded
<1>3. /\ child' \in [Slots -> Children]
      /\ \A q \in Runners \ {r} : StillFollowed(ctl[q])
      /\ \A j \in Slots : Earned(child'[j])
  BY <1>2, ForgetKeeps DEF JudgeLocked
<1>4. PICK x : x = [k EXCEPT !.pc = "again", !.child = NoChild]
  OBVIOUS
<1>5. "again" \in {"off", "check", "claim"} \cup InControl \cup Over
  BY DEF InControl
<1>6. x \in Controllers /\ x.pc = "again" /\ x.mem = k.mem /\ x.i = k.i
  BY <1>4, <1>5 DEF Controllers
<1>7. Lawful(x)
  BY <1>1, <1>6 DEF Lawful, Begins
<1>8. UNCHANGED <<lock, lease, recent, done, files, now, foreign>>
  BY DEF JudgeLocked
<1>9. k.mem \in Docs /\ Truthful(k.mem)
  BY <1>1 DEF Controllers, Lawful
<1>10. Truthful(k.mem)' /\ Lawful(x)'
  BY <1>6, <1>7, <1>8, <1>9, RestingStaysLawful DEF Truthful
<1>11. ctl' = [ctl EXCEPT ![r] = x] /\ run' = k.mem
  BY <1>1, <1>4, <1>6 DEF JudgeLocked, Save
<1>12. /\ now' \in Nat /\ now <= now' /\ lock' \in Runners \cup {NoRunner}
       /\ lease' \in Slots \cup {NoChild}
  BY <1>8, Controlled DEF AutomationInv, TypeOK
<1> QED
  BY <1>3, <1>6, <1>8, <1>9, <1>10, <1>11, <1>12, ControllerMoves

LEMMA JudgeFailedKeeps ==
    ASSUME AutomationInv, NEW r \in Runners, JudgeFailed(r)
    PROVE  AutomationInv'
<1>1. PICK c \in Slots : c = ctl[r].child
  BY PolledHasPlace DEF JudgeFailed, ChildEnded
<1>2. child' = Forget(r, c) /\ lease' \in Slots \cup {NoChild}
  BY <1>1 DEF JudgeFailed, AutomationInv, TypeOK
<1>3. /\ child' \in [Slots -> Children]
      /\ \A q \in Runners \ {r} : StillFollowed(ctl[q])
      /\ \A k \in Slots : Earned(child'[k])
  BY <1>2, ForgetKeeps
<1> QED
  BY <1>2, <1>3, FailKeeps DEF JudgeFailed

-----------------------------------------------------------------------------
(* The end of a controller, and the repair of what it leaves.              *)

LEMMA ConcludeKeeps ==
    ASSUME AutomationInv, NEW r \in Runners, Conclude(r)
    PROVE  AutomationInv'
<1>1. CASE Fail(r, ctl[r].mem)
  BY <1>1, FailAlone DEF Conclude
<1>2. CASE EndWith(r, [ctl[r].mem EXCEPT !.status = "success"]) /\ lock' = NoRunner
  <2>1. PICK x \in Controllers : x = Left("ended") /\ Lawful(x) /\ x.pc = "ended"
    BY LeftIsLawful
  <2>2. PICK k \in Controllers : k = ctl[r] /\ Lawful(k)
    BY Controlled
  <2>3. PICK d : d = [k.mem EXCEPT !.status = "success"]
    OBVIOUS
  <2>4. k.mem \in Docs /\ k.i \in Nat
    BY DEF Controllers
  <2>5. d \in Docs /\ d.since = k.mem.since /\ d.stages = k.mem.stages
    BY <2>3, <2>4 DEF Docs
  <2>6. \A s \in Stages : s < k.i
    BY <2>2, <2>4, StagesAreNumbers DEF Conclude, Stage, Lawful
  <2>7. \A s \in Stages : k.mem.stages[s] \in Completed
    BY <2>2, <2>6 DEF Lawful
  <2>8. Truthful(d)
    BY <2>2, <2>5, <2>7 DEF Lawful, Truthful
  <2>9. ctl' = [ctl EXCEPT ![r] = x] /\ run' = d
    BY <1>2, <2>1, <2>2, <2>3 DEF EndWith, Left
  <2> QED
    BY <1>2, <2>1, <2>5, <2>8, <2>9, ControllerAlone DEF Conclude
<1> QED
  BY <1>1, <1>2 DEF Conclude

LEMMA CrashKeeps ==
    ASSUME AutomationInv, NEW r \in Runners, Crash(r)
    PROVE  AutomationInv'
<1>1. PICK x \in Controllers : x = Left("dead") /\ Lawful(x)
  BY LeftIsLawful
<1>2. PICK d \in Docs : d = run /\ Truthful(d)
  BY Controlled
<1>3. ctl' = [ctl EXCEPT ![r] = x] /\ run' = d
  BY <1>1, <1>2 DEF Crash, Left
<1> QED
  BY <1>1, <1>2, <1>3, Controlled, ControllerAlone DEF Crash

-----------------------------------------------------------------------------
(* Children move on their own.                                             *)

\* A child's step: controllers at most see an end, and what is done grows.
LEMMA ChildrenMove ==
    ASSUME AutomationInv, Grows, UNCHANGED <<run, lock, now>>,
           ctl' \in [Runners -> Controllers],
           \A r \in Runners : \E b \in BOOLEAN : ctl'[r] = [ctl[r] EXCEPT !.seen = b],
           child' \in [Slots -> Children], lease' \in Slots \cup {NoChild},
           recent' \in Stages \cup {NoStage}, foreign' \in 0..MaxForeign,
           done' \in [Stages -> Nat], files' \in [Stages -> Nat],
           FilesAreWork',
           \A r \in Runners : StillFollowed(ctl[r]),
           \A c \in Slots : Earned(child[c])'
    PROVE  AutomationInv'
<1>1. TypeOK'
  BY DEF AutomationInv, TypeOK, Controllers, Children, Notes
<1>2. Truthful(run)'
  <2>1. PICK d \in Docs : d = run /\ Truthful(d) /\ run' = d
    BY DEF AutomationInv, TypeOK
  <2>2. Truthful(d)'
    BY <1>1, <2>1, TruthfulLasts DEF AutomationInv
  <2> QED
    BY <2>1, <2>2 DEF Truthful
<1>3. ASSUME NEW r \in Runners PROVE Lawful(ctl[r])'
  <2>1. PICK k \in Controllers : k = ctl[r] /\ Lawful(k) /\ StillFollowed(k)
    BY Controlled
  <2>2. PICK b \in BOOLEAN : ctl'[r] = [k EXCEPT !.seen = b]
    BY <2>1
  <2>3. PICK x \in Controllers : x = ctl'[r]
    OBVIOUS
  <2>4. /\ x.pc = k.pc /\ x.mem = k.mem /\ x.i = k.i /\ x.child = k.child /\ x.ok = k.ok
    BY <2>2, <2>3 DEF Controllers
  <2>5. Lawful(k)'
    BY <1>1, <2>1, LawfulLasts DEF AutomationInv
  <2> QED
    BY <2>3, <2>4, <2>5 DEF Lawful, Truthful, Follows
<1> QED
  BY <1>1, <1>2, <1>3 DEF AutomationInv

\* Controllers that see nothing.
LEMMA ControllersStay ==
    ASSUME AutomationInv, UNCHANGED ctl
    PROVE  /\ ctl' \in [Runners -> Controllers]
           /\ \A r \in Runners : \E b \in BOOLEAN : ctl'[r] = [ctl[r] EXCEPT !.seen = b]
<1>1. ctl \in [Runners -> Controllers]
  BY DEF AutomationInv, TypeOK, Controllers
<1>2. ASSUME NEW r \in Runners
      PROVE  ctl[r] = [ctl[r] EXCEPT !.seen = ctl[r].seen] /\ ctl[r].seen \in BOOLEAN
  <2>1. PICK k \in Controllers : k = ctl[r]
    BY <1>1
  <2>2. k = [k EXCEPT !.seen = k.seen] /\ k.seen \in BOOLEAN
    BY DEF Controllers
  <2> QED
    BY <2>1, <2>2
<1> QED
  BY <1>1, <1>2

LEMMA ControllersSee ==
    ASSUME AutomationInv, NEW s \in Stages, ctl' = ShowEnd(s)
    PROVE  /\ ctl' \in [Runners -> Controllers]
           /\ \A r \in Runners : \E b \in BOOLEAN : ctl'[r] = [ctl[r] EXCEPT !.seen = b]
<1>1. ASSUME NEW r \in Runners
      PROVE  /\ ctl'[r] \in Controllers
             /\ \E b \in BOOLEAN : ctl'[r] = [ctl[r] EXCEPT !.seen = b]
  <2>1. PICK k \in Controllers : k = ctl[r]
    BY Controlled
  <2>2. k = [k EXCEPT !.seen = k.seen] /\ k.seen \in BOOLEAN
        /\ [k EXCEPT !.seen = TRUE] \in Controllers
    BY DEF Controllers
  <2>3. CASE ctl[r].pc = "poll" /\ MatchesHint(ctl[r].i, s)
    <3>1. ctl'[r] = [k EXCEPT !.seen = TRUE]
      BY <2>1, <2>3 DEF ShowEnd
    <3> QED
      BY <3>1, <2>1, <2>2
  <2>4. CASE ~(ctl[r].pc = "poll" /\ MatchesHint(ctl[r].i, s))
    <3>1. ctl'[r] = k
      BY <2>1, <2>4 DEF ShowEnd
    <3> QED
      BY <3>1, <2>1, <2>2
  <2> QED
    BY <2>3, <2>4
<1>2. DOMAIN ctl' = Runners /\ ctl' = [r \in Runners |-> ctl'[r]]
  BY DEF ShowEnd
<1> QED
  BY <1>1, <1>2

\* One child's record is replaced; a controller that follows it sees the same work.
LEMMA OneChild ==
    ASSUME AutomationInv, NEW c \in Slots, NEW k \in Children, child' = [child EXCEPT ![c] = k],
           \/ k.job = child[c].job /\ k.began = child[c].began
           \/ \A r \in Runners : ctl[r].child # c
    PROVE  /\ child' \in [Slots -> Children]
           /\ child'[c] = k /\ \A j \in Slots : j # c => child'[j] = child[j]
           /\ \A r \in Runners : StillFollowed(ctl[r])
<1>1. child \in [Slots -> Children]
  BY DEF AutomationInv, TypeOK, Children, Notes
<1>2. /\ child' \in [Slots -> Children]
      /\ child'[c] = k /\ \A j \in Slots : j # c => child'[j] = child[j]
  BY <1>1
<1>3. ASSUME NEW r \in Runners PROVE StillFollowed(ctl[r])
  <2>1. Lawful(ctl[r])
    BY DEF AutomationInv
  <2>2. CASE ctl[r].child = c
    BY <1>2, <2>2 DEF StillFollowed
  <2>3. CASE ctl[r].child # c
    BY <1>2, <2>1, <2>3 DEF StillFollowed, Lawful, Follows
  <2> QED
    BY <2>2, <2>3
<1> QED
  BY <1>2, <1>3

\* What every child shows stays earned when more is done.
LEMMA OthersStayEarned ==
    ASSUME AutomationInv, Grows, done' \in [Stages -> Nat],
           NEW j \in Slots, child'[j] = child[j]
    PROVE  Earned(child[j])'
<1>1. child[j] \in Children /\ Earned(child[j])
  BY DEF AutomationInv, TypeOK, Children, Notes
<1>2. PICK k \in Children : k = child[j] /\ child'[j] = k
  BY <1>1
<1>3. k.job \in Stages /\ k.began \in Nat
  BY DEF Children
<1>4. done[k.job] \in Nat /\ done'[k.job] \in Nat /\ done[k.job] <= done'[k.job]
  BY <1>3 DEF AutomationInv, TypeOK, Grows
<1> QED
  BY <1>1, <1>2, <1>3, <1>4 DEF Earned

\* The last write of a child: what it becomes.
LEMMA WritesLastIs ==
    ASSUME AutomationInv, NEW c \in Slots, NEW outcome, WritesLast(c, outcome),
           outcome \in {"success", "failed", "partial", "refused", "locked"}
    PROVE  /\ ctl' \in [Runners -> Controllers]
           /\ \A r \in Runners : \E b \in BOOLEAN : ctl'[r] = [ctl[r] EXCEPT !.seen = b]
           /\ recent' \in Stages \cup {NoStage}
           /\ \E k \in Children :
                 /\ child' = [child EXCEPT ![c] = k]
                 /\ k.job = child[c].job /\ k.began = child[c].began
                 /\ k.outcome = outcome
                 /\ k.note = "success" => outcome = "success" \/ child[c].note = "success"
<1> DEFINE s == child[c].job
           note == NoteOf(outcome)
<1>1. PICK k \in Children : k = child[c]
  BY DEF AutomationInv, TypeOK, Children, Notes
<1>2. s \in Stages
  BY <1>1 DEF Children
<1>3. note \in Notes /\ (note = "success" => outcome = "success")
  BY DEF NoteOf, Notes, TerminalNotes
<1>4. PICK m : m = IF s \in Reports THEN note ELSE k.note
  OBVIOUS
<1>5. m \in Notes /\ (m = "success" => outcome = "success" \/ k.note = "success")
  BY <1>3, <1>4 DEF Children
<1>6. PICK x : x = [k EXCEPT !.pc = "idle", !.outcome = outcome, !.note = m]
  OBVIOUS
<1>7. x \in Children /\ x.job = k.job /\ x.began = k.began /\ x.outcome = outcome /\ x.note = m
  BY <1>5, <1>6 DEF Children
<1>8. child' = [child EXCEPT ![c] = x]
  <2>1. child' = [child EXCEPT ![c].pc = "idle", ![c].outcome = outcome,
                               ![c].note = IF s \in Reports THEN note ELSE @]
    BY DEF WritesLast
  <2>2. child \in [Slots -> Children]
    BY DEF AutomationInv, TypeOK, Children, Notes
  <2>3. child' = [child EXCEPT ![c] = [k EXCEPT !.pc = "idle", !.outcome = outcome,
                               !.note = IF s \in Reports THEN note ELSE k.note]]
    BY <1>1, <2>1, <2>2 DEF Children
  <2> QED
    BY <1>4, <1>6, <2>3
<1>9. /\ ctl' \in [Runners -> Controllers]
      /\ \A r \in Runners : \E b \in BOOLEAN : ctl'[r] = [ctl[r] EXCEPT !.seen = b]
      /\ recent' \in Stages \cup {NoStage}
  <2>1. CASE ctl' = ShowEnd(s) /\ recent' = s
    BY <1>2, <2>1, ControllersSee
  <2>2. CASE UNCHANGED <<ctl, recent>>
    BY <2>2, ControllersStay DEF AutomationInv, TypeOK
  <2> QED
    BY <2>1, <2>2 DEF WritesLast
<1> QED
  BY <1>1, <1>5, <1>7, <1>8, <1>9

\* A later start is never forgotten.
LEMMA LaterGrows ==
    ASSUME NEW f \in [Stages -> Nat], NEW s \in Stages, NEW moment \in Nat,
           NEW g, g = Later(f, s, moment) \/ g = f
    PROVE  /\ g \in [Stages -> Nat]
           /\ \A t \in Stages : f[t] <= g[t] /\ (g[t] # f[t] => t = s /\ g[t] = moment)
           /\ g = Later(f, s, moment) => g[s] >= moment
<1>1. f[s] \in Nat
  OBVIOUS
<1>2. CASE f[s] < moment /\ g = Later(f, s, moment)
  <2>1. g = [f EXCEPT ![s] = moment]
    BY <1>2 DEF Later
  <2>2. g \in [Stages -> Nat] /\ g[s] = moment /\ \A t \in Stages : t # s => g[t] = f[t]
    BY <2>1
  <2>3. ASSUME NEW t \in Stages PROVE f[t] <= g[t] /\ (g[t] # f[t] => t = s /\ g[t] = moment)
    <3>1. PICK m \in Nat, n \in Nat : m = f[t] /\ n = g[t]
      BY <2>2
    <3>2. (t = s /\ n = moment /\ m < moment) \/ n = m
      BY <3>1, <2>2, <1>2
    <3>3. m <= n
      BY <3>2
    <3> QED
      BY <3>1, <3>2, <3>3
  <2> QED
    BY <2>2, <2>3
<1>3. CASE g = f
  <2>1. ASSUME NEW t \in Stages PROVE f[t] <= g[t]
    <3>1. f[t] \in Nat
      OBVIOUS
    <3> QED
      BY <3>1, <1>3
  <2>2. g = Later(f, s, moment) => g[s] >= moment
    <3>1. CASE f[s] < moment
      <4>1. [f EXCEPT ![s] = moment][s] = moment
        OBVIOUS
      <4> QED
        BY <3>1, <4>1, <1>1, <1>3 DEF Later
    <3>2. CASE ~(f[s] < moment)
      <4>1. f[s] >= moment
        BY <3>2, <1>1
      <4> QED
        BY <4>1, <1>3
    <3> QED
      BY <3>1, <3>2
  <2>3. \A t \in Stages : g[t] = f[t]
    BY <1>3
  <2>4. g \in [Stages -> Nat]
    BY <1>3
  <2> QED
    BY <2>1, <2>2, <2>3, <2>4, Zenon
<1>4. f[s] < moment \/ Later(f, s, moment) = f
  BY DEF Later
<1> QED
  BY <1>2, <1>3, <1>4

LEMMA ChildLockedKeeps ==
    ASSUME AutomationInv, NEW c \in Slots, ChildLocked(c)
    PROVE  AutomationInv'
<1>1. WritesLast(c, "locked") /\ UNCHANGED <<run, lock, lease, done, files, now, foreign>>
  BY DEF ChildLocked
<1>2. /\ ctl' \in [Runners -> Controllers]
      /\ \A r \in Runners : \E b \in BOOLEAN : ctl'[r] = [ctl[r] EXCEPT !.seen = b]
      /\ recent' \in Stages \cup {NoStage}
  BY <1>1, WritesLastIs
<1>3. PICK k \in Children :
          /\ child' = [child EXCEPT ![c] = k]
          /\ k.job = child[c].job /\ k.began = child[c].began
          /\ k.outcome = "locked"
          /\ k.note = "success" => child[c].note = "success"
  BY <1>1, WritesLastIs
<1>4. /\ child' \in [Slots -> Children]
      /\ child'[c] = k /\ \A j \in Slots : j # c => child'[j] = child[j]
      /\ \A r \in Runners : StillFollowed(ctl[r])
  BY <1>3, OneChild
<1>5. Grows /\ done' \in [Stages -> Nat] /\ files' \in [Stages -> Nat]
  BY <1>1, Still DEF AutomationInv, TypeOK
<1>6. ASSUME NEW j \in Slots PROVE Earned(child[j])'
  <2>1. CASE j = c
    <3>1. Earned(child[c])
      BY DEF AutomationInv
    <3> QED
      BY <2>1, <3>1, <1>1, <1>3, <1>4 DEF Earned
  <2>2. CASE j # c
    BY <2>2, <1>4, <1>5, OthersStayEarned
  <2> QED
    BY <2>1, <2>2
<1>7. FilesAreWork' /\ lease' \in Slots \cup {NoChild} /\ foreign' \in 0..MaxForeign
  BY <1>1 DEF AutomationInv, TypeOK, FilesAreWork
<1> QED
  BY <1>1, <1>2, <1>4, <1>5, <1>6, <1>7, ChildrenMove

LEMMA ChildFinishKeeps ==
    ASSUME AutomationInv, NEW c \in Slots, ChildFinish(c)
    PROVE  AutomationInv'
<1>1. PICK outcome \in Outcomes(child[c].job) :
          /\ WritesLast(c, outcome)
          /\ done' = IF outcome \in {"success", "partial"}
                     THEN Later(done, child[c].job, child[c].began) ELSE done
          /\ files' = IF outcome = "success" /\ child[c].job \in Reports
                      THEN Later(files, child[c].job, child[c].began) ELSE files
  BY DEF ChildFinish
<1>2. outcome \in {"success", "failed", "partial", "refused", "locked"}
  BY DEF Outcomes
<1>3. PICK s \in Stages : s = child[c].job
  BY DEF AutomationInv, TypeOK
<1>4. PICK moment \in Nat : moment = child[c].began
  BY DEF AutomationInv, TypeOK
<1>5. done \in [Stages -> Nat] /\ files \in [Stages -> Nat]
  BY DEF AutomationInv, TypeOK
<1>6. /\ done' \in [Stages -> Nat]
      /\ \A t \in Stages : done[t] <= done'[t] /\ (done'[t] # done[t] => t = s /\ done'[t] = moment)
      /\ outcome \in {"success", "partial"} => done'[s] >= moment
  <2>1. PICK g : g = done'
    OBVIOUS
  <2>2. PICK f \in [Stages -> Nat] : f = done
    BY <1>5
  <2>3. /\ g = Later(f, s, moment) \/ g = f
        /\ outcome \in {"success", "partial"} => g = Later(f, s, moment)
    BY <1>1, <1>3, <1>4, <2>1, <2>2
  <2>4. /\ g \in [Stages -> Nat]
        /\ \A t \in Stages : f[t] <= g[t] /\ (g[t] # f[t] => t = s /\ g[t] = moment)
        /\ g = Later(f, s, moment) => g[s] >= moment
    BY <2>3, LaterGrows
  <2> QED
    BY <2>1, <2>2, <2>3, <2>4
<1>7. /\ files' \in [Stages -> Nat]
      /\ \A t \in Stages : files[t] <= files'[t]
                           /\ (files'[t] # files[t] => t = s /\ files'[t] = moment)
      /\ ~(outcome = "success") => files' = files
  <2>1. PICK g : g = files'
    OBVIOUS
  <2>2. PICK f \in [Stages -> Nat] : f = files
    BY <1>5
  <2>3. /\ g = Later(f, s, moment) \/ g = f
        /\ ~(outcome = "success") => g = f
    BY <1>1, <1>3, <1>4, <2>1, <2>2
  <2>4. /\ g \in [Stages -> Nat]
        /\ \A t \in Stages : f[t] <= g[t] /\ (g[t] # f[t] => t = s /\ g[t] = moment)
    BY <2>3, LaterGrows
  <2> QED
    BY <2>1, <2>2, <2>3, <2>4
<1>8. Grows
  BY <1>6, <1>7 DEF Grows, ChildFinish, AutomationInv, TypeOK
<1>9. FilesAreWork'
  <2>1. ASSUME NEW t \in Stages PROVE files'[t] <= done'[t]
    <3>1. files[t] <= done[t] /\ done[t] <= done'[t]
          /\ files[t] \in Nat /\ done[t] \in Nat /\ done'[t] \in Nat
      BY <1>5, <1>6 DEF AutomationInv, FilesAreWork
    <3>2. CASE files'[t] = files[t]
      BY <3>1, <3>2
    <3>3. CASE files'[t] # files[t]
      <4>1. t = s /\ files'[t] = moment /\ outcome = "success"
        BY <3>3, <1>7
      <4> QED
        BY <4>1, <3>1, <1>6
    <3> QED
      BY <3>2, <3>3
  <2> QED
    BY <2>1 DEF FilesAreWork
<1>10. /\ ctl' \in [Runners -> Controllers]
       /\ \A r \in Runners : \E b \in BOOLEAN : ctl'[r] = [ctl[r] EXCEPT !.seen = b]
       /\ recent' \in Stages \cup {NoStage}
  BY <1>1, <1>2, WritesLastIs
<1>11. PICK k \in Children :
          /\ child' = [child EXCEPT ![c] = k]
          /\ k.job = child[c].job /\ k.began = child[c].began
          /\ k.outcome = outcome
          /\ k.note = "success" => outcome = "success" \/ child[c].note = "success"
  BY <1>1, <1>2, WritesLastIs
<1>12. /\ child' \in [Slots -> Children]
       /\ child'[c] = k /\ \A j \in Slots : j # c => child'[j] = child[j]
       /\ \A r \in Runners : StillFollowed(ctl[r])
  BY <1>11, OneChild
<1>13. Earned(child[c])'
  <2>1. CASE outcome \in {"success", "partial"}
    BY <2>1, <1>3, <1>4, <1>6, <1>11, <1>12 DEF Earned
  <2>2. CASE outcome \notin {"success", "partial"}
    <3>1. Earned(child[c])
      BY DEF AutomationInv
    <3>2. k.note = "success" => done[s] >= moment
      BY <2>2, <3>1, <1>3, <1>4, <1>11 DEF Earned
    <3>3. k.note = "success" => done'[s] >= moment
      BY <3>2, <1>5, <1>6
    <3> QED
      BY <2>2, <3>3, <1>3, <1>4, <1>11, <1>12 DEF Earned
  <2> QED
    BY <2>1, <2>2
<1>14. ASSUME NEW j \in Slots PROVE Earned(child[j])'
  <2>1. CASE j = c
    BY <2>1, <1>13
  <2>2. CASE j # c
    BY <2>2, <1>6, <1>8, <1>12, OthersStayEarned
  <2> QED
    BY <2>1, <2>2
<1>15. /\ lease' \in Slots \cup {NoChild} /\ foreign' \in 0..MaxForeign
       /\ UNCHANGED <<run, lock, now>>
  BY DEF ChildFinish, AutomationInv, TypeOK
<1> QED
  BY <1>6, <1>7, <1>8, <1>9, <1>10, <1>12, <1>14, <1>15, ChildrenMove

\* A child whose record keeps what it shows, or is emptied.
LEMMA ChildQuietly ==
    ASSUME AutomationInv, NEW c \in Slots, NEW k \in Children, child' = [child EXCEPT ![c] = k],
           \/ /\ k.job = child[c].job /\ k.began = child[c].began
              /\ k.note = child[c].note /\ k.outcome = child[c].outcome
           \/ /\ k = Vacant /\ \A r \in Runners : ctl[r].child # c,
           lease' \in Slots \cup {NoChild},
           UNCHANGED <<run, lock, ctl, recent, done, files, now, foreign>>
    PROVE  AutomationInv'
<1>1. /\ child' \in [Slots -> Children]
      /\ child'[c] = k /\ \A j \in Slots : j # c => child'[j] = child[j]
      /\ \A r \in Runners : StillFollowed(ctl[r])
  BY OneChild
<1>2. Grows /\ done' \in [Stages -> Nat] /\ files' \in [Stages -> Nat]
  BY Still DEF AutomationInv, TypeOK
<1>3. ASSUME NEW j \in Slots PROVE Earned(child[j])'
  <2>1. CASE j = c /\ k = Vacant
    BY <2>1, <1>1 DEF Earned, Vacant
  <2>2. CASE j = c /\ k # Vacant
    <3>1. Earned(child[c])
      BY DEF AutomationInv
    <3> QED
      BY <2>2, <3>1, <1>1 DEF Earned
  <2>3. CASE j # c
    BY <2>3, <1>1, <1>2, OthersStayEarned
  <2> QED
    BY <2>1, <2>2, <2>3
<1>4. FilesAreWork' /\ recent' \in Stages \cup {NoStage} /\ foreign' \in 0..MaxForeign
  BY DEF AutomationInv, TypeOK, FilesAreWork
<1> QED
  BY <1>1, <1>2, <1>3, <1>4, ControllersStay, ChildrenMove

LEMMA ChildEnterKeeps ==
    ASSUME AutomationInv, NEW c \in Slots, ChildEnter(c)
    PROVE  AutomationInv'
<1>1. PICK j \in Children : j = child[c]
  BY DEF AutomationInv, TypeOK, Children, Notes
<1>2. PICK k : k = [j EXCEPT !.pc = "busy"]
  OBVIOUS
<1>3. k \in Children /\ k.job = j.job /\ k.began = j.began /\ k.note = j.note
      /\ k.outcome = j.outcome
  BY <1>2 DEF Children
<1>4. child' = [child EXCEPT ![c] = k] /\ lease' = c
  BY <1>1, <1>2 DEF ChildEnter
<1> QED
  BY <1>1, <1>3, <1>4, ChildQuietly DEF ChildEnter

LEMMA ChildExitKeeps ==
    ASSUME AutomationInv, NEW c \in Slots, ChildExit(c)
    PROVE  AutomationInv'
<1>1. PICK j \in Children : j = child[c]
  BY DEF AutomationInv, TypeOK, Children, Notes
<1>2. PICK k : k = [j EXCEPT !.pc = "gone"]
  OBVIOUS
<1>3. k \in Children /\ k.job = j.job /\ k.began = j.began /\ k.note = j.note
      /\ k.outcome = j.outcome
  BY <1>2 DEF Children
<1>4. lease' \in Slots \cup {NoChild}
      /\ UNCHANGED <<run, lock, ctl, recent, done, files, now, foreign>>
  BY DEF ChildExit, AutomationInv, TypeOK
<1>5. CASE \E r \in Runners : ctl[r].child = c
  <2>1. child' = [child EXCEPT ![c] = k]
    BY <1>1, <1>2, <1>5 DEF ChildExit
  <2> QED
    BY <1>1, <1>3, <1>4, <2>1, ChildQuietly
<1>6. CASE ~\E r \in Runners : ctl[r].child = c
  <2>1. child' = [child EXCEPT ![c] = Vacant]
    BY <1>6 DEF ChildExit
  <2> QED
    BY <1>4, <1>6, <2>1, Blanks, ChildQuietly
<1> QED
  BY <1>5, <1>6

LEMMA ForeignStartKeeps ==
    ASSUME AutomationInv, ForeignStart
    PROVE  AutomationInv'
<1>1. PICK c \in Slots, s \in Stages : Spawn(c, s)
  BY AutomationAssumption DEF ForeignStart
<1>2. /\ child' \in [Slots -> Children]
      /\ \A q \in Runners : StillFollowed(ctl[q])
      /\ \A k \in Slots : Earned(child'[k])
  BY <1>1, SpawnKeeps
<1>3. UNCHANGED <<run, lock, ctl, lease, recent, done, files, now>>
  BY DEF ForeignStart
<1>4. foreign' \in 0..MaxForeign
  BY AutomationAssumption DEF ForeignStart, AutomationInv, TypeOK
<1>5. /\ Grows /\ done' \in [Stages -> Nat] /\ files' \in [Stages -> Nat]
      /\ lease' \in Slots \cup {NoChild} /\ recent' \in Stages \cup {NoStage}
      /\ FilesAreWork'
  BY <1>3, Still DEF AutomationInv, TypeOK, FilesAreWork
<1>6. \A k \in Slots : Earned(child[k])'
  BY <1>2, <1>3 DEF Earned
<1> QED
  BY <1>2, <1>3, <1>4, <1>5, <1>6, ControllersStay, ChildrenMove

\* Only the two seconds, or the status of the document, change.
LEMMA QuietKeeps ==
    ASSUME AutomationInv, run' \in Docs, Truthful(run)', recent' \in Stages \cup {NoStage},
           UNCHANGED <<lock, ctl, child, lease, done, files, now, foreign>>
    PROVE  AutomationInv'
<1>1. TypeOK'
  BY DEF AutomationInv, TypeOK, Docs
<1>2. ASSUME NEW r \in Runners PROVE Lawful(ctl[r])'
  BY DEF AutomationInv, Lawful, Truthful, Follows
<1>3. ASSUME NEW c \in Slots PROVE Earned(child[c])'
  BY DEF AutomationInv, Earned
<1> QED
  BY <1>1, <1>2, <1>3 DEF AutomationInv, FilesAreWork

LEMMA TwoSecondsKeeps ==
    ASSUME AutomationInv, TwoSeconds \/ UNCHANGED vars
    PROVE  AutomationInv'
<1>1. run' \in Docs /\ recent' \in Stages \cup {NoStage}
      /\ UNCHANGED <<run, lock, ctl, child, lease, done, files, now, foreign>>
  BY DEF TwoSeconds, vars, AutomationInv, TypeOK
<1>2. Truthful(run)'
  BY <1>1 DEF AutomationInv, Truthful
<1> QED
  BY <1>1, <1>2, QuietKeeps

LEMMA RepairKeeps ==
    ASSUME AutomationInv, Repair
    PROVE  AutomationInv'
<1>1. PICK d \in Docs : d = run /\ Truthful(d)
  BY DEF AutomationInv, TypeOK
<1>2. PICK e : e = [d EXCEPT !.status = "interrupted"]
  OBVIOUS
<1>3. e \in Docs /\ e.since = d.since /\ e.stages = d.stages /\ e.status = "interrupted"
  BY <1>2 DEF Docs
<1>4. run' = e /\ UNCHANGED <<lock, ctl, child, lease, recent, done, files, now, foreign>>
  BY <1>1, <1>2 DEF Repair
<1>5. Truthful(run)'
  BY <1>1, <1>3, <1>4 DEF Truthful
<1>6. recent' \in Stages \cup {NoStage}
  BY <1>4 DEF AutomationInv, TypeOK
<1> QED
  BY <1>3, <1>4, <1>5, <1>6, QuietKeeps

-----------------------------------------------------------------------------
(* The theorem.                                                            *)

LEMMA InitHolds == Init => AutomationInv
<1> SUFFICES ASSUME Init PROVE AutomationInv
  OBVIOUS
<1>1. done = [s \in Stages |-> 0] /\ files = done /\ now = 1
  BY DEF Init
<1>2. Truthful(NoDoc)
  BY <1>1, Blanks DEF Truthful
<1>3. Lawful(Off)
  <2>1. Off.mem = NoDoc /\ Off.i = 1 /\ Off.pc = "off"
    BY DEF Off
  <2>2. \A s \in Stages : ~(s < 1)
    BY StagesAreNumbers
  <2> QED
    BY <1>2, <2>1, <2>2 DEF Lawful
<1>4. Earned(Vacant)
  BY DEF Earned, Vacant
<1>5. ctl \in [Runners -> Controllers] /\ child \in [Slots -> Children]
  BY Blanks DEF Init
<1>6. TypeOK
  BY <1>1, <1>5, Blanks, AutomationAssumption
  DEF Init, TypeOK, Controllers, Children, Notes, NoRunner, NoStage
<1> QED
  BY <1>1, <1>2, <1>3, <1>4, <1>6 DEF Init, AutomationInv, FilesAreWork

LEMMA StepKeeps ==
    ASSUME AutomationInv, [Next]_vars
    PROVE  AutomationInv'
<1>1. ASSUME NEW r \in Runners, StartFresh(r) \/ StartResume(r) \/ Step(r) \/ Crash(r)
      PROVE  AutomationInv'
  BY <1>1, BeginKeeps, StartResumeKeeps, PreflightDoneKeeps, PreflightFailsKeeps, SkipKeeps,
     AdoptKeeps, RecoverKeeps, StillLockedKeeps, AdoptedSucceedsKeeps, AdoptedEndsKeeps,
     LaunchKeeps, FailingKeeps, TimeoutKeeps, ForcedShutdownKeeps, JudgeKeeps, JudgeLockedKeeps,
     JudgeFailedKeeps, ConcludeKeeps, CrashKeeps
  DEF Step
<1>2. ASSUME NEW c \in Slots, ChildEnter(c) \/ ChildLocked(c) \/ ChildFinish(c) \/ ChildExit(c)
      PROVE  AutomationInv'
  BY <1>2, ChildEnterKeeps, ChildLockedKeeps, ChildFinishKeeps, ChildExitKeeps
<1>3. CASE ForeignStart
  BY <1>3, ForeignStartKeeps
<1>4. CASE TwoSeconds \/ UNCHANGED vars
  BY <1>4, TwoSecondsKeeps
<1>5. CASE Repair
  BY <1>5, RepairKeeps
<1> QED
  BY <1>1, <1>2, <1>3, <1>4, <1>5 DEF Next

\* However many controllers start, resume, adopt, crash or are refused, and whatever other
\* commands run beside them, run.json calls a stage successful only when a command started
\* since the automation run began, with the slack of five seconds, did its work, and the run only when every stage is
\* complete.
THEOREM SafeHolds == Spec => []Safe
<1>1. Spec => []AutomationInv
  BY InitHolds, StepKeeps, PTL DEF Spec
<1>2. AutomationInv => Safe
  BY DEF AutomationInv, Safe, CompleteMeansDone, Truthful
<1> QED
  BY <1>1, <1>2, PTL
===============================================================================
