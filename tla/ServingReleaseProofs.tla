------------------------- MODULE ServingReleaseProofs -------------------------
(* Type correctness of ServingRelease, and, when publish and prune run in    *)
(* turn, the completeness of the active release, the implementation of       *)
(* ReleaseShelf and a history without gaps: for any set of releases, any     *)
(* number of publishers, any gazetteers, any Keep and limit and any faults.  *)
EXTENDS ServingRelease, FiniteSetTheorems, WellFoundedInduction, TLAPS

LEMMA MergeHistoryType ==
  ASSUME TypeOK, NEW rows \in SUBSET Releases, NEW r \in Releases
  PROVE  MergeHistory(r, rows) \subseteq Releases
  BY DEF MergeHistory, Latest, TypeOK

(* Advance(p, stage) changes the stage of p and nothing else. *)
LEMMA AdvanceStage ==
  ASSUME pub \in [Publishers -> PubStates], NEW p \in Publishers,
         NEW stage \in Stages \cup {"idle", "done", "failed"}, Advance(p, stage)
  PROVE  /\ pub' \in [Publishers -> PubStates]
         /\ pub'[p].stage = stage
         /\ pub'[p].release = pub[p].release
         /\ pub'[p].history = pub[p].history
         /\ pub'[p].lost = pub[p].lost
         /\ \A q \in Publishers \ {p} : pub'[q] = pub[q]
<1>1. pub' = [pub EXCEPT ![p] = [pub[p] EXCEPT !.stage = stage]]
  BY DEF Advance
<1>2. pub[p] \in PubStates
  OBVIOUS
<1>3. [pub[p] EXCEPT !.stage = stage] \in PubStates
  BY <1>2 DEF PubStates
<1> QED
  BY <1>1, <1>2, <1>3 DEF PubStates

LEMMA InitTypeOK == Init => TypeOK
  BY ServingReleaseAssumption DEF Init, TypeOK, PubStates, Idle, NotPruning, Running, Stages

LEMMA NextTypeOK == TypeOK /\ [Next]_vars => TypeOK'
<1> SUFFICES ASSUME TypeOK, [Next]_vars
             PROVE  TypeOK'
  OBVIOUS
<1> USE ServingReleaseAssumption DEF TypeOK, Running
<1>1. CASE UNCHANGED vars
  BY <1>1 DEF vars
<1>2. CASE BuildRelease
  BY <1>2 DEF BuildRelease, NoRelease
<1>3. ASSUME NEW p \in Publishers, StartPromotion(p) \/ Promote(p) \/ HistoryLost(p) \/ PromotionCut(p)
      PROVE  TypeOK'
  <2> USE DEF Stages, Parts
  <2>1. CASE StartPromotion(p)
    <3> DEFINE new == [stage |-> "manifest", release |-> local, history |-> {}, lost |-> FALSE]
    <3>1. pub' = [pub EXCEPT ![p] = new] /\ new.release = local /\ local # NoRelease
      BY <2>1 DEF StartPromotion
    <3>2. new \in PubStates
      BY DEF PubStates
    <3>3. UNCHANGED <<local, objects, places, pointer, prune, reports, published, faults>>
      BY <2>1 DEF StartPromotion
    <3> HIDE DEF new
    <3> QED
      BY <3>1, <3>2, <3>3
  <2>2. CASE UploadManifest(p) \/ UploadSurface(p)
    <3>1. PICK part \in Parts, next \in {"surface", "places"} : UploadPart(p, part, next)
      BY <2>2 DEF UploadManifest, UploadSurface
    <3>2. Advance(p, next) /\ pub[p].stage \in Parts /\ pub[p].release \in Releases
      BY <3>1 DEF UploadPart, PubStates
    <3>3. objects' \subseteq Releases \X Parts
      BY <3>1, <3>2 DEF UploadPart
    <3> QED
      BY <3>1, <3>2, <3>3, AdvanceStage DEF UploadPart
  <2>3. CASE UploadPlaces(p)
    <3>1. PICK stage \in {"history", "failed"} : Advance(p, stage)
      BY <2>3 DEF UploadPlaces
    <3>2. local \in Releases
      BY <2>3 DEF UploadPlaces
    <3>3. places' \in {PlacesOf[r] : r \in Releases} \cup {NoPlaces}
      BY <2>3, <3>2 DEF UploadPlaces
    <3> QED
      BY <2>3, <3>1, <3>3, AdvanceStage DEF UploadPlaces
  <2>4. CASE WriteHistory(p) \/ HistoryLost(p)
    <3>1. PICK history \in SUBSET Releases, lost \in BOOLEAN : HistoryMerged(p, history, lost)
      BY <2>4 DEF WriteHistory, HistoryLost
    <3>2. pub[p].release \in Releases
      BY <3>1 DEF HistoryMerged, PubStates
    <3> DEFINE new == [stage |-> "pointer", release |-> pub[p].release, lost |-> lost,
                       history |-> MergeHistory(pub[p].release, history)]
    <3>3. pub' = [pub EXCEPT ![p] = new]
      BY <3>1 DEF HistoryMerged
    <3>4. new \in PubStates
      BY <3>2, MergeHistoryType DEF PubStates
    <3>5. pub' \in [Publishers -> PubStates]
      BY <3>3, <3>4
    <3>6. pub[p].release # NoRelease /\ local # NoRelease
      BY <3>1 DEF HistoryMerged
    <3>7. \A q \in Publishers : Running(q)' => pub'[q].release # NoRelease /\ local # NoRelease
      BY <3>3, <3>6
    <3>8. UNCHANGED <<local, objects, places, pointer, prune, reports, published>>
      BY <3>1 DEF HistoryMerged
    <3>9. faults' = faults \/ (faults < MaxFaults /\ faults' = faults + 1)
      BY <2>4 DEF WriteHistory, HistoryLost, Fault
    <3>10. faults' \in 0..MaxFaults
      BY <3>9
    <3> QED
      BY <3>5, <3>7, <3>8, <3>10
  <2>5. CASE PutPointer(p)
    <3>1. pub[p].release \in Releases /\ pub[p].history \subseteq Releases
      BY <2>5 DEF PutPointer, PubStates
    <3>2. published' \subseteq Releases
      BY <2>5, <3>1 DEF PutPointer
    <3>3. Advance(p, "verify")
      BY <2>5 DEF PutPointer
    <3>4. pointer' \in [release : Releases \cup {NoRelease}, history : SUBSET Releases]
      BY <2>5, <3>1 DEF PutPointer
    <3>5. pub' \in [Publishers -> PubStates] /\ \A q \in Publishers \ {p} : pub'[q] = pub[q]
      BY <3>3, AdvanceStage
    <3>6. pub'[p].release = pub[p].release
      BY <3>3, AdvanceStage
    <3>7. \A q \in Publishers : Running(q)' => pub'[q].release # NoRelease /\ local # NoRelease
      BY <2>5, <3>5, <3>6 DEF PutPointer
    <3> QED
      BY <2>5, <3>2, <3>4, <3>5, <3>7 DEF PutPointer
  <2>6. CASE VerifyPointer(p)
    <3>1. PICK stage \in {"done", "failed"} : Advance(p, stage)
      BY <2>6 DEF VerifyPointer
    <3>2. reports' \subseteq Releases
      BY <2>6 DEF VerifyPointer, PubStates
    <3> QED
      BY <2>6, <3>1, <3>2, AdvanceStage DEF VerifyPointer
  <2>7. CASE PromotionCut(p)
    BY <2>7, AdvanceStage DEF PromotionCut, Fault
  <2> QED
    BY <1>3, <2>1, <2>2, <2>3, <2>4, <2>5, <2>6, <2>7 DEF Promote
<1>4. CASE ReadActive
  BY <1>4 DEF ReadActive
<1>5. CASE ListReleases
  <2>1. PICK plan \in SUBSET objects :
             prune' = [stage |-> "delete", active |-> prune.active, plan |-> plan]
    BY <1>5 DEF ListReleases
  <2>2. prune' \in [stage : {"idle", "list", "delete"},
                    active : Releases \cup {NoRelease},
                    plan : SUBSET (Releases \X Parts)]
    BY <2>1
  <2> QED
    BY <1>5, <2>2 DEF ListReleases
<1>6. CASE DeleteObject
  <2>1. PICK object \in prune.plan : /\ objects' = objects \ {object}
                                    /\ prune' = [prune EXCEPT !.plan = @ \ {object}]
    BY <1>6 DEF DeleteObject
  <2>2. prune' \in [stage : {"idle", "list", "delete"},
                    active : Releases \cup {NoRelease},
                    plan : SUBSET (Releases \X Parts)]
    BY <2>1
  <2>3. objects' \subseteq Releases \X Parts
    BY <2>1
  <2> QED
    BY <1>6, <2>2, <2>3 DEF DeleteObject
<1>7. CASE EndPrune \/ Unconfirmed
  <2>1. /\ prune' = [stage |-> "idle", active |-> NoRelease, plan |-> {}]
        /\ UNCHANGED <<local, objects, places, pointer, pub, reports, published, faults>>
    BY <1>7 DEF EndPrune, Unconfirmed, NotPruning
  <2> QED
    BY <2>1
<1>8. CASE PruneCut
  BY <1>8 DEF PruneCut, NotPruning, Fault
<1> QED
  BY <1>1, <1>2, <1>3, <1>4, <1>5, <1>6, <1>7, <1>8 DEF Next, Prune

\* Every variable keeps its type: in particular no promotion runs without a
\* local release.
THEOREM TypeCorrect == Spec => []TypeOK
<1> QED
  BY InitTypeOK, NextTypeOK, PTL DEF Spec

-----------------------------------------------------------------------------
(* What a promotion has uploaded before each stage. *)
Uploaded(p) ==
    /\ pub[p].stage \in Stages \ {"manifest"} => <<pub[p].release, "manifest">> \in objects
    /\ pub[p].stage \in Stages \ {"manifest", "surface"} =>
         <<pub[p].release, "surface">> \in objects
    /\ pub[p].stage \in Stages \ {"manifest", "surface", "places"} => places # NoPlaces

(* A retention run has the store to itself and knows the active release. *)
PruneAlone ==
    prune.stage # "idle" =>
        /\ \A p \in Publishers : ~Running(p)
        /\ pointer.release # NoRelease
        /\ prune.active = pointer.release
        /\ \A object \in prune.plan : object[1] # pointer.release

(* ActiveReleaseComplete alone is not inductive: it needs what the promotion
   about to write the pointer has uploaded, and what the retention run about
   to delete has planned. *)
PromotionInv ==
    /\ TypeOK
    /\ ActiveReleaseComplete
    /\ \A p \in Publishers : Uploaded(p)
    /\ PruneAlone

(* What the promotions have uploaded stays while one of them advances. *)
LEMMA UploadedKept ==
  ASSUME TypeOK, NEW p \in Publishers,
         NEW stage \in Stages \cup {"idle", "done", "failed"}, Advance(p, stage),
         \A q \in Publishers : Uploaded(q), objects \subseteq objects',
         places # NoPlaces => places' # NoPlaces
  PROVE  /\ \A q \in Publishers \ {p} : Uploaded(q)'
         /\ pub[p].stage \in Stages \ {"manifest"} => <<pub[p].release, "manifest">> \in objects'
         /\ pub[p].stage \in Stages \ {"manifest", "surface"} =>
              <<pub[p].release, "surface">> \in objects'
         /\ pub'[p].stage = stage /\ pub'[p].release = pub[p].release
<1>1. \A q \in Publishers \ {p} : pub'[q] = pub[q]
  BY AdvanceStage DEF TypeOK
<1>2. pub'[p].stage = stage /\ pub'[p].release = pub[p].release
  BY AdvanceStage DEF TypeOK
<1> QED
  BY <1>1, <1>2 DEF Uploaded

LEMMA NextPromotionInv ==
  ASSUME OneAtATime, PromotionInv, [Next]_vars
  PROVE  PromotionInv'
<1> TypeOK'
  BY NextTypeOK DEF PromotionInv
<1> USE ServingReleaseAssumption DEF PromotionInv, ActiveReleaseComplete, Complete,
        Uploaded, PruneAlone, TypeOK, Stages, Running, Parts
<1>1. CASE UNCHANGED vars
  BY <1>1 DEF vars
<1>2. CASE BuildRelease
  BY <1>2 DEF BuildRelease
<1>3. ASSUME NEW p \in Publishers, StartPromotion(p) \/ Promote(p) \/ HistoryLost(p) \/ PromotionCut(p)
      PROVE  PromotionInv'
  <2>1. CASE StartPromotion(p)
    BY <2>1 DEF StartPromotion, CanStart
  <2>2. CASE UploadManifest(p) \/ UploadSurface(p)
    <3>1. PICK part \in Parts, next \in {"surface", "places"} :
            /\ UploadPart(p, part, next)
            /\ \/ part = "manifest" /\ next = "surface"
               \/ part = "surface" /\ next = "places"
      BY <2>2 DEF UploadManifest, UploadSurface
    <3>2. Advance(p, next) /\ <<pub[p].release, part>> \in objects' /\ objects \subseteq objects'
      BY <3>1 DEF UploadPart
    <3>3. pub[p].stage = part /\ UNCHANGED <<places, pointer, prune>>
      BY <3>1 DEF UploadPart
    <3>4. \A q \in Publishers \ {p} : Uploaded(q)'
      BY <3>2, <3>3, UploadedKept, ZenonT(60)
    <3>5. pub'[p].stage = next /\ pub'[p].release = pub[p].release
      BY <3>2, <3>3, UploadedKept
    <3>6. next = "places" => <<pub[p].release, "manifest">> \in objects'
      BY <3>1, <3>2, <3>3
    <3>7. Uploaded(p)'
      BY <3>1, <3>2, <3>5, <3>6
    <3>8. ActiveReleaseComplete' /\ PruneAlone'
      BY <3>1, <3>2, <3>3
    <3> QED
      BY <3>4, <3>7, <3>8
  <2>3. CASE UploadPlaces(p)
    <3>1. PICK stage \in {"history", "failed"} :
            Advance(p, stage) /\ (stage = "history" => places' # NoPlaces)
      BY <2>3 DEF UploadPlaces
    <3>2. places # NoPlaces => places' # NoPlaces
      BY <2>3 DEF UploadPlaces
    <3>3. pub[p].stage = "places" /\ UNCHANGED <<objects, pointer, prune>>
      BY <2>3 DEF UploadPlaces
    <3>4. \A q \in Publishers \ {p} : Uploaded(q)'
      BY <3>1, <3>2, <3>3, UploadedKept, ZenonT(60)
    <3>5. Uploaded(p)'
      BY <3>1, <3>2, <3>3, UploadedKept
    <3>6. ActiveReleaseComplete' /\ PruneAlone'
      BY <3>2, <3>3
    <3> QED
      BY <3>4, <3>5, <3>6
  <2>4. CASE WriteHistory(p) \/ HistoryLost(p)
    BY <2>4 DEF WriteHistory, HistoryLost, HistoryMerged
  <2>5. CASE PutPointer(p)
    <3>1. Advance(p, "verify") /\ pub[p].stage = "pointer"
      BY <2>5 DEF PutPointer
    <3>2. pointer'.release = pub[p].release /\ UNCHANGED <<objects, places, prune>>
      BY <2>5 DEF PutPointer
    <3>3. ActiveReleaseComplete'
      BY <3>1, <3>2
    <3>4. prune.stage = "idle"
      BY <3>1
    <3>5. \A q \in Publishers \ {p} : Uploaded(q)'
      BY <3>1, <3>2, UploadedKept, ZenonT(60)
    <3>6. Uploaded(p)'
      BY <3>1, <3>2, UploadedKept
    <3> QED
      BY <3>2, <3>3, <3>4, <3>5, <3>6
  <2>6. CASE VerifyPointer(p)
    BY <2>6, AdvanceStage DEF VerifyPointer
  <2>7. CASE PromotionCut(p)
    <3>1. Advance(p, "failed") /\ UNCHANGED <<objects, places, pointer, prune>>
      BY <2>7 DEF PromotionCut
    <3> QED
      BY <3>1, AdvanceStage
  <2> QED
    BY <1>3, <2>1, <2>2, <2>3, <2>4, <2>5, <2>6, <2>7 DEF Promote
<1>4. CASE ReadActive
  BY <1>4 DEF ReadActive
<1>5. CASE ListReleases
  <2>1. prune'.stage = "delete" /\ prune'.active = prune.active
    BY <1>5 DEF ListReleases
  <2>2. \A object \in prune'.plan : object[1] \notin Retained(prune.active)
    BY <1>5 DEF ListReleases
  <2>3. prune.active \in Retained(prune.active)
    BY DEF Retained
  <2>4. prune.stage = "list" /\ UNCHANGED <<objects, places, pointer, pub>>
    BY <1>5 DEF ListReleases
  <2> QED
    BY <2>1, <2>2, <2>3, <2>4
<1>6. CASE DeleteObject
  BY <1>6 DEF DeleteObject
<1>7. CASE EndPrune \/ Unconfirmed \/ PruneCut
  BY <1>7 DEF EndPrune, Unconfirmed, PruneCut, NotPruning
<1> QED
  BY <1>1, <1>2, <1>3, <1>4, <1>5, <1>6, <1>7 DEF Next, Prune

\* When promotions and retention runs take turns, what serving/latest.json
\* names is complete at every moment, through interrupted promotions, interrupted
\* deletions and any retention length.
THEOREM ActiveComplete ==
  ASSUME OneAtATime
  PROVE  Spec => []ActiveReleaseComplete
<1>1. Init => PromotionInv
  BY InitTypeOK DEF Init, PromotionInv, ActiveReleaseComplete, Uploaded, PruneAlone,
     Idle, NotPruning, NoRelease, Stages
<1>2. PromotionInv /\ [Next]_vars => PromotionInv'
  BY NextPromotionInv
<1>3. PromotionInv => ActiveReleaseComplete
  BY DEF PromotionInv
<1> QED
  BY <1>1, <1>2, <1>3, PTL DEF Spec

-----------------------------------------------------------------------------
(* ServingRelease, with promotions and retention runs in turn, implements    *)
(* ReleaseShelf, and its history forgets no publication within its limit.    *)

(* The releases of a finite set of objects are finitely many. *)
LEMMA ListedFinite ==
  ASSUME IsFiniteSet(objects)
  PROVE  IsFiniteSet(Listed)
<1> DEFINE release == [object \in objects |-> object[1]]
<1>1. release \in Surjection(objects, Listed)
  BY DEF Surjection, Listed
<1> QED
  BY <1>1, FS_Surjection

(* What lies above a number is covered by fewer than k of its own, once k of
   the whole set lie above it: the k largest are above it. *)
LEMMA LargestAbove ==
  ASSUME NEW S \in SUBSET Nat, IsFiniteSet(S), NEW k \in Nat, NEW x \in Nat,
         Cardinality({q \in S : q > x}) >= k
  PROVE  Cardinality({q \in S : q > x /\ Cardinality({s \in S : s > q}) < k}) >= k
<1> DEFINE Above(q) == {s \in S : s > q}
           Few == {q \in Above(x) : Cardinality(Above(q)) < k}
<1> SUFFICES Cardinality(Few) >= k
  <2>1. Few = {q \in S : q > x /\ Cardinality({s \in S : s > q}) < k}
    OBVIOUS
  <2> HIDE DEF Few
  <2> QED
    BY <2>1
<1>1. \A q \in Nat : Above(q) \in SUBSET S /\ IsFiniteSet(Above(q)) /\ Cardinality(Above(q)) \in Nat
  BY FS_Subset, FS_CardinalityType
<1>2. \A q \in Nat : Above(q) \in SUBSET Few => Cardinality(Above(q)) <= Cardinality(Few)
  <2>1. IsFiniteSet(Few)
    BY <1>1, FS_Subset
  <2> QED
    BY <2>1, FS_Subset
<1>3. Cardinality(Few) \in Nat
  BY <1>1, FS_Subset, FS_CardinalityType
<1>4. CASE Above(x) \subseteq Few
  BY <1>1, <1>2, <1>3, <1>4
<1>5. CASE ~ (Above(x) \subseteq Few)
  <2> DEFINE Many == {q \in Above(x) : Cardinality(Above(q)) >= k}
             Sets == {Above(q) : q \in Many}
  <2>1. Many # {}
    <3>1. PICK q \in Above(x) : q \notin Few
      BY <1>5
    <3> QED
      BY <1>1, <3>1
  <2>2. Sets # {} /\ Sets \subseteq SUBSET S
    BY <2>1
  <2>3. IsWellFoundedOn(StrictSubsetOrdering(S), SUBSET S)
    BY FS_StrictSubsetOrderingWellFounded, FS_FiniteSubsetsOfFinite
  <2>4. \E least \in Sets : \A other \in Sets : <<other, least>> \notin StrictSubsetOrdering(S)
    <3> HIDE DEF Sets
    <3> QED
      BY <2>2, <2>3, WFMin
  <2>5. PICK a \in Many : \A q \in Many : <<Above(q), Above(a)>> \notin StrictSubsetOrdering(S)
    BY <2>4
  <2>6. ASSUME NEW s \in Above(a)
        PROVE  s \in Few
    <3>1. s \in Nat /\ a \in Nat /\ s > a /\ a > x
      BY <2>5
    <3>2. s \in Above(a) /\ s \notin Above(s) /\ \A t \in S : t > s => t > a
      BY <3>1
    <3>3. <<Above(s), Above(a)>> \in StrictSubsetOrdering(S)
      BY <3>2 DEF StrictSubsetOrdering
    <3>4. s \notin Many
      BY <2>5, <3>3
    <3>5. s \in Above(x)
      BY <3>1
    <3> QED
      BY <1>1, <3>1, <3>4, <3>5
  <2>7. Cardinality(Above(a)) <= Cardinality(Few) /\ Cardinality(Above(a)) >= k
    BY <1>2, <2>5, <2>6
  <2>8. Cardinality(Above(a)) \in Nat
    BY <1>1, <2>5
  <2> HIDE DEF Few, Above
  <2> QED
    BY <1>3, <2>7, <2>8
<1> QED
  BY <1>4, <1>5

-----------------------------------------------------------------------------
(* A release that is being promoted is no older than the one the pointer
   names, and no newer than the last one built. *)
InOrder ==
    /\ pointer.release <= local
    /\ \A p \in Publishers : Running(p) =>
         pointer.release <= pub[p].release /\ pub[p].release <= local

(* The releases of which something is planned for deletion. *)
Planned == {object[1] : object \in prune.plan}

(* Keep releases that stay are newer than anything the retention run deletes. *)
PlanIsOld ==
    prune.stage = "delete" =>
        /\ prune.plan \subseteq objects
        /\ \A object \in prune.plan :
             Cardinality({r \in Listed \ Planned : r > object[1]}) >= Keep

(* KeepsShelf needs, with what ActiveReleaseComplete needs, that one promotion
   runs at a time, that promotions follow the order of the builds, and that the
   deletions of a retention run leave what made the others legal. *)
ShelfInv ==
    /\ PromotionInv
    /\ IsFiniteSet(objects)
    /\ \A p, q \in Publishers : Running(p) /\ Running(q) => p = q
    /\ InOrder
    /\ PlanIsOld

LEMMA InitShelfInv == Init => ShelfInv
<1> SUFFICES ASSUME Init PROVE ShelfInv
  OBVIOUS
<1>1. PromotionInv
  BY InitTypeOK DEF Init, PromotionInv, ActiveReleaseComplete, Uploaded, PruneAlone,
     Idle, NotPruning, NoRelease, Stages
<1>2. IsFiniteSet(objects)
  BY FS_EmptySet DEF Init
<1>3. \A p \in Publishers : ~Running(p)
  BY DEF Init, Idle, Running, Stages
<1> QED
  BY <1>1, <1>2, <1>3 DEF ShelfInv, InOrder, PlanIsOld, Init, NotPruning, NoRelease

(* The plan of a retention run is old when it is made. *)
LEMMA ListingIsOld ==
  ASSUME ShelfInv, ListReleases
  PROVE  PlanIsOld'
<1> USE ServingReleaseAssumption
<1>1. prune'.plan = {object \in objects : object[1] \notin Retained(prune.active)}
  BY DEF ListReleases
<1>2. objects' = objects /\ Listed' = Listed
  BY DEF ListReleases, Listed
<1>3. Listed \in SUBSET Nat /\ IsFiniteSet(Listed)
  <2>1. objects \subseteq Releases \X Parts /\ IsFiniteSet(objects)
    BY DEF ShelfInv, PromotionInv, TypeOK
  <2>2. Listed \subseteq Releases
    BY <2>1 DEF Listed
  <2> QED
    BY <2>1, <2>2, ListedFinite
<1>4. ASSUME NEW object \in prune'.plan
      PROVE  Cardinality({r \in Listed' \ Planned' : r > object[1]}) >= Keep
  <2> DEFINE x == object[1]
             Kept == {r \in Listed : r > x /\ Cardinality({s \in Listed : s > r}) < Keep}
  <2>1. x \in Listed /\ x \notin Retained(prune.active)
    BY <1>1, <1>4 DEF Listed
  <2>2. IsFiniteSet({r \in Listed : r > x})
    BY <1>3, FS_Subset
  <2>3. Cardinality({r \in Listed : r > x}) \in Nat
    BY <2>2, FS_CardinalityType
  <2>4. ~(Cardinality({r \in Listed : r > x}) < Keep)
    BY <2>1 DEF Retained
  <2>5. Cardinality({r \in Listed : r > x}) >= Keep
    BY <2>3, <2>4
  <2>6. Cardinality(Kept) >= Keep
    BY <1>3, <2>1, <2>5, LargestAbove
  <2>7. \A r \in Planned' : r \notin Retained(prune.active)
    BY <1>1 DEF Planned
  <2>8. Kept \in SUBSET {r \in Listed \ Planned' : r > x}
    BY <2>7 DEF Retained
  <2>9. IsFiniteSet({r \in Listed \ Planned' : r > x})
    BY <1>3, FS_Subset
  <2>10. Cardinality(Kept) <= Cardinality({r \in Listed \ Planned' : r > x})
    BY <2>8, <2>9, FS_Subset
  <2>11. Cardinality(Kept) \in Nat /\ Cardinality({r \in Listed \ Planned' : r > x}) \in Nat
    BY <2>8, <2>9, FS_Subset, FS_CardinalityType
  <2> HIDE DEF Kept
  <2> QED
    BY <1>2, <2>6, <2>10, <2>11
<1> QED
  BY <1>1, <1>2, <1>4 DEF PlanIsOld

(* A deletion takes nothing from the releases that stay. *)
LEMMA DeletionKeepsOld ==
  ASSUME ShelfInv, DeleteObject
  PROVE  PlanIsOld'
<1>1. PICK gone \in prune.plan : /\ objects' = objects \ {gone}
                                 /\ prune' = [prune EXCEPT !.plan = @ \ {gone}]
  BY DEF DeleteObject
<1>2. prune.stage = "delete" /\ prune' = [prune EXCEPT !.plan = @ \ {gone}]
  BY <1>1 DEF DeleteObject
<1>3. prune'.plan = prune.plan \ {gone}
  BY <1>2 DEF ShelfInv, PromotionInv, TypeOK
<1>4. Listed \ Planned \subseteq Listed' \ Planned'
  BY <1>1, <1>3 DEF Listed, Planned
<1>5. IsFiniteSet(objects') /\ IsFiniteSet(Listed')
  <2>1. IsFiniteSet(objects')
    BY <1>1, FS_RemoveElement DEF ShelfInv
  <2> DEFINE release == [object \in objects' |-> object[1]]
  <2>2. release \in Surjection(objects', Listed')
    BY DEF Surjection, Listed
  <2> QED
    BY <2>1, <2>2, FS_Surjection
<1>6. ASSUME NEW object \in prune'.plan
      PROVE  Cardinality({r \in Listed' \ Planned' : r > object[1]}) >= Keep
  <2> DEFINE Before == {r \in Listed \ Planned : r > object[1]}
             After == {r \in Listed' \ Planned' : r > object[1]}
  <2>1. Cardinality(Before) >= Keep
    BY <1>2, <1>3 DEF ShelfInv, PlanIsOld
  <2>2. IsFiniteSet(After) /\ Before \in SUBSET After
    BY <1>4, <1>5, FS_Subset
  <2>3. /\ Cardinality(Before) <= Cardinality(After)
        /\ Cardinality(Before) \in Nat /\ Cardinality(After) \in Nat
    BY <2>2, FS_Subset, FS_CardinalityType
  <2> HIDE DEF Before
  <2>4. Cardinality(After) >= Keep
    BY <2>1, <2>3, ServingReleaseAssumption
  <2> QED
    BY <2>4
<1>7. prune'.plan \subseteq objects'
  BY <1>1, <1>2, <1>3 DEF ShelfInv, PlanIsOld
<1> QED
  BY <1>6, <1>7 DEF PlanIsOld

LEMMA ReleasesAreNumbers ==
  ASSUME TypeOK
  PROVE  pointer.release \in Nat /\ \A p \in Publishers : pub[p].release \in Nat
<1>1. Releases \cup {NoRelease} \subseteq Nat
  BY ServingReleaseAssumption DEF NoRelease
<1>2. pointer.release \in Releases \cup {NoRelease}
  BY DEF TypeOK
<1>3. ASSUME NEW p \in Publishers
      PROVE  pub[p].release \in Releases \cup {NoRelease}
  <2>1. pub[p] \in PubStates
    BY DEF TypeOK
  <2> QED
    BY <2>1 DEF PubStates
<1> QED
  BY <1>1, <1>2, <1>3

(* One promotion runs at a time, none older than the pointer. *)
LEMMA NextInOrder ==
  ASSUME OneAtATime, ShelfInv, [Next]_vars
  PROVE  (InOrder /\ \A p, q \in Publishers : Running(p) /\ Running(q) => p = q)'
<1> TypeOK
  BY DEF ShelfInv, PromotionInv
<1> USE ServingReleaseAssumption DEF ShelfInv, InOrder
<1>1. CASE UNCHANGED <<local, pointer, pub>>
  BY <1>1 DEF Running
<1>2. CASE BuildRelease
  <2>1. local' \in Nat /\ local \in Nat /\ local' > local
    BY <1>2 DEF BuildRelease, TypeOK, NoRelease
  <2>2. UNCHANGED <<pub, pointer>>
    BY <1>2 DEF BuildRelease
  <2>3. pointer.release \in Nat
    BY ReleasesAreNumbers
  <2> QED
    BY ReleasesAreNumbers, <2>1, <2>2, <2>3 DEF Running
<1>3. ASSUME NEW p \in Publishers, StartPromotion(p)
      PROVE  (InOrder /\ \A a, b \in Publishers : Running(a) /\ Running(b) => a = b)'
  <2>1. \A q \in Publishers : ~Running(q)
    BY <1>3 DEF StartPromotion, CanStart
  <2>2. /\ pub'[p].release = local /\ \A q \in Publishers \ {p} : pub'[q] = pub[q]
        /\ UNCHANGED <<local, pointer>>
    BY <1>3 DEF StartPromotion, TypeOK
  <2>3. \A q \in Publishers : Running(q)' => q = p
    BY <2>1, <2>2 DEF Running
  <2>4. local \in Nat
    BY DEF TypeOK, NoRelease
  <2> QED
    BY <2>2, <2>3, <2>4
<1>4. ASSUME NEW p \in Publishers, Promote(p) \/ HistoryLost(p) \/ PromotionCut(p)
      PROVE  (InOrder /\ \A a, b \in Publishers : Running(a) /\ Running(b) => a = b)'
  <2>1. Running(p) /\ local' = local
    BY <1>4 DEF Promote, PromotionCut, UploadManifest, UploadSurface, UploadPart, UploadPlaces,
       WriteHistory, HistoryLost, HistoryMerged, PutPointer, VerifyPointer, Running, Stages, Parts
  <2>2. \A q \in Publishers \ {p} : ~Running(q) /\ pub'[q] = pub[q]
    BY <1>4, <2>1 DEF Promote, PromotionCut, UploadManifest, UploadSurface, UploadPart,
       UploadPlaces, WriteHistory, HistoryLost, HistoryMerged, PutPointer, VerifyPointer, Advance, TypeOK
  <2>3. pub'[p].release = pub[p].release
    BY <1>4 DEF Promote, PromotionCut, UploadManifest, UploadSurface, UploadPart,
       UploadPlaces, WriteHistory, HistoryLost, HistoryMerged, PutPointer, VerifyPointer, Advance, TypeOK, PubStates
  <2>4. pointer'.release \in {pointer.release, pub[p].release}
    BY <1>4 DEF Promote, PromotionCut, UploadManifest, UploadSurface, UploadPart,
       UploadPlaces, WriteHistory, HistoryLost, HistoryMerged, PutPointer, VerifyPointer
  <2>5. pub[p].release \in Nat
    BY ReleasesAreNumbers
  <2> QED
    BY <2>1, <2>2, <2>3, <2>4, <2>5 DEF Running
<1>5. CASE Prune \/ Unconfirmed \/ PruneCut
  BY <1>1, <1>5 DEF Prune, ReadActive, ListReleases, DeleteObject, EndPrune, Unconfirmed, PruneCut
<1>6. CASE UNCHANGED vars
  BY <1>1, <1>6 DEF vars
<1> QED
  BY <1>2, <1>3, <1>4, <1>5, <1>6 DEF Next

LEMMA NextShelfInv ==
  ASSUME OneAtATime, ShelfInv, [Next]_vars
  PROVE  ShelfInv'
<1>1. PromotionInv'
  BY NextPromotionInv DEF ShelfInv
<1>2. IsFiniteSet(objects')
  <2>1. CASE objects' = objects
    BY <2>1 DEF ShelfInv
  <2>2. CASE \E object : objects' \in {objects \cup {object}, objects \ {object}}
    BY <2>2, FS_AddElement, FS_RemoveElement DEF ShelfInv
  <2>3. objects' = objects \/ \E object : objects' \in {objects \cup {object}, objects \ {object}}
    BY DEF Next, vars, BuildRelease, StartPromotion, Promote, PromotionCut, UploadManifest,
       UploadSurface, UploadPart, UploadPlaces, WriteHistory, HistoryLost, HistoryMerged, PutPointer, VerifyPointer,
       Prune, ReadActive, ListReleases, DeleteObject, EndPrune, Unconfirmed, PruneCut
  <2> QED
    BY <2>1, <2>2, <2>3
<1>3. PlanIsOld'
  <2>1. CASE ListReleases
    BY <2>1, ListingIsOld
  <2>2. CASE DeleteObject
    BY <2>2, DeletionKeepsOld
  <2>3. CASE UNCHANGED <<objects, prune>>
    BY <2>3 DEF ShelfInv, PlanIsOld, Listed, Planned
  <2>4. CASE prune'.stage # "delete"
    BY <2>4 DEF PlanIsOld
  <2>5. ASSUME NEW p \in Publishers, StartPromotion(p) \/ Promote(p) \/ HistoryLost(p) \/ PromotionCut(p)
        PROVE  prune'.stage # "delete"
    <3>1. prune.stage = "idle"
      BY <2>5 DEF StartPromotion, CanStart, Promote, PromotionCut, UploadManifest,
         UploadSurface, UploadPart, UploadPlaces, WriteHistory, HistoryLost, HistoryMerged, PutPointer, VerifyPointer,
         Running, Stages, Parts, ShelfInv, PromotionInv, PruneAlone
    <3>2. prune' = prune
      BY <2>5 DEF StartPromotion, Promote, PromotionCut, UploadManifest, UploadSurface,
         UploadPart, UploadPlaces, WriteHistory, HistoryLost, HistoryMerged, PutPointer, VerifyPointer
    <3> QED
      BY <3>1, <3>2
  <2>6. CASE BuildRelease \/ UNCHANGED vars
    BY <2>3, <2>6 DEF BuildRelease, vars
  <2>7. CASE ReadActive \/ EndPrune \/ Unconfirmed \/ PruneCut
    BY <2>4, <2>7 DEF ReadActive, EndPrune, Unconfirmed, PruneCut, NotPruning
  <2> QED
    BY <2>1, <2>2, <2>4, <2>5, <2>6, <2>7 DEF Next, Prune
<1> QED
  BY <1>1, <1>2, <1>3, NextInOrder DEF ShelfInv

-----------------------------------------------------------------------------
LEMMA ShelfStep ==
  ASSUME ShelfInv, [Next]_vars
  PROVE  [Shelf!NextShelf]_(Shelf!shelf)
<1> TypeOK
  BY DEF ShelfInv, PromotionInv
<1>1. CASE UNCHANGED <<objects, pointer>>
  BY <1>1 DEF Shelf!shelf
<1>2. ASSUME NEW p \in Publishers, UploadManifest(p) \/ UploadSurface(p)
      PROVE  Shelf!NextShelf
  <2>1. PICK part \in Parts, next \in {"surface", "places"} : UploadPart(p, part, next)
    BY <1>2 DEF UploadManifest, UploadSurface, Parts
  <2>2. Running(p)
    BY <2>1 DEF UploadPart, Running, Stages, Parts
  <2>3. pub[p].release \in Releases /\ pub[p].release >= pointer.release
    BY <2>2, ServingReleaseAssumption DEF TypeOK, PubStates, ShelfInv, InOrder, NoRelease
  <2>4. Shelf!Upload(pub[p].release, part)
    BY <2>1, <2>3 DEF UploadPart, Shelf!Upload
  <2> QED
    BY <2>3, <2>4 DEF Shelf!NextShelf, Parts, Shelf!Parts
<1>3. ASSUME NEW p \in Publishers, PutPointer(p)
      PROVE  Shelf!NextShelf
  <2>1. Running(p) /\ pub[p].stage = "pointer"
    BY <1>3 DEF PutPointer, Running, Stages
  <2>2. pub[p].release \in Releases /\ pub[p].release >= pointer.release
    BY <2>1, ServingReleaseAssumption DEF TypeOK, PubStates, ShelfInv, InOrder, NoRelease
  <2>3. Shelf!Complete(pub[p].release)
    BY <2>1 DEF ShelfInv, PromotionInv, Uploaded, Stages, Shelf!Complete, Shelf!Parts
  <2>4. Shelf!Point(pub[p].release)
    BY <1>3, <2>2, <2>3 DEF PutPointer, Shelf!Point
  <2> QED
    BY <2>2, <2>4 DEF Shelf!NextShelf
<1>4. CASE DeleteObject
  <2>1. PICK object \in prune.plan : objects' = objects \ {object}
    BY <1>4 DEF DeleteObject
  <2>2. prune.stage = "delete" /\ pointer' = pointer
    BY <1>4 DEF DeleteObject
  <2>3. object \in objects /\ object[1] # pointer.release
    BY <2>2 DEF ShelfInv, PlanIsOld, PromotionInv, PruneAlone
  <2> DEFINE Stay == {r \in Listed \ Planned : r > object[1]}
             Newer == {r \in Listed : r > object[1]}
  <2>4. Cardinality(Stay) >= Keep
    BY <2>2 DEF ShelfInv, PlanIsOld
  <2>5. IsFiniteSet(Newer) /\ Stay \in SUBSET Newer
    BY ListedFinite, FS_Subset DEF ShelfInv
  <2>6. /\ Cardinality(Stay) <= Cardinality(Newer)
        /\ Cardinality(Stay) \in Nat /\ Cardinality(Newer) \in Nat
    BY <2>5, FS_Subset, FS_CardinalityType
  <2>7. Cardinality(Newer) >= Keep
    <3> HIDE DEF Stay, Newer
    <3> QED
      BY <2>4, <2>6, ServingReleaseAssumption
  <2>8. Cardinality({r \in Shelf!Listed : r > object[1]}) >= Keep
    BY <2>7 DEF Shelf!Listed, Listed
  <2>9. Shelf!Delete(object)
    <3> HIDE DEF Stay, Newer
    <3>1. UNCHANGED pointer.release
      BY <2>2
    <3>2. Shelf!Cardinality({r \in Shelf!Listed : r > object[1]})
          = Cardinality({r \in Shelf!Listed : r > object[1]})
      BY Zenon DEF Shelf!Cardinality, Cardinality
    <3> QED
      BY <2>1, <2>3, <2>8, <3>1, <3>2 DEF Shelf!Delete
  <2> QED
    BY <2>3, <2>9 DEF Shelf!NextShelf
<1>5. ASSUME NEW p \in Publishers, StartPromotion(p) \/ UploadPlaces(p) \/ WriteHistory(p)
                                  \/ HistoryLost(p) \/ VerifyPointer(p) \/ PromotionCut(p)
      PROVE  UNCHANGED <<objects, pointer>>
  BY <1>5 DEF StartPromotion, UploadPlaces, WriteHistory, HistoryLost, HistoryMerged, VerifyPointer,
     PromotionCut
<1>6. CASE BuildRelease \/ ReadActive \/ ListReleases \/ EndPrune \/ Unconfirmed \/ PruneCut
           \/ UNCHANGED vars
  BY <1>1, <1>6 DEF BuildRelease, ReadActive, ListReleases, EndPrune, Unconfirmed, PruneCut, vars
<1> QED
  BY <1>1, <1>2, <1>3, <1>4, <1>5, <1>6 DEF Next, Promote, Prune

\* What publication promises to readers is kept by every step of the promotions
\* and retention runs that take turns: the pointer moves forward to complete
\* releases only, and only what Keep newer releases have replaced is deleted,
\* whichever promotion or deletion is cut short.
THEOREM PublicationKeepsShelf ==
  ASSUME OneAtATime
  PROVE  Spec => KeepsShelf
<1>1. ShelfInv /\ [Next]_vars => ShelfInv'
  BY NextShelfInv
<1>2. ShelfInv /\ [Next]_vars => [Shelf!NextShelf]_(Shelf!shelf)
  BY ShelfStep
<1>3. Init => Shelf!EmptyShelf
  BY DEF Init, Shelf!EmptyShelf, Shelf!NoRelease, NoRelease
<1> QED
  BY <1>1, <1>2, <1>3, InitShelfInv, PTL DEF Spec, KeepsShelf, Shelf!SpecShelf

-----------------------------------------------------------------------------
(* The history.                                                            *)

(* What the limit has cut off the history is never needed again: whatever
   older rows the local reports put back, merging the cut history gives what
   merging the whole history gives. *)
LEMMA LatestOfLatest ==
  ASSUME NEW S \in SUBSET Releases, IsFiniteSet(S), NEW seed \in SUBSET S, NEW r \in Releases
  PROVE  Latest(seed \cup Latest(S) \cup {r}) = Latest(S \cup {r})
<1> DEFINE all == S \cup {r}
           some == seed \cup Latest(S) \cup {r}
           Above(T, x) == {q \in T : q > x}
<1>1. all \in SUBSET Nat /\ IsFiniteSet(all) /\ some \in SUBSET all /\ S \in SUBSET all
  BY FS_AddElement, ServingReleaseAssumption DEF Latest
<1>2. \A T \in SUBSET all : \A x : IsFiniteSet(Above(T, x)) /\ Cardinality(Above(T, x)) \in Nat
  BY <1>1, FS_Subset, FS_CardinalityType
<1>3. \A T \in SUBSET all : \A U \in SUBSET T : \A x : Cardinality(Above(U, x)) <= Cardinality(Above(T, x))
  <2> TAKE T \in SUBSET all
  <2> TAKE U \in SUBSET T
  <2> TAKE x
  <2>1. Above(U, x) \in SUBSET Above(T, x) /\ IsFiniteSet(Above(T, x))
    BY <1>2
  <2> QED
    BY <2>1, FS_Subset
<1>4. HistoryLimit \in Nat \ {0}
  BY ServingReleaseAssumption
<1>5. Latest(all) \subseteq some
  <2> SUFFICES ASSUME NEW x \in Latest(all), x # r
               PROVE  x \in Latest(S)
    BY DEF Latest
  <2>1. x \in S /\ Cardinality(Above(all, x)) < HistoryLimit
    BY DEF Latest
  <2>2. Cardinality(Above(S, x)) <= Cardinality(Above(all, x))
    BY <1>1, <1>3
  <2>3. Cardinality(Above(S, x)) \in Nat /\ Cardinality(Above(all, x)) \in Nat
    BY <1>1, <1>2
  <2>4. Cardinality(Above(S, x)) < HistoryLimit
    <3> HIDE DEF Above, all
    <3> QED
      BY <2>1, <2>2, <2>3, <1>4
  <2> QED
    BY <2>1, <2>4 DEF Latest
<1>6. ASSUME NEW x \in Latest(all)
      PROVE  x \in Latest(some)
  <2>1. x \in some /\ Cardinality(Above(all, x)) < HistoryLimit
    BY <1>5 DEF Latest
  <2>2. /\ Cardinality(Above(some, x)) <= Cardinality(Above(all, x))
        /\ Cardinality(Above(some, x)) \in Nat /\ Cardinality(Above(all, x)) \in Nat
    BY <1>1, <1>2, <1>3
  <2>3. Cardinality(Above(some, x)) < HistoryLimit
    <3> HIDE DEF Above, all, some
    <3> QED
      BY <2>1, <2>2, <1>4
  <2> QED
    BY <2>1, <2>3 DEF Latest
<1>7. ASSUME NEW x \in Latest(some), x \notin Latest(all)
      PROVE  FALSE
  <2>1. x \in all /\ x \in Nat /\ Cardinality(Above(some, x)) < HistoryLimit
    BY <1>1, <1>7 DEF Latest
  <2>2. ~(Cardinality(Above(all, x)) < HistoryLimit)
    BY <1>7, <2>1 DEF Latest
  <2>3. Cardinality(Above(all, x)) >= HistoryLimit
    <3>1. Cardinality(Above(all, x)) \in Nat
      BY <1>1, <1>2
    <3> HIDE DEF Above, all
    <3> QED
      BY <2>2, <3>1, <1>4
  <2> DEFINE newer == {q \in all : q > x /\ Cardinality({s \in all : s > q}) < HistoryLimit}
  <2>4. Cardinality(newer) >= HistoryLimit
    <3> HIDE DEF all
    <3> QED
      BY <1>1, <1>4, <2>1, <2>3, LargestAbove
  <2>5. newer \in SUBSET Above(some, x)
    BY <1>5 DEF Latest
  <2>6. IsFiniteSet(Above(some, x)) /\ Cardinality(Above(some, x)) \in Nat
    BY <1>1, <1>2
  <2>7. Cardinality(newer) <= Cardinality(Above(some, x)) /\ Cardinality(newer) \in Nat
    <3> HIDE DEF newer, Above, some
    <3> QED
      BY <2>5, <2>6, FS_Subset, FS_CardinalityType
  <2> HIDE DEF newer, Above, some
  <2> QED
    BY <1>4, <2>1, <2>4, <2>6, <2>7
<1> QED
  BY <1>6, <1>7 DEF Latest

(* HistoryRemembers needs, beyond one promotion at a time, that the reports and
   the pointer speak of what is remembered as published, and that the history
   about to be named was merged with the one the pointer still names, unless it
   was lost. *)
Merged(p) ==
    pub[p].stage = "pointer" =>
        pub[p].history = MergeHistory(pub[p].release, IF pub[p].lost THEN {} ELSE pointer.history)

Remembered ==
    /\ HistoryRemembers
    /\ IsFiniteSet(published)
    /\ reports \subseteq published
    /\ pointer.release # NoRelease => pointer.release \in published

HistoryInv ==
    /\ ShelfInv
    /\ Remembered
    /\ \A p \in Publishers : Merged(p)

LEMMA NextHistoryInv ==
  ASSUME OneAtATime, HistoryInv, [Next]_vars
  PROVE  HistoryInv'
<1>1. TypeOK /\ ShelfInv'
  BY NextShelfInv DEF HistoryInv, ShelfInv, PromotionInv
<1>2. \A p, q \in Publishers : Running(p) /\ Running(q) => p = q
  BY DEF HistoryInv, ShelfInv
<1> DEFINE Goal == Remembered' /\ \A p \in Publishers : Merged(p)'
<1>3. ASSUME NEW p \in Publishers, PutPointer(p)
      PROVE  Goal
  <2> DEFINE r == pub[p].release
             kept == IF pub[p].lost THEN published \cap reports ELSE published
  <2>1. /\ pub[p].stage = "pointer" /\ pointer'.release = r /\ pointer'.history = pub[p].history
        /\ published' = {r} \cup kept /\ Advance(p, "verify") /\ reports' = reports
    BY <1>3 DEF PutPointer
  <2>2. r \in Releases
    BY <1>1, <2>1 DEF TypeOK, PubStates, Running, Stages
  <2>3. pub[p].history = MergeHistory(r, IF pub[p].lost THEN {} ELSE pointer.history)
    BY <2>1 DEF HistoryInv, Merged
  <2>4. kept \in SUBSET Releases /\ IsFiniteSet(kept) /\ reports \in SUBSET kept
    BY <1>1, FS_Subset DEF HistoryInv, Remembered, TypeOK
  <2>5. pub[p].history = Latest(kept \cup {r})
    <3>1. CASE pub[p].lost
      BY <2>3, <3>1 DEF MergeHistory, HistoryInv, Remembered
    <3>2. CASE ~pub[p].lost
      <4>1. pub[p].history = Latest(reports \cup Latest(kept) \cup {r})
        BY <2>3, <3>2 DEF MergeHistory, HistoryInv, Remembered, HistoryRemembers
      <4> HIDE DEF kept, r
      <4> QED
        BY <2>2, <2>4, <4>1, LatestOfLatest
    <3> QED
      BY <3>1, <3>2
  <2>6. pointer'.history = Latest(published')
    BY <2>1, <2>5
  <2>7. IsFiniteSet(published')
    BY <2>1, <2>4, FS_AddElement
  <2>8. \A q \in Publishers : pub'[q].stage # "pointer"
    BY <1>1, <1>2, <2>1, AdvanceStage DEF TypeOK, Running, Stages
  <2> QED
    BY <2>1, <2>4, <2>6, <2>7, <2>8 DEF Remembered, HistoryRemembers, Latest, Merged
<1>4. ASSUME NEW p \in Publishers, VerifyPointer(p)
      PROVE  Goal
  <2>1. /\ pub[p].stage = "verify" /\ pointer' = pointer /\ published' = published
        /\ \E stage \in {"done", "failed"} : Advance(p, stage)
        /\ reports' \subseteq reports \cup {pointer.release}
        /\ reports' = reports \/ pointer.release = pub[p].release
    BY <1>4 DEF VerifyPointer
  <2>2. pub[p].release # NoRelease
    BY <1>1, <2>1 DEF TypeOK, Running, Stages
  <2>3. reports' \subseteq published
    BY <2>1, <2>2 DEF HistoryInv, Remembered
  <2>4. \A q \in Publishers : pub'[q].stage # "pointer"
    BY <1>1, <1>2, <2>1, AdvanceStage DEF TypeOK, Running, Stages
  <2> QED
    BY <2>1, <2>3, <2>4 DEF HistoryInv, Remembered, HistoryRemembers, Latest, Merged
<1>5. ASSUME NEW p \in Publishers, WriteHistory(p) \/ HistoryLost(p)
      PROVE  Goal
  <2>1. PICK lost \in BOOLEAN : HistoryMerged(p, IF lost THEN {} ELSE pointer.history, lost)
    BY <1>5 DEF WriteHistory, HistoryLost
  <2>2. /\ pub' = [pub EXCEPT ![p] = [stage |-> "pointer", release |-> pub[p].release, lost |-> lost,
                    history |-> MergeHistory(pub[p].release, IF lost THEN {} ELSE pointer.history)]]
        /\ UNCHANGED <<pointer, reports, published>>
    BY <2>1 DEF HistoryMerged
  <2>3. \A q \in Publishers \ {p} : pub'[q] = pub[q]
    BY <2>2 DEF HistoryInv, ShelfInv, PromotionInv, TypeOK
  <2>4. /\ pub'[p].release = pub[p].release /\ pub'[p].lost = lost
        /\ pub'[p].history = MergeHistory(pub[p].release, IF lost THEN {} ELSE pointer.history)
    BY <1>1, <2>2 DEF TypeOK
  <2>5. ASSUME NEW q \in Publishers \ {p}
        PROVE  Merged(q)'
    <3>1. Merged(q) /\ pub'[q] = pub[q]
      BY <2>3 DEF HistoryInv
    <3> QED
      BY <2>2, <3>1 DEF Merged, MergeHistory
  <2>6. Merged(p)'
    BY <2>2, <2>4 DEF Merged, MergeHistory
  <2>7. Remembered'
    BY <2>2 DEF HistoryInv, Remembered, HistoryRemembers
  <2> QED
    BY <2>5, <2>6, <2>7
<1>6. ASSUME UNCHANGED <<pointer, reports, published>>,
             \A p \in Publishers : pub'[p].stage = "pointer" => pub'[p] = pub[p]
      PROVE  Goal
  <2>1. Remembered'
    BY <1>6 DEF HistoryInv, Remembered, HistoryRemembers
  <2>2. ASSUME NEW p \in Publishers, pub'[p].stage = "pointer"
        PROVE  Merged(p)'
    <3>1. Merged(p) /\ pub'[p] = pub[p]
      BY <1>6, <2>2 DEF HistoryInv
    <3> QED
      BY <1>6, <3>1 DEF Merged, MergeHistory
  <2> QED
    BY <2>1, <2>2 DEF Merged
<1>7. ASSUME NEW p \in Publishers, StartPromotion(p)
      PROVE  Goal
  BY <1>1, <1>6, <1>7 DEF StartPromotion, TypeOK
<1>8. ASSUME NEW p \in Publishers, UploadManifest(p) \/ UploadSurface(p) \/ UploadPlaces(p) \/ PromotionCut(p)
      PROVE  Goal
  <2>1. UNCHANGED <<pointer, reports, published>>
    BY <1>8 DEF UploadManifest, UploadSurface, UploadPart, UploadPlaces, PromotionCut
  <2>2. PICK stage \in {"surface", "places", "history", "failed"} : Advance(p, stage)
    BY <1>8 DEF UploadManifest, UploadSurface, UploadPart, UploadPlaces, PromotionCut
  <2> QED
    BY <1>1, <1>6, <2>1, <2>2, AdvanceStage DEF TypeOK, Stages
<1>9. ASSUME BuildRelease \/ Prune \/ Unconfirmed \/ PruneCut \/ UNCHANGED vars
      PROVE  Goal
  <2>1. UNCHANGED <<pointer, reports, published, pub>>
    BY <1>9 DEF BuildRelease, Prune, ReadActive, ListReleases, DeleteObject, EndPrune,
       Unconfirmed, PruneCut, vars
  <2> QED
    BY <1>6, <2>1
<1>10. Goal
  <2> HIDE DEF Goal
  <2> QED
    BY <1>3, <1>4, <1>5, <1>7, <1>8, <1>9 DEF Next, Promote
<1> QED
  BY <1>1, <1>10 DEF HistoryInv

\* With promotions in turn the history that serving/latest.json names lists the
\* latest publications, for any limit: what the limit cuts off, and promotions that
\* are cut short or repeated, lose none of them.  What a promotion forgets when it
\* fails to read the history is what no local report tells, and nothing else.
THEOREM HistoryComplete ==
  ASSUME OneAtATime
  PROVE  Spec => []HistoryRemembers
<1>1. Init => HistoryInv
  <2> SUFFICES ASSUME Init PROVE HistoryInv
    OBVIOUS
  <2>1. ShelfInv
    BY InitShelfInv
  <2>2. Remembered
    BY FS_EmptySet DEF Init, Remembered, HistoryRemembers, Latest
  <2>3. \A p \in Publishers : pub[p].stage # "pointer"
    BY DEF Init, Idle
  <2> QED
    BY <2>1, <2>2, <2>3 DEF HistoryInv, Merged
<1>2. HistoryInv /\ [Next]_vars => HistoryInv'
  BY NextHistoryInv
<1>3. HistoryInv => HistoryRemembers
  BY DEF HistoryInv, Remembered
<1> QED
  BY <1>1, <1>2, <1>3, PTL DEF Spec
=============================================================================
