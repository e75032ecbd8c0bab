------------------------------ MODULE OutboxProofs ------------------------------
(* Outbox keeps the store consistent, delivers before it publishes and        *)
(* implements PublicationPromise, whichever senders overlap with each other   *)
(* and with the cleanup of a local store.  For any number of publications,    *)
(* senders, attempts and faults, any batch limit and any cleanup.             *)
EXTENDS Outbox, FiniteSetTheorems, WellFoundedInduction, TLAPS

(* A set of natural numbers that has a member has a least one. *)
LEMMA LeastNatural ==
  ASSUME NEW S \in SUBSET Nat, S # {}
  PROVE  \E p \in S : \A q \in S : p <= q
<1> DEFINE Less == {pair \in Nat \X Nat : pair[1] < pair[2]}
<1>1. IsWellFoundedOn(Less, Nat)
  BY NatLessThanWellFounded DEF OpToRel
<1>2. PICK p \in S : \A q \in S : <<q, p>> \notin Less
  <2> HIDE DEF Less
  <2> QED
    BY <1>1, WFMin
<1>3. ASSUME NEW q \in S, q < p
      PROVE  FALSE
  <2>1. <<q, p>> \in Nat \X Nat /\ <<q, p>>[1] = q /\ <<q, p>>[2] = p
    BY <1>2
  <2> QED
    BY <1>2, <1>3, <2>1
<1> QED
  BY <1>2, <1>3

LEMMA PubsFinite == \A S \in SUBSET Pubs : IsFiniteSet(S)
<1>1. NumPubs \in Int /\ 1 \in Int
  BY OutboxAssumption
<1>2. IsFiniteSet(1..NumPubs)
  BY <1>1, FS_Interval
<1> QED
  BY <1>2, FS_Subset DEF Pubs

(* The row that a batch has come to is one of its rows. *)
LEMMA PubInBatch ==
  ASSUME TypeOK, NEW s \in Senders, sender[s].batch # {}
  PROVE  Pub(s) \in sender[s].batch /\ Pub(s) \in Pubs
<1>1. sender[s].batch \in SUBSET Pubs /\ Pubs \subseteq Nat
  BY OutboxAssumption DEF TypeOK, Batches, Pubs
<1> QED
  BY <1>1, LeastNatural DEF Pub

-----------------------------------------------------------------------------
Sending == {"snapshot", "pointer", "audit", "http", "register"}

Unsettled == {"pending", "failed"}

(* An unsettled row has attempts left. *)
AttemptsLeft(rows) ==
    \A p \in Pubs : rows[p].status \in Unsettled => rows[p].attempts < MaxAttempts

(* What the call of retry_publications of s has in memory: a row of the batch
   that it has not finished is unsettled, as it was loaded, and only the one it
   has come to may have used up its attempts. *)
RowsAhead(s) ==
    \A p \in sender[s].batch :
        /\ sender[s].loaded[p].status \in Unsettled
        /\ sender[s].work[p].status = sender[s].loaded[p].status
        /\ sender[s].stage \notin Sending \/ p # Pub(s) => sender[s].work[p].attempts < MaxAttempts

(* A row that it has finished, or that is none of its own. *)
RowsBehind(s) ==
    \A p \in Pubs \ sender[s].batch :
        /\ sender[s].work[p].status \in Unsettled => sender[s].work[p].attempts < MaxAttempts
        /\ sender[s].work[p] # sender[s].loaded[p] =>
             /\ sender[s].loaded[p].status \in Unsettled
             /\ sender[s].work[p].status \in {"failed", "dead_letter", "published"}
             /\ sender[s].work[p].status = "published" => Delivered(p)

(* The batch is what is left of the rows that were due; the others are neither
   read nor written. *)
RowsHeld(s) ==
    /\ sender[s].batch \subseteq sender[s].rows
    /\ sender[s].stage = "idle" => sender[s].rows = {}
    /\ \A p \in sender[s].rows : sender[s].loaded[p].status # "absent"
    /\ \A p \in Pubs \ sender[s].rows : sender[s].work[p] = sender[s].loaded[p]

(* A snapshot that has been put is in the store or has been replaced. *)
Kept(p) == p \in snapshots \/ Replaced(p)

(* The cleanup deletes no snapshot but such as enough newer ones have replaced,
   also when its plan has grown old. *)
PlanLegal ==
    \A item \in plan : item[1] = "snapshot" => item[2] \in snapshots /\ Replaced(item[2])

(* How far the uploads of the row have come that s sends. *)
SentSoFar(s) ==
    /\ sender[s].stage \in Sending => sender[s].batch # {}
    /\ sender[s].stage \in {"snapshot", "pointer", "audit"} => transport # "http"
    /\ sender[s].stage \in {"pointer", "audit"} => Kept(Pub(s))
    /\ sender[s].stage = "http" => /\ transport # "object_store"
                                   /\ transport = "both" => Pub(s) \in audit
    /\ sender[s].stage = "register" => Delivered(Pub(s))

(* Rows are never deleted. *)
StillQueued(s) ==
    \A p \in Pubs : sender[s].loaded[p].status # "absent" => row[p].status # "absent"

BatchInv(s) == RowsAhead(s) /\ RowsBehind(s) /\ RowsHeld(s) /\ SentSoFar(s) /\ StillQueued(s)

PublishedIsDelivered == \A p \in Pubs : row[p].status = "published" => Delivered(p)

(* Safe is not inductive: that the types hold needs that no unsettled row has
   used up its attempts, and that the pointer names a snapshot needs how far
   each sender has come and what the cleanup still means to delete. *)
Inv ==
    /\ Safe
    /\ PlanLegal
    /\ AttemptsLeft(row)
    /\ PublishedIsDelivered
    /\ \A s \in Senders : BatchInv(s)

LEMMA InitInv == Init => Inv
<1> SUFFICES ASSUME Init
             PROVE  Inv
  OBVIOUS
<1> USE OutboxAssumption DEF Init, NoRows, Row, Idle, NoPub
<1>1. TypeOK
  BY DEF TypeOK, Rows, Batches
<1>2. RemoteConsistent /\ PlanLegal /\ AttemptsLeft(row) /\ PublishedIsDelivered
  BY DEF RemoteConsistent, PlanLegal, AttemptsLeft, Unsettled, PublishedIsDelivered
<1>3. ASSUME NEW s \in Senders
      PROVE  BatchInv(s)
  BY DEF BatchInv, RowsAhead, RowsBehind, RowsHeld, SentSoFar, StillQueued, Unsettled, Sending
<1> QED
  BY <1>1, <1>2, <1>3 DEF Inv, Safe

-----------------------------------------------------------------------------
(* What a sender has in memory is not touched by the steps of others. *)
LEMMA BatchKept ==
  ASSUME TypeOK, NEW s \in Senders, BatchInv(s),
         sender'[s] = sender[s], transport' = transport,
         \A p \in Pubs : Kept(p) => Kept(p)',
         audit \subseteq audit', accepted \subseteq accepted',
         \A p \in Pubs : row[p].status # "absent" => row'[p].status # "absent"
  PROVE  BatchInv(s)'
<1>1. Pub(s)' = Pub(s)
  BY DEF Pub
<1>2. \A p : Delivered(p) => Delivered(p)'
  BY DEF Delivered
<1>3. RowsAhead(s)'
  BY <1>1 DEF BatchInv, RowsAhead
<1>4. RowsBehind(s)'
  BY <1>2 DEF BatchInv, RowsBehind
<1>5. SentSoFar(s)'
  <2>1. sender[s].batch # {} => Pub(s) \in Pubs
    BY PubInBatch
  <2>2. ASSUME sender[s].stage \in {"pointer", "audit"}
        PROVE  Kept(Pub(s))'
    <3>1. Pub(s) \in Pubs /\ Kept(Pub(s))
      BY <2>1, <2>2 DEF BatchInv, SentSoFar, Sending
    <3> HIDE DEF Pub, Kept
    <3>2. \A p : p = Pub(s) => (p \in Pubs /\ Kept(p))
      BY <3>1
    <3>3. \A p : p = Pub(s) => Kept(p)'
      BY <3>2
    <3> QED
      BY <1>1, <3>3
  <2> HIDE DEF Kept
  <2> QED
    BY <1>1, <1>2, <2>2 DEF BatchInv, SentSoFar
<1>6. StillQueued(s)' /\ RowsHeld(s)'
  BY DEF BatchInv, StillQueued, RowsHeld
<1> QED
  BY <1>3, <1>4, <1>5, <1>6 DEF BatchInv

(* Published rows stay delivered. *)
LEMMA DeliveredKept ==
  ASSUME PublishedIsDelivered, transport' = transport,
         audit \subseteq audit', accepted \subseteq accepted',
         \A p \in Pubs : row'[p].status = "published" => row[p].status = "published"
  PROVE  PublishedIsDelivered'
  BY DEF PublishedIsDelivered, Delivered

(* What neither puts nor deletes keeps every snapshot, and the plan. *)
LEMMA StoreKept ==
  ASSUME UNCHANGED <<local, snapshots, newer>>
  PROVE  /\ \A p : Kept(p) <=> Kept(p)'
         /\ plan' \subseteq plan /\ PlanLegal => PlanLegal'
<1>1. \A p : Replaced(p) <=> Replaced(p)'
  BY DEF Replaced
<1> QED
  BY <1>1 DEF Kept, PlanLegal

(* The consistency of the store by what is kept. *)
LEMMA Consistent == RemoteConsistent <=> \A p \in (audit \cup {latest}) \ {NoPub} : Kept(p)
  BY DEF RemoteConsistent, Kept

(* A snapshot that was replaced stays so, until it is put again; and what is
   put is in the store. *)
LEMMA StoreSnapshotKeeps ==
  ASSUME TypeOK, NEW p \in Pubs, StoreSnapshot(p), UNCHANGED <<local, plan>>, PlanLegal
  PROVE  /\ snapshots' = snapshots \cup {p} /\ newer' \in [Pubs -> SUBSET Pubs]
         /\ \A q \in Pubs : Kept(q) => Kept(q)'
         /\ Kept(p)' /\ PlanLegal'
<1>1. snapshots' = snapshots \cup {p}
  BY DEF StoreSnapshot
<1>2. newer' \in [Pubs -> SUBSET Pubs]
  BY DEF StoreSnapshot, TypeOK
<1>3. ASSUME NEW q \in Pubs, Replaced(q), q # p \/ p \in snapshots
      PROVE  Replaced(q)'
  <2>1. newer[q] \subseteq newer'[q] /\ newer'[q] \subseteq Pubs
    BY <1>3 DEF StoreSnapshot, TypeOK
  <2>2. IsFiniteSet(newer'[q])
    BY <2>1, PubsFinite
  <2>3. Cardinality(newer[q]) <= Cardinality(newer'[q])
    BY <2>1, <2>2, FS_Subset
  <2>4. Cardinality(newer[q]) \in Nat /\ Cardinality(newer'[q]) \in Nat
    BY <2>1, <2>2, FS_Subset, FS_CardinalityType
  <2> QED
    BY <1>3, <2>3, <2>4, OutboxAssumption DEF Replaced
<1>4. \A q \in Pubs : Kept(q) => Kept(q)'
  BY <1>1, <1>3 DEF Kept
<1>5. PlanLegal'
  <2>1. ASSUME NEW item \in plan', item[1] = "snapshot"
        PROVE  item[2] \in snapshots' /\ Replaced(item[2])'
    <3>1. item[2] \in snapshots /\ Replaced(item[2]) /\ item[2] \in Pubs
      BY <2>1 DEF PlanLegal, TypeOK
    <3> DEFINE q == item[2]
    <3>2. q \in snapshots /\ Replaced(q) /\ q \in Pubs
      BY <3>1
    <3> HIDE DEF q
    <3>3. Replaced(q)'
      BY <1>3, <3>2
    <3> QED
      BY <1>1, <3>2, <3>3 DEF q
  <2> QED
    BY <2>1 DEF PlanLegal
<1> QED
  BY <1>1, <1>2, <1>4, <1>5 DEF Kept

(* The steps outside retry_publications: rows are queued and become due. *)
LEMMA QueueKeepsInv ==
  ASSUME Inv, NEW p \in Pubs, Enqueue(p) \/ BackoffElapses(p)
  PROVE  Inv'
<1> USE OutboxAssumption DEF remote, config
<1>1. Safe /\ PlanLegal /\ AttemptsLeft(row) /\ PublishedIsDelivered /\ \A s \in Senders : BatchInv(s)
  BY DEF Inv
<1>2. TypeOK /\ RemoteConsistent
  BY <1>1 DEF Safe
<1>3. UNCHANGED <<config, remote, sender, plan, faults>>
  BY DEF Enqueue, BackoffElapses
<1> DEFINE RowsGrow ==
             /\ row' \in [Pubs -> Rows] /\ files' \subseteq Pubs
             /\ AttemptsLeft(row)'
             /\ \A q \in Pubs : /\ row[q].status # "absent" => row'[q].status # "absent"
                                /\ row'[q].status = "published" => row[q].status = "published"
<1>4. RowsGrow
  <2> USE <1>1, <1>2 DEF TypeOK, Rows, AttemptsLeft, Unsettled
  <2>1. CASE Enqueue(p)
    BY <2>1 DEF Enqueue, Row
  <2>2. CASE BackoffElapses(p)
    BY <2>2 DEF BackoffElapses
  <2> QED
    BY <2>1, <2>2
<1>5. TypeOK' /\ RemoteConsistent'
  BY <1>2, <1>3, <1>4 DEF TypeOK, RemoteConsistent, Replaced
<1>6. PublishedIsDelivered'
  BY <1>1, <1>3, <1>4, DeliveredKept
<1>7. PlanLegal' /\ \A q : Kept(q) => Kept(q)'
  BY <1>1, <1>3, StoreKept
<1>8. \A s \in Senders : BatchInv(s)'
  BY <1>1, <1>2, <1>3, <1>4, <1>7, BatchKept
<1> QED
  BY <1>4, <1>5, <1>6, <1>7, <1>8 DEF Inv, Safe

(* The cleanup: what it plans to delete has been replaced, and stays so. *)
LEMMA CleanupKeepsInv ==
  ASSUME Inv, PlanCleanup \/ Clean \/ CleanupEnds
  PROVE  Inv'
<1> USE OutboxAssumption DEF remote, config
<1>1. Safe /\ PlanLegal /\ AttemptsLeft(row) /\ PublishedIsDelivered /\ \A s \in Senders : BatchInv(s)
  BY DEF Inv
<1>2. TypeOK /\ RemoteConsistent
  BY <1>1 DEF Safe
<1>3. UNCHANGED <<config, row, newer, latest, audit, accepted, sender, faults>>
  BY DEF PlanCleanup, Clean, CleanupEnds
<1>4. \A q : Replaced(q) <=> Replaced(q)'
  BY <1>3 DEF Replaced
<1>5. /\ files' \subseteq Pubs /\ snapshots' \subseteq snapshots /\ plan' \subseteq {"payload", "snapshot"} \X Pubs
      /\ \A q \in snapshots \ snapshots' : Replaced(q)
      /\ PlanLegal'
  <2>1. CASE PlanCleanup
    <3>1. OldFiles \subseteq Pubs /\ OldSnapshots \subseteq snapshots /\ snapshots \subseteq Pubs
      BY <1>2 DEF OldFiles, OldSnapshots, TypeOK
    <3>2. plan' = ({"payload"} \X OldFiles) \cup ({"snapshot"} \X OldSnapshots)
      BY <2>1 DEF PlanCleanup
    <3>3. ASSUME NEW q \in OldSnapshots
          PROVE  Replaced(q)
      <4>1. local /\ q \in Pubs /\ newer[q] \subseteq Pubs
        BY <1>2, <3>1, <3>3 DEF OldSnapshots, TypeOK
      <4>2. IsFiniteSet(newer[q])
        BY <4>1, PubsFinite
      <4> DEFINE counted == (newer[q] \cap snapshots) \ {latest}
      <4>3. counted \subseteq newer[q]
        OBVIOUS
      <4>4. IsFiniteSet(counted) /\ Cardinality(counted) <= Cardinality(newer[q])
        BY <4>2, <4>3, FS_Subset
      <4>5. Cardinality(counted) \in Nat /\ Cardinality(newer[q]) \in Nat
        BY <4>2, <4>4, FS_CardinalityType
      <4>6. Cardinality(counted) >= KeepSnapshots
        BY <3>3 DEF OldSnapshots
      <4> HIDE DEF counted
      <4> QED
        BY <4>1, <4>4, <4>5, <4>6 DEF Replaced
    <3>4. snapshots' = snapshots /\ files' = files
      BY <2>1 DEF PlanCleanup
    <3>5. \A item \in plan' : item[1] = "snapshot" => item[2] \in OldSnapshots
      BY <3>2
    <3>6. PlanLegal'
      BY <1>4, <3>1, <3>3, <3>4, <3>5 DEF PlanLegal
    <3>7. plan' \subseteq {"payload", "snapshot"} \X Pubs
      BY <3>1, <3>2
    <3> QED
      BY <1>2, <3>4, <3>6, <3>7 DEF TypeOK
  <2>2. CASE Clean
    <3>1. PICK item \in plan :
            /\ plan' = plan \ {item}
            /\ files' = IF item[1] = "payload" THEN files \ {item[2]} ELSE files
            /\ snapshots' = IF item[1] = "snapshot" THEN snapshots \ {item[2]} ELSE snapshots
      BY <2>2 DEF Clean
    <3>2. \A q \in snapshots \ snapshots' : Replaced(q)
      BY <1>1, <3>1 DEF PlanLegal
    <3>3. ASSUME NEW other \in plan', other[1] = "snapshot"
          PROVE  other[2] \in snapshots' /\ Replaced(other[2])'
      <4>1. other \in plan /\ other # item
        BY <3>1
      <4>2. other[2] \in snapshots /\ Replaced(other[2])
        BY <1>1, <3>3, <4>1 DEF PlanLegal
      <4>3. item \in {"payload", "snapshot"} \X Pubs /\ other \in {"payload", "snapshot"} \X Pubs
        BY <1>2, <4>1 DEF TypeOK
      <4>4. item[1] = "snapshot" => item[2] # other[2]
        BY <3>3, <4>1, <4>3
      <4> QED
        BY <1>4, <3>1, <4>2, <4>4
    <3> QED
      BY <1>2, <3>1, <3>2, <3>3 DEF TypeOK, PlanLegal
  <2>3. CASE CleanupEnds
    BY <1>2, <2>3 DEF CleanupEnds, TypeOK, PlanLegal
  <2> QED
    BY <2>1, <2>2, <2>3
<1>6. \A q : Kept(q) => Kept(q)'
  BY <1>4, <1>5 DEF Kept
<1>7. TypeOK'
  BY <1>2, <1>3, <1>5 DEF TypeOK
<1>8. RemoteConsistent'
  <2>1. \A q \in (audit \cup {latest}) \ {NoPub} : Kept(q)
    BY <1>2, Consistent
  <2>2. \A q \in (audit' \cup {latest'}) \ {NoPub} : Kept(q)'
    BY <1>3, <1>6, <2>1
  <2> QED
    BY <2>2 DEF RemoteConsistent, Kept
<1>9. AttemptsLeft(row)' /\ PublishedIsDelivered'
  BY <1>1, <1>3, DeliveredKept DEF AttemptsLeft
<1>10. \A s \in Senders : BatchInv(s)'
  BY <1>1, <1>2, <1>3, <1>6, BatchKept
<1> QED
  BY <1>5, <1>7, <1>8, <1>9, <1>10 DEF Inv, Safe

-----------------------------------------------------------------------------
(* Load: the rows that are due are unsettled and have attempts left. *)
LEMMA LoadKeepsInv ==
  ASSUME Inv, NEW s \in Senders, Load(s)
  PROVE  Inv'
<1> USE OutboxAssumption DEF remote, config
<1>1. Safe /\ PlanLegal /\ AttemptsLeft(row) /\ PublishedIsDelivered /\ \A t \in Senders : BatchInv(t)
  BY DEF Inv
<1>2. TypeOK /\ RemoteConsistent
  BY <1>1 DEF Safe
<1>3. UNCHANGED <<config, row, files, remote, plan, faults>>
  BY DEF Load
<1>4. FirstDue \subseteq Due /\ Due \subseteq Pubs
  BY DEF FirstDue, Due
<1> DEFINE loaded == [p \in Pubs |-> IF p \in FirstDue THEN row[p] ELSE NoRows[p]]
<1>5. /\ loaded \in [Pubs -> Rows]
      /\ \A p \in FirstDue : loaded[p] = row[p]
      /\ \A p \in Pubs \ FirstDue : loaded[p].status = "absent"
  BY <1>2, <1>4 DEF TypeOK, NoRows, Row, Rows
<1>6. sender' = [sender EXCEPT ![s] = [stage |-> "take", rows |-> FirstDue, batch |-> FirstDue,
                                       loaded |-> loaded, work |-> loaded, wrote |-> FALSE]]
  BY DEF Load
<1> HIDE DEF loaded
<1>7. /\ sender'[s] = [stage |-> "take", rows |-> FirstDue, batch |-> FirstDue, loaded |-> loaded,
                        work |-> loaded, wrote |-> FALSE]
      /\ \A t \in Senders \ {s} : sender'[t] = sender[t]
      /\ sender' \in [Senders -> Batches]
  BY <1>2, <1>4, <1>5, <1>6 DEF TypeOK, Batches
<1>8. TypeOK' /\ RemoteConsistent' /\ AttemptsLeft(row)' /\ PlanLegal' /\ \A q : Kept(q) => Kept(q)'
  BY <1>1, <1>2, <1>3, <1>7, StoreKept DEF TypeOK, RemoteConsistent, Replaced, AttemptsLeft
<1>9. PublishedIsDelivered'
  BY <1>1, <1>3, DeliveredKept
<1>10. BatchInv(s)'
  <2>1. \A p \in FirstDue : row[p].status \in Unsettled
    BY <1>4 DEF Due, Unsettled
  <2>2. RowsAhead(s)'
    BY <1>1, <1>4, <1>5, <1>7, <2>1 DEF RowsAhead, AttemptsLeft, Sending
  <2>3. RowsBehind(s)'
    BY <1>5, <1>7 DEF RowsBehind, Unsettled
  <2>4. SentSoFar(s)'
    BY <1>7 DEF SentSoFar, Sending
  <2>5. StillQueued(s)'
    BY <1>3, <1>5, <1>7 DEF StillQueued
  <2>6. RowsHeld(s)'
    BY <1>5, <1>7, <2>1 DEF RowsHeld, Unsettled
  <2> QED
    BY <2>2, <2>3, <2>4, <2>5, <2>6 DEF BatchInv
<1>11. \A t \in Senders \ {s} : BatchInv(t)'
  BY <1>1, <1>2, <1>3, <1>7, <1>8, BatchKept
<1> QED
  BY <1>8, <1>9, <1>10, <1>11 DEF Inv, Safe

(* A row is given up, or its backoff begins: the attempts of an unsettled row
   stay below their limit. *)
LEMMA AfterFailureType ==
  ASSUME NEW n \in 0..MaxAttempts
  PROVE  /\ AfterFailure(n) \in Rows
         /\ AfterFailure(n).status \in {"failed", "dead_letter"}
         /\ AfterFailure(n).status \in Unsettled => AfterFailure(n).attempts < MaxAttempts
  BY OutboxAssumption DEF AfterFailure, Row, Rows, Unsettled

(* The except clause leaves the row behind, and the remote store as it is. *)
LEMMA FailKeepsBatch ==
  ASSUME TypeOK, NEW s \in Senders, BatchInv(s), sender[s].batch # {},
         NEW n \in 0..MaxAttempts, Fail(s, n),
         UNCHANGED <<transport, row, audit, accepted>>
  PROVE  /\ sender' \in [Senders -> Batches] /\ sender'[s].rows = sender[s].rows
         /\ \A t \in Senders \ {s} : sender'[t] = sender[t]
         /\ BatchInv(s)'
<1>1. Pub(s) \in sender[s].batch /\ Pub(s) \in Pubs
  BY PubInBatch
<1> DEFINE p == Pub(s)
<1> HIDE DEF p
<1>2. p \in sender[s].batch /\ p \in Pubs
  BY <1>1 DEF p
<1>3. /\ sender'[s] = [stage |-> "take", rows |-> sender[s].rows, batch |-> sender[s].batch \ {p},
                        loaded |-> sender[s].loaded,
                        work |-> [sender[s].work EXCEPT ![p] = AfterFailure(n)],
                        wrote |-> sender[s].wrote]
      /\ \A t \in Senders \ {s} : sender'[t] = sender[t]
      /\ DOMAIN sender' = Senders /\ sender' = [t \in Senders |-> sender'[t]]
  <2>1. sender[s] \in Batches /\ DOMAIN sender = Senders
    BY DEF TypeOK
  <2>2. sender' = [sender EXCEPT ![s] = [sender[s] EXCEPT !.stage = "take",
                                             !.batch = sender[s].batch \ {p},
                                             !.work = [sender[s].work EXCEPT ![p] = AfterFailure(n)]]]
    BY <2>1 DEF Fail, p
  <2>3. sender'[s] = [sender[s] EXCEPT !.stage = "take", !.batch = sender[s].batch \ {p},
                                       !.work = [sender[s].work EXCEPT ![p] = AfterFailure(n)]]
    BY <2>1, <2>2
  <2> HIDE DEF p
  <2> QED
    BY <2>1, <2>2, <2>3 DEF Batches
<1>4. sender' \in [Senders -> Batches]
  <2>1. AfterFailure(n) \in Rows
    BY AfterFailureType
  <2>2. sender'[s] \in Batches
    BY <1>2, <1>3, <2>1 DEF TypeOK, Batches
  <2> QED
    BY <1>3, <2>2 DEF TypeOK
<1>5. /\ sender'[s].work[p] = AfterFailure(n)
      /\ \A q \in Pubs \ {p} : sender'[s].work[q] = sender[s].work[q]
  BY <1>2, <1>3 DEF TypeOK, Batches
<1>6. RowsAhead(s)'
  BY <1>2, <1>3, <1>5 DEF BatchInv, RowsAhead, TypeOK, Batches, p
<1>7. RowsBehind(s)'
  <2>1. \A q : Delivered(q)' <=> Delivered(q)
    BY DEF Delivered
  <2>2. ASSUME NEW q \in Pubs \ sender'[s].batch
        PROVE  /\ sender'[s].work[q].status \in Unsettled => sender'[s].work[q].attempts < MaxAttempts
               /\ sender'[s].work[q] # sender'[s].loaded[q] =>
                    /\ sender'[s].loaded[q].status \in Unsettled
                    /\ sender'[s].work[q].status \in {"failed", "dead_letter", "published"}
                    /\ sender'[s].work[q].status = "published" => Delivered(q)'
    <3>1. CASE q = p
      BY <1>2, <1>3, <1>5, <3>1, AfterFailureType DEF BatchInv, RowsAhead
    <3>2. CASE q # p
      BY <1>2, <1>3, <1>5, <2>1, <2>2, <3>2 DEF BatchInv, RowsBehind
    <3> QED
      BY <3>1, <3>2
  <2> QED
    BY <2>2 DEF RowsBehind
<1>8. SentSoFar(s)' /\ StillQueued(s)' /\ RowsHeld(s)'
  <2>1. SentSoFar(s)' /\ StillQueued(s)'
    BY <1>3 DEF BatchInv, SentSoFar, StillQueued, Sending
  <2>2. p \in sender[s].rows
    BY <1>2 DEF BatchInv, RowsHeld
  <2> QED
    BY <1>2, <1>3, <1>5, <2>1, <2>2 DEF BatchInv, RowsHeld
<1> QED
  BY <1>3, <1>4, <1>6, <1>7, <1>8 DEF BatchInv

(* A step of s that leaves the rows alone and adds to the remote store. *)
LEMMA SendKeepsInv ==
  ASSUME Inv, NEW s \in Senders,
         UNCHANGED <<config, row, files, plan>>, faults' \in 0..MaxFaults,
         sender' \in [Senders -> Batches],
         \A t \in Senders \ {s} : sender'[t] = sender[t],
         audit \subseteq audit', accepted \subseteq accepted',
         snapshots' \subseteq Pubs, audit' \subseteq Pubs, accepted' \subseteq Pubs,
         newer' \in [Pubs -> SUBSET Pubs], latest' \in Pubs \cup {NoPub},
         \A p \in Pubs : Kept(p) => Kept(p)',
         \A p \in ((audit' \cup {latest'}) \ (audit \cup {latest, NoPub})) : Kept(p)',
         PlanLegal', BatchInv(s)'
  PROVE  Inv'
<1>1. Safe /\ AttemptsLeft(row) /\ PublishedIsDelivered /\ \A t \in Senders : BatchInv(t)
  BY DEF Inv
<1>2. TypeOK /\ RemoteConsistent
  BY <1>1 DEF Safe
<1>3. TypeOK' /\ AttemptsLeft(row)'
  BY <1>1, <1>2 DEF TypeOK, AttemptsLeft, config
<1>4. PublishedIsDelivered'
  BY <1>1, DeliveredKept DEF config
<1>5. \A t \in Senders \ {s} : BatchInv(t)'
  BY <1>1, <1>2, BatchKept DEF config
<1>6. RemoteConsistent'
  <2>1. (audit \cup {latest}) \ {NoPub} \subseteq Pubs
    BY <1>2 DEF TypeOK
  <2>2. \A p \in (audit \cup {latest}) \ {NoPub} : Kept(p)'
    BY <1>2, <2>1, Consistent
  <2>3. \A p \in (audit' \cup {latest'}) \ {NoPub} : Kept(p)'
    BY <2>2
  <2> QED
    BY <2>3 DEF RemoteConsistent, Kept
<1> QED
  BY <1>1, <1>3, <1>4, <1>5, <1>6 DEF Inv, Safe

(* The same for a step that stores no snapshot. *)
LEMMA StepKeepsInv ==
  ASSUME Inv, NEW s \in Senders,
         UNCHANGED <<config, row, files, plan, snapshots, newer>>, faults' \in 0..MaxFaults,
         sender' \in [Senders -> Batches],
         \A t \in Senders \ {s} : sender'[t] = sender[t],
         audit \subseteq audit', accepted \subseteq accepted',
         audit' \subseteq Pubs, accepted' \subseteq Pubs, latest' \in Pubs \cup {NoPub},
         \A p \in ((audit' \cup {latest'}) \ (audit \cup {latest, NoPub})) : Kept(p),
         BatchInv(s)'
  PROVE  Inv'
<1>1. TypeOK /\ PlanLegal
  BY DEF Inv, Safe
<1>2. PlanLegal' /\ \A p : Kept(p) => Kept(p)'
  BY <1>1, StoreKept DEF config
<1>3. snapshots' \subseteq Pubs /\ newer' \in [Pubs -> SUBSET Pubs]
  BY <1>1 DEF TypeOK
<1> QED
  BY <1>2, <1>3, SendKeepsInv

(* From one call of a transport to the next: the batch is where it was. *)
LEMMA GotoKeepsRows ==
  ASSUME TypeOK, NEW s \in Senders, BatchInv(s), sender[s].stage \in Sending,
         NEW next \in Sending, Goto(s, next), UNCHANGED <<transport, row>>,
         audit \subseteq audit', accepted \subseteq accepted'
  PROVE  /\ sender' \in [Senders -> Batches]
         /\ \A t \in Senders \ {s} : sender'[t] = sender[t]
         /\ sender'[s].stage = next /\ Pub(s)' = Pub(s)
         /\ sender[s].batch # {} /\ sender'[s].batch = sender[s].batch
         /\ RowsAhead(s)' /\ RowsBehind(s)' /\ RowsHeld(s)' /\ StillQueued(s)'
<1>1. sender[s] \in Batches /\ DOMAIN sender = Senders
  BY DEF TypeOK
<1>2. /\ sender'[s] = [sender[s] EXCEPT !.stage = next]
      /\ \A t \in Senders \ {s} : sender'[t] = sender[t]
      /\ DOMAIN sender' = Senders /\ sender' = [t \in Senders |-> sender'[t]]
  BY <1>1 DEF Goto
<1>3. /\ sender'[s].stage = next /\ sender'[s].batch = sender[s].batch
      /\ sender'[s].work = sender[s].work /\ sender'[s].loaded = sender[s].loaded
      /\ sender'[s].rows = sender[s].rows /\ sender'[s] \in Batches
  BY <1>1, <1>2 DEF Batches, Sending
<1>4. sender' \in [Senders -> Batches]
  BY <1>2, <1>3 DEF TypeOK
<1>5. Pub(s)' = Pub(s)
  BY <1>3 DEF Pub
<1>6. RowsAhead(s)'
  BY <1>3, <1>5 DEF BatchInv, RowsAhead
<1>7. \A q : Delivered(q) => Delivered(q)'
  BY DEF Delivered
<1>8. RowsBehind(s)' /\ StillQueued(s)'
  BY <1>3, <1>7 DEF BatchInv, RowsBehind, StillQueued
<1>9. RowsHeld(s)'
  BY <1>3 DEF BatchInv, RowsHeld, Sending
<1> QED
  BY <1>2, <1>3, <1>4, <1>5, <1>6, <1>8, <1>9 DEF BatchInv, SentSoFar

LEMMA PutSnapshotKeepsInv ==
  ASSUME Inv, NEW s \in Senders, PutSnapshot(s)
  PROVE  Inv'
<1>1. TypeOK /\ PlanLegal /\ BatchInv(s)
  BY DEF Inv, Safe
<1>2. sender[s].stage = "snapshot" /\ Goto(s, "pointer") /\ StoreSnapshot(Pub(s))
  BY DEF PutSnapshot
<1>3. UNCHANGED <<config, row, files, latest, audit, accepted, plan, faults>>
  BY DEF PutSnapshot
<1>4. sender[s].batch # {} /\ transport # "http"
  BY <1>1, <1>2 DEF BatchInv, SentSoFar, Sending
<1>5. Pub(s) \in Pubs
  BY <1>1, <1>4, PubInBatch
<1>6. /\ sender' \in [Senders -> Batches]
      /\ \A t \in Senders \ {s} : sender'[t] = sender[t]
      /\ sender'[s].stage = "pointer" /\ Pub(s)' = Pub(s)
      /\ sender'[s].batch = sender[s].batch
      /\ RowsAhead(s)' /\ RowsBehind(s)' /\ RowsHeld(s)' /\ StillQueued(s)'
  BY <1>1, <1>2, <1>3, GotoKeepsRows DEF Sending, config
<1>7. PICK p \in Pubs : p = Pub(s)
  BY <1>5
<1>8. Pub(s)' = p /\ StoreSnapshot(p)
  BY <1>2, <1>6, <1>7
<1>9. /\ snapshots' = snapshots \cup {p} /\ newer' \in [Pubs -> SUBSET Pubs]
      /\ \A q \in Pubs : Kept(q) => Kept(q)'
      /\ Kept(p)' /\ PlanLegal'
  BY <1>1, <1>3, <1>8, StoreSnapshotKeeps DEF config
<1>10. SentSoFar(s)'
  <2>2. Kept(Pub(s))'
    BY <1>8, <1>9
  <2> QED
    BY <1>3, <1>4, <1>6, <2>2 DEF SentSoFar, config
<1>11. BatchInv(s)'
  BY <1>6, <1>10 DEF BatchInv
<1>12. /\ faults' \in 0..MaxFaults /\ latest' \in Pubs \cup {NoPub}
       /\ snapshots' \subseteq Pubs /\ audit' \subseteq Pubs /\ accepted' \subseteq Pubs
  BY <1>1, <1>3, <1>7, <1>9 DEF TypeOK
<1> QED
  BY <1>3, <1>6, <1>9, <1>11, <1>12, SendKeepsInv

LEMMA PutPointerKeepsInv ==
  ASSUME Inv, NEW s \in Senders, PutPointer(s)
  PROVE  Inv'
<1>1. TypeOK /\ BatchInv(s)
  BY DEF Inv, Safe
<1>2. sender[s].stage = "pointer" /\ Goto(s, "audit") /\ latest' = Pub(s)
  BY DEF PutPointer
<1>3. UNCHANGED <<config, row, files, snapshots, newer, audit, accepted, plan, faults>>
  BY DEF PutPointer
<1>4. sender[s].batch # {} /\ Kept(Pub(s)) /\ transport # "http"
  BY <1>1, <1>2 DEF BatchInv, SentSoFar, Sending
<1>5. Pub(s) \in Pubs
  BY <1>1, <1>4, PubInBatch
<1>7. /\ sender' \in [Senders -> Batches]
      /\ \A t \in Senders \ {s} : sender'[t] = sender[t]
      /\ sender'[s].stage = "audit" /\ Pub(s)' = Pub(s)
      /\ sender'[s].batch = sender[s].batch
      /\ RowsAhead(s)' /\ RowsBehind(s)' /\ RowsHeld(s)' /\ StillQueued(s)'
  BY <1>1, <1>2, <1>3, GotoKeepsRows DEF Sending, config
<1>8. SentSoFar(s)'
  <2>1. Kept(Pub(s))'
    BY <1>3, <1>4, <1>7 DEF Kept, Replaced, config
  <2> QED
    BY <1>3, <1>4, <1>7, <2>1 DEF SentSoFar, config
<1>9. BatchInv(s)'
  BY <1>7, <1>8 DEF BatchInv
<1>10. /\ faults' \in 0..MaxFaults /\ latest' \in Pubs \cup {NoPub}
       /\ audit' \subseteq Pubs /\ accepted' \subseteq Pubs
       /\ \A p \in ((audit' \cup {latest'}) \ (audit \cup {latest, NoPub})) : Kept(p)
  BY <1>1, <1>2, <1>3, <1>4, <1>5 DEF TypeOK
<1> QED
  BY <1>3, <1>7, <1>9, <1>10, StepKeepsInv

(* The audit object is put once; the second put of it fails the attempt. *)
LEMMA PutAuditKeepsInv ==
  ASSUME Inv, NEW s \in Senders, PutAudit(s)
  PROVE  Inv'
<1>1. TypeOK /\ BatchInv(s)
  BY DEF Inv, Safe
<1>2. sender[s].stage = "audit"
  BY DEF PutAudit
<1>3. UNCHANGED <<config, row, files, snapshots, newer, latest, accepted, plan, faults>>
  BY DEF PutAudit
<1>4. sender[s].batch # {} /\ Kept(Pub(s)) /\ transport # "http"
  BY <1>1, <1>2 DEF BatchInv, SentSoFar, Sending
<1>5. Pub(s) \in Pubs /\ Pub(s) \in sender[s].batch
  BY <1>1, <1>4, PubInBatch
<1>6. audit \subseteq audit' /\ audit' \subseteq audit \cup {Pub(s)}
  BY DEF PutAudit
<1>7. /\ sender' \in [Senders -> Batches]
      /\ \A t \in Senders \ {s} : sender'[t] = sender[t]
      /\ BatchInv(s)'
  <2>1. CASE Pub(s) \in audit
    <3> DEFINE n == sender[s].work[Pub(s)].attempts
    <3>1. n \in 0..MaxAttempts
      BY <1>1, <1>5 DEF TypeOK, Batches, Rows
    <3>2. Fail(s, n) /\ UNCHANGED audit
      BY <2>1 DEF PutAudit
    <3> HIDE DEF n
    <3> QED
      BY <1>1, <1>3, <1>4, <3>1, <3>2, FailKeepsBatch DEF config
  <2>2. CASE Pub(s) \notin audit
    <3> DEFINE next == IF transport = "both" THEN "http" ELSE "register"
    <3>1. audit' = audit \cup {Pub(s)} /\ Goto(s, next)
      BY <2>2 DEF PutAudit
    <3>2. next \in Sending
      BY DEF Sending
    <3> HIDE DEF next
    <3>3. /\ sender' \in [Senders -> Batches]
          /\ \A t \in Senders \ {s} : sender'[t] = sender[t]
          /\ sender'[s].stage = next /\ Pub(s)' = Pub(s)
          /\ sender'[s].batch = sender[s].batch
          /\ RowsAhead(s)' /\ RowsBehind(s)' /\ RowsHeld(s)' /\ StillQueued(s)'
      BY <1>1, <1>2, <1>3, <1>6, <3>1, <3>2, GotoKeepsRows DEF Sending, config
    <3>4. transport \in {"object_store", "both"}
      BY <1>1, <1>4, OutboxAssumption DEF TypeOK
    <3>5. SentSoFar(s)'
      BY <1>3, <1>4, <3>1, <3>3, <3>4 DEF SentSoFar, Delivered, next, config
    <3> QED
      BY <3>3, <3>5 DEF BatchInv
  <2> QED
    BY <2>1, <2>2
<1>10. /\ faults' \in 0..MaxFaults /\ latest' \in Pubs \cup {NoPub}
       /\ audit' \subseteq Pubs /\ accepted' \subseteq Pubs /\ accepted \subseteq accepted'
       /\ \A p \in ((audit' \cup {latest'}) \ (audit \cup {latest, NoPub})) : Kept(p)
  BY <1>1, <1>3, <1>4, <1>5, <1>6 DEF TypeOK
<1> QED
  BY <1>3, <1>6, <1>7, <1>10, StepKeepsInv

LEMMA PostHttpKeepsInv ==
  ASSUME Inv, NEW s \in Senders, PostHttp(s)
  PROVE  Inv'
<1>1. TypeOK /\ BatchInv(s)
  BY DEF Inv, Safe
<1>2. sender[s].stage = "http" /\ Goto(s, "register")
  BY DEF PostHttp
<1>3. UNCHANGED <<config, row, files, snapshots, newer, latest, audit, plan, faults>>
  BY DEF PostHttp
<1>4. sender[s].batch # {} /\ (transport = "both" => Pub(s) \in audit) /\ transport # "object_store"
  BY <1>1, <1>2 DEF BatchInv, SentSoFar, Sending
<1>5. Pub(s) \in Pubs
  BY <1>1, <1>4, PubInBatch
<1>6. accepted' = accepted \cup {Pub(s)}
  BY DEF PostHttp
<1>7. /\ sender' \in [Senders -> Batches]
      /\ \A t \in Senders \ {s} : sender'[t] = sender[t]
      /\ sender'[s].stage = "register" /\ Pub(s)' = Pub(s)
      /\ sender'[s].batch = sender[s].batch
      /\ RowsAhead(s)' /\ RowsBehind(s)' /\ RowsHeld(s)' /\ StillQueued(s)'
  BY <1>1, <1>2, <1>3, <1>6, GotoKeepsRows DEF Sending, config
<1>8. BatchInv(s)'
  BY <1>3, <1>4, <1>6, <1>7 DEF BatchInv, SentSoFar, Delivered, config
<1>10. /\ faults' \in 0..MaxFaults /\ latest' \in Pubs \cup {NoPub}
       /\ audit' \subseteq Pubs /\ accepted' \subseteq Pubs
       /\ audit \subseteq audit' /\ accepted \subseteq accepted'
       /\ \A p \in ((audit' \cup {latest'}) \ (audit \cup {latest, NoPub})) : Kept(p)
  BY <1>1, <1>3, <1>5, <1>6 DEF TypeOK
<1> QED
  BY <1>3, <1>7, <1>8, <1>10, StepKeepsInv

(* Register: a row that every transport has delivered is published. *)
LEMMA RegisterKeepsInv ==
  ASSUME Inv, NEW s \in Senders, Register(s)
  PROVE  Inv'
<1>1. TypeOK /\ BatchInv(s)
  BY DEF Inv, Safe
<1>2. sender[s].stage = "register"
  BY DEF Register
<1>3. UNCHANGED <<config, row, files, snapshots, newer, latest, audit, accepted, plan, faults>>
  BY DEF Register, remote
<1>4. sender[s].batch # {} /\ Delivered(Pub(s))
  BY <1>1, <1>2 DEF BatchInv, SentSoFar, Sending
<1> DEFINE p == Pub(s)
<1>5. p \in Pubs /\ p \in sender[s].batch /\ Delivered(p)
  BY <1>1, <1>4, PubInBatch
<1>6. sender[s] \in Batches /\ DOMAIN sender = Senders
  BY <1>1 DEF TypeOK
<1> DEFINE work == [sender[s].work EXCEPT ![p].status = "published", ![p].due = FALSE]
           after == [sender[s] EXCEPT !.stage = "take", !.batch = sender[s].batch \ {p},
                                      !.wrote = TRUE, !.work = work]
<1>7. sender' = [sender EXCEPT ![s] = after]
  BY <1>5, <1>6 DEF Register, Batches
<1> HIDE DEF p
<1>8. /\ work \in [Pubs -> Rows]
      /\ work[p].status = "published"
      /\ \A q \in Pubs \ {p} : work[q] = sender[s].work[q]
  <2> DEFINE row1 == [sender[s].work[p] EXCEPT !.status = "published", !.due = FALSE]
  <2>1. sender[s].work \in [Pubs -> Rows]
    BY <1>6 DEF Batches
  <2>2. work = [sender[s].work EXCEPT ![p] = row1]
    BY <1>5, <2>1
  <2>3. sender[s].work[p] \in Rows
    BY <1>5, <2>1
  <2>4. row1 \in Rows /\ row1.status = "published"
    BY <2>3 DEF Rows
  <2> HIDE DEF row1, work
  <2> QED
    BY <1>5, <2>1, <2>2, <2>4
<1> HIDE DEF work
<1>9. /\ sender'[s] = [stage |-> "take", rows |-> sender[s].rows, batch |-> sender[s].batch \ {p},
                        loaded |-> sender[s].loaded, work |-> work, wrote |-> TRUE]
      /\ \A t \in Senders \ {s} : sender'[t] = sender[t]
      /\ sender' = [t \in Senders |-> sender'[t]]
  BY <1>6, <1>7 DEF Batches
<1>10. sender' \in [Senders -> Batches]
  <2>1. sender'[s] \in Batches
    BY <1>6, <1>8, <1>9 DEF Batches
  <2> QED
    BY <1>1, <1>9, <2>1 DEF TypeOK
<1>11. \A q : Delivered(q)' <=> Delivered(q)
  BY <1>3 DEF Delivered, config
<1>12. RowsAhead(s)'
  BY <1>1, <1>5, <1>8, <1>9 DEF BatchInv, RowsAhead, Batches, TypeOK, p
<1>13. RowsBehind(s)'
  <2>1. \A q \in Pubs \ sender'[s].batch : q = p \/ q \in Pubs \ sender[s].batch
    BY <1>9
  <2>2. sender[s].loaded[p].status \in Unsettled
    BY <1>1, <1>5 DEF BatchInv, RowsAhead
  <2> QED
    BY <1>1, <1>5, <1>8, <1>9, <1>11, <2>1, <2>2 DEF BatchInv, RowsBehind, Unsettled
<1>14. RowsHeld(s)'
  <2>1. p \in sender[s].rows
    BY <1>1, <1>5 DEF BatchInv, RowsHeld
  <2> QED
    BY <1>1, <1>5, <1>8, <1>9, <2>1 DEF BatchInv, RowsHeld
<1>15. BatchInv(s)'
  BY <1>1, <1>3, <1>9, <1>12, <1>13, <1>14 DEF BatchInv, SentSoFar, StillQueued, Sending
<1> QED
  BY <1>1, <1>3, <1>9, <1>10, <1>15, StepKeepsInv DEF TypeOK

(* Take: an attempt is counted before it is made. *)
LEMMA TakeKeepsInv ==
  ASSUME Inv, NEW s \in Senders, Take(s)
  PROVE  Inv'
<1>1. TypeOK /\ BatchInv(s)
  BY DEF Inv, Safe
<1>2. sender[s].stage = "take" /\ sender[s].batch # {}
  BY DEF Take
<1>3. UNCHANGED <<config, row, files, snapshots, newer, latest, audit, accepted, plan, faults>>
  BY DEF Take, remote
<1> DEFINE p == Pub(s)
           n == sender[s].work[p].attempts + 1
<1>5. p \in Pubs /\ p \in sender[s].batch
  BY <1>1, <1>2, PubInBatch
<1>6. sender[s] \in Batches /\ DOMAIN sender = Senders
  BY <1>1 DEF TypeOK
<1>7. n \in 0..MaxAttempts /\ sender[s].work[p] \in Rows
  <2>1. sender[s].work[p].attempts < MaxAttempts
    BY <1>1, <1>2, <1>5 DEF BatchInv, RowsAhead, Sending
  <2>2. sender[s].work[p] \in Rows
    BY <1>5, <1>6 DEF Batches
  <2> QED
    BY <2>1, <2>2, OutboxAssumption DEF Rows
<1>8. /\ sender' \in [Senders -> Batches]
      /\ \A t \in Senders \ {s} : sender'[t] = sender[t]
      /\ BatchInv(s)'
  <2>1. CASE p \notin files
    <3>1. Fail(s, n)
      BY <2>1 DEF Take
    <3> HIDE DEF p, n
    <3> QED
      BY <1>1, <1>2, <1>3, <1>7, <3>1, FailKeepsBatch DEF config
  <2>2. CASE p \in files
    <3> DEFINE row1 == [sender[s].work[p] EXCEPT !.attempts = n]
               work == [sender[s].work EXCEPT ![p] = row1]
               after == [sender[s] EXCEPT !.stage = FirstStage, !.work = work]
    <3>1. sender' = [sender EXCEPT ![s] = after]
      BY <1>5, <1>6, <2>2 DEF Take, Batches
    <3> HIDE DEF p, n
    <3>2. row1 \in Rows /\ row1.status = sender[s].work[p].status
      BY <1>7 DEF Rows
    <3> HIDE DEF row1
    <3>3. /\ work \in [Pubs -> Rows]
          /\ work[p] = row1
          /\ \A q \in Pubs \ {p} : work[q] = sender[s].work[q]
      BY <1>5, <1>6, <3>2 DEF Batches
    <3> HIDE DEF work
    <3>4. /\ sender'[s] = [stage |-> FirstStage, rows |-> sender[s].rows, batch |-> sender[s].batch,
                            loaded |-> sender[s].loaded, work |-> work, wrote |-> sender[s].wrote]
          /\ \A t \in Senders \ {s} : sender'[t] = sender[t]
          /\ sender' = [t \in Senders |-> sender'[t]]
      BY <1>6, <3>1 DEF Batches
    <3>5. sender'[s] \in Batches
      BY <1>6, <3>3, <3>4 DEF Batches, FirstStage
    <3>6. sender' \in [Senders -> Batches]
      BY <1>1, <3>4, <3>5 DEF TypeOK
    <3>7. Pub(s)' = p
      BY <3>4 DEF Pub, p
    <3>8. RowsAhead(s)'
      <4>1. \A q \in sender[s].batch : /\ sender[s].loaded[q].status \in Unsettled
                                       /\ work[q].status = sender[s].loaded[q].status
        BY <1>1, <1>6, <3>2, <3>3 DEF BatchInv, RowsAhead, Batches
      <4>2. \A q \in sender[s].batch \ {p} : work[q].attempts < MaxAttempts
        BY <1>1, <1>2, <1>6, <3>3 DEF BatchInv, RowsAhead, Batches, Sending
      <4>3. FirstStage \in Sending
        BY DEF FirstStage, Sending
      <4> QED
        BY <3>4, <3>7, <4>1, <4>2, <4>3 DEF RowsAhead
    <3>9. RowsBehind(s)'
      BY <1>1, <1>3, <1>5, <3>3, <3>4 DEF BatchInv, RowsBehind, Delivered, config
    <3>10. SentSoFar(s)' /\ StillQueued(s)' /\ RowsHeld(s)'
      <4>2. p \in sender[s].rows
        BY <1>1, <1>5 DEF BatchInv, RowsHeld
      <4>3. RowsHeld(s)'
        BY <1>1, <1>5, <3>3, <3>4, <4>2 DEF BatchInv, RowsHeld, FirstStage
      <4>1. transport \in {"object_store", "both", "http"}
        BY <1>1, OutboxAssumption DEF TypeOK
      <4> QED
        BY <1>1, <1>2, <1>3, <3>4, <4>1, <4>3 DEF SentSoFar, FirstStage, Sending, BatchInv, StillQueued, config
    <3> QED
      BY <3>4, <3>6, <3>8, <3>9, <3>10 DEF BatchInv
  <2> QED
    BY <2>1, <2>2
<1> QED
  BY <1>1, <1>3, <1>8, StepKeepsInv DEF TypeOK

(* SendFails: the row goes back to wait, or is given up. *)
LEMMA SendFailsKeepsInv ==
  ASSUME Inv, NEW s \in Senders, SendFails(s)
  PROVE  Inv'
<1>1. TypeOK /\ BatchInv(s)
  BY DEF Inv, Safe
<1>2. UNCHANGED <<config, row, files, snapshots, newer, latest, audit, accepted, plan>>
  BY DEF SendFails, remote
<1>3. sender[s].batch # {}
  BY <1>1 DEF SendFails, BatchInv, SentSoFar, Sending
<1> DEFINE n == sender[s].work[Pub(s)].attempts
<1>4. n \in 0..MaxAttempts
  BY <1>1, <1>3, PubInBatch DEF TypeOK, Batches, Rows
<1>5. Fail(s, n)
  BY DEF SendFails
<1> HIDE DEF n
<1>6. /\ sender' \in [Senders -> Batches]
      /\ \A t \in Senders \ {s} : sender'[t] = sender[t]
      /\ BatchInv(s)'
  BY <1>1, <1>2, <1>3, <1>4, <1>5, FailKeepsBatch DEF config
<1>7. faults' \in 0..MaxFaults
  BY <1>1, OutboxAssumption DEF SendFails, Fault, TypeOK
<1> QED
  BY <1>1, <1>2, <1>6, <1>7, StepKeepsInv DEF TypeOK

-----------------------------------------------------------------------------
(* The end of a batch, committed or rolled back, leaves nothing in memory. *)
LEMMA IdleInv ==
  ASSUME TypeOK, NEW s \in Senders, sender' = [sender EXCEPT ![s] = Idle]
  PROVE  /\ sender' \in [Senders -> Batches]
         /\ \A t \in Senders \ {s} : sender'[t] = sender[t]
         /\ BatchInv(s)'
<1>1. Idle \in Batches
  BY OutboxAssumption DEF Idle, NoRows, Row, Batches, Rows
<1>2. sender'[s] = Idle
  BY DEF TypeOK
<1>3. /\ sender'[s].stage = "idle" /\ sender'[s].batch = {} /\ sender'[s].rows = {}
      /\ \A p \in Pubs : /\ sender'[s].work[p] = sender'[s].loaded[p]
                         /\ sender'[s].work[p].status = "absent"
  <2>1. \A p \in Pubs : NoRows[p].status = "absent"
    BY DEF NoRows, Row
  <2>2. Idle.stage = "idle" /\ Idle.batch = {} /\ Idle.rows = {} /\ Idle.work = NoRows /\ Idle.loaded = NoRows
    BY DEF Idle
  <2> QED
    BY <1>2, <2>1, <2>2
<1>4. BatchInv(s)'
  BY <1>3 DEF BatchInv, RowsAhead, RowsBehind, RowsHeld, SentSoFar, StillQueued, Unsettled, Sending
<1> QED
  BY <1>1, <1>4 DEF TypeOK

LEMMA AbortKeepsInv ==
  ASSUME Inv, NEW s \in Senders, Abort(s)
  PROVE  Inv'
<1>1. TypeOK /\ RemoteConsistent
  BY DEF Inv, Safe
<1>2. UNCHANGED <<config, row, files, snapshots, newer, latest, audit, accepted, plan>>
  BY DEF Abort, remote
<1>3. /\ sender' \in [Senders -> Batches]
      /\ \A t \in Senders \ {s} : sender'[t] = sender[t]
      /\ BatchInv(s)'
  BY <1>1, IdleInv DEF Abort
<1>4. faults' \in 0..MaxFaults
  BY <1>1, OutboxAssumption DEF Abort, Fault, TypeOK
<1> QED
  BY <1>1, <1>2, <1>3, <1>4, StepKeepsInv DEF TypeOK

(* The unit of work writes what the batch has changed: a verdict on a row that
   was unsettled when it was loaded, and publications that are delivered. *)
LEMMA WrittenRow ==
  ASSUME Inv, NEW s \in Senders, sender[s].batch = {}, NEW p \in Pubs
  PROVE  /\ Written(s, p) \in Rows
         /\ Written(s, p).status \in Unsettled => Written(s, p).attempts < MaxAttempts
         /\ Written(s, p).status = "published" => Delivered(p)
         /\ row[p].status # "absent" => Written(s, p).status # "absent"
<1> DEFINE new == sender[s].work[p]
           old == sender[s].loaded[p]
<1>1. row[p] \in Rows /\ new \in Rows /\ old \in Rows
  BY DEF Inv, Safe, TypeOK, Batches
<1>2. /\ row[p].status \in Unsettled => row[p].attempts < MaxAttempts
      /\ row[p].status = "published" => Delivered(p)
  BY DEF Inv, AttemptsLeft, PublishedIsDelivered
<1>3. /\ new.status \in Unsettled => new.attempts < MaxAttempts
      /\ new # old => /\ new.status \in {"failed", "dead_letter", "published"}
                      /\ new.status = "published" => Delivered(p)
                      /\ old.status \in Unsettled
  BY DEF Inv, BatchInv, RowsBehind
<1>4. Written(s, p) = IF new = old THEN row[p]
                      ELSE IF new.status = old.status THEN [new EXCEPT !.status = row[p].status]
                      ELSE new
  BY DEF Written
<1> HIDE DEF new, old
<1>5. CASE new = old
  BY <1>1, <1>2, <1>4, <1>5
<1>6. CASE new # old /\ new.status = old.status
  <2>1. Written(s, p) = [new EXCEPT !.status = row[p].status]
    BY <1>4, <1>6
  <2>2. /\ Written(s, p) \in Rows
        /\ Written(s, p).status = row[p].status /\ Written(s, p).attempts = new.attempts
    BY <1>1, <2>1 DEF Rows
  <2> QED
    BY <1>2, <1>3, <1>6, <2>2
<1>7. CASE new # old /\ new.status # old.status
  BY <1>1, <1>3, <1>4, <1>7
<1> QED
  BY <1>5, <1>6, <1>7

LEMMA CommitKeepsInv ==
  ASSUME Inv, NEW s \in Senders, Commit(s)
  PROVE  Inv'
<1>1. Safe /\ PlanLegal /\ AttemptsLeft(row) /\ PublishedIsDelivered /\ \A t \in Senders : BatchInv(t)
  BY DEF Inv
<1>2. TypeOK /\ RemoteConsistent
  BY <1>1 DEF Safe
<1>3. UNCHANGED <<config, files, snapshots, newer, latest, audit, accepted, plan, faults>>
  BY DEF Commit, remote
<1>4. sender[s].batch = {} /\ row' = [p \in Pubs |-> Written(s, p)]
  BY DEF Commit
<1>5. \A p \in Pubs : /\ row'[p] \in Rows
                      /\ row'[p].status \in Unsettled => row'[p].attempts < MaxAttempts
                      /\ row'[p].status = "published" => Delivered(p)
                      /\ row[p].status # "absent" => row'[p].status # "absent"
  <2> HIDE DEF Inv
  <2> QED
    BY <1>4, WrittenRow
<1>6. /\ sender' \in [Senders -> Batches]
      /\ \A t \in Senders \ {s} : sender'[t] = sender[t]
      /\ BatchInv(s)'
  BY <1>2, IdleInv DEF Commit
<1>7. TypeOK' /\ RemoteConsistent'
  BY <1>2, <1>3, <1>4, <1>5, <1>6 DEF TypeOK, RemoteConsistent, Replaced, config
<1>8. AttemptsLeft(row)' /\ PublishedIsDelivered'
  BY <1>3, <1>5 DEF AttemptsLeft, PublishedIsDelivered, Delivered, config
<1>9. PlanLegal' /\ \A p : Kept(p) => Kept(p)'
  BY <1>1, <1>3, StoreKept DEF config
<1>10. \A t \in Senders \ {s} : BatchInv(t)'
  BY <1>1, <1>2, <1>3, <1>5, <1>6, <1>9, BatchKept DEF config
<1> QED
  BY <1>6, <1>7, <1>8, <1>9, <1>10 DEF Inv, Safe

LEMMA NextKeepsInv ==
  ASSUME Inv, [Next]_vars
  PROVE  Inv'
<1>1. CASE UNCHANGED vars
  <2>1. UNCHANGED <<config, transport, local, row, files, snapshots, newer, latest, audit, accepted, sender, plan, faults>>
    BY <1>1 DEF vars, config, remote
  <2>2. Safe' /\ AttemptsLeft(row)' /\ PublishedIsDelivered'
    BY <2>1 DEF Inv, Safe, TypeOK, RemoteConsistent, Replaced, AttemptsLeft, PublishedIsDelivered, Delivered
  <2>3. PlanLegal' /\ \A p : Kept(p) => Kept(p)'
    BY <2>1, StoreKept DEF Inv
  <2>4. \A s \in Senders : BatchInv(s)'
    BY <2>1, <2>3, BatchKept DEF Inv, Safe
  <2> QED
    BY <2>2, <2>3, <2>4 DEF Inv
<1>2. ASSUME NEW p \in Pubs, Enqueue(p) \/ BackoffElapses(p)
      PROVE  Inv'
  BY <1>2, QueueKeepsInv
<1>3. CASE PlanCleanup \/ Clean \/ CleanupEnds
  BY <1>3, CleanupKeepsInv
<1>4. ASSUME NEW s \in Senders, Send(s) \/ SendFails(s) \/ Abort(s)
      PROVE  Inv'
  BY <1>4, LoadKeepsInv, TakeKeepsInv, PutSnapshotKeepsInv, PutPointerKeepsInv, PutAuditKeepsInv,
     PostHttpKeepsInv, RegisterKeepsInv, CommitKeepsInv, SendFailsKeepsInv, AbortKeepsInv DEF Send
<1> QED
  BY <1>1, <1>2, <1>3, <1>4 DEF Next

(* Whoever sends, in whatever order and with whatever failures, beside any
   cleanup: the forecast pointer and every audit object name a snapshot that is
   in the store or that the cleanup has deleted after KeepSnapshots newer ones. *)
THEOREM SafeHolds == Spec => []Safe
<1>1. Inv => Safe
  BY DEF Inv
<1> QED
  BY InitInv, NextKeepsInv, <1>1, PTL DEF Spec

(* No committed row is published before each of its transports has delivered
   it, overlapping senders included. *)
THEOREM DeliveredBeforePublished == Spec => []PublishedIsDelivered
<1>1. Inv => PublishedIsDelivered
  BY DEF Inv
<1> QED
  BY InitInv, NextKeepsInv, <1>1, PTL DEF Spec

-----------------------------------------------------------------------------
(* The refinement of PublicationPromise. *)
QueuedPubs == {p \in Pubs : row[p].status # "absent"}

DeliveredPubs == {p \in Pubs : Delivered(p)}

Verdicts == [p \in Pubs |-> IF row[p].status \in {"published", "dead_letter"}
                           THEN row[p].status ELSE "open"]

HeldRows == [s \in Senders |-> sender[s].rows]

LEMMA InitPromise == Init => Promise!Init
<1> SUFFICES ASSUME Init
             PROVE  Promise!Init
  OBVIOUS
<1>1. transport \in {"object_store", "http", "both"}
  BY OutboxAssumption DEF Init
<1> QED
  BY <1>1 DEF Init, NoRows, Row, Idle, Promise!Init, Delivered

(* The end of a batch: what it held may have been judged, and nothing else. *)
LEMMA EndSettles ==
  ASSUME TypeOK, PublishedIsDelivered', NEW s \in Senders,
         sender' = [sender EXCEPT ![s] = Idle], UNCHANGED <<transport, audit, accepted>>,
         \A p \in Pubs \ sender[s].rows : row'[p] = row[p],
         \A p \in Pubs : row'[p].status = "absent" <=> row[p].status = "absent"
  PROVE  Promise!Settle(s)
<1>1. QueuedPubs' = QueuedPubs /\ DeliveredPubs' = DeliveredPubs
  <2>1. \A p : Delivered(p)' <=> Delivered(p)
    BY DEF Delivered
  <2> QED
    BY <2>1 DEF QueuedPubs, DeliveredPubs
<1>2. HeldRows' = [HeldRows EXCEPT ![s] = {}]
  BY DEF HeldRows, TypeOK, Idle
<1>3. HeldRows[s] = sender[s].rows /\ sender[s].rows \subseteq Pubs
  BY DEF HeldRows, TypeOK, Batches
<1> DEFINE new == [p \in HeldRows[s] |-> Verdicts'[p]]
<1>4. new \in [HeldRows[s] -> {"open", "published", "dead_letter"}]
  BY <1>3 DEF Verdicts
<1>5. \A p \in HeldRows[s] : new[p] = "published" => p \in DeliveredPubs
  <2>1. ASSUME NEW p \in HeldRows[s], new[p] = "published"
        PROVE  p \in DeliveredPubs'
    BY <1>3, <2>1 DEF Verdicts, PublishedIsDelivered, DeliveredPubs
  <2> QED
    BY <1>1, <2>1
<1>6. Verdicts' = [p \in Pubs |-> IF p \in HeldRows[s] THEN new[p] ELSE Verdicts[p]]
  BY <1>3 DEF Verdicts
<1> HIDE DEF new
<1>7. \E judged \in SUBSET HeldRows[s] : \E n \in [judged -> {"open", "published", "dead_letter"}] :
          /\ \A p \in judged : n[p] = "published" => p \in DeliveredPubs
          /\ Verdicts' = [p \in Pubs |-> IF p \in judged THEN n[p] ELSE Verdicts[p]]
  BY <1>4, <1>5, <1>6
<1> QED
  BY <1>1, <1>2, <1>7 DEF Promise!Settle, Promise!Hold, QueuedPubs, DeliveredPubs, Verdicts, HeldRows

LEMMA CommitSettles ==
  ASSUME Inv, NEW s \in Senders, Commit(s)
  PROVE  Promise!Settle(s)
<1>1. TypeOK /\ BatchInv(s)
  BY DEF Inv, Safe
<1>2. /\ sender[s].batch = {} /\ row' = [p \in Pubs |-> Written(s, p)]
      /\ sender' = [sender EXCEPT ![s] = Idle] /\ UNCHANGED <<transport, audit, accepted>>
  BY DEF Commit, config, remote
<1>3. PublishedIsDelivered'
  BY CommitKeepsInv DEF Inv
<1>4. \A p \in Pubs \ sender[s].rows : row'[p] = row[p]
  BY <1>1, <1>2 DEF BatchInv, RowsHeld, Written
<1>5. ASSUME NEW p \in Pubs
      PROVE  row'[p].status = "absent" <=> row[p].status = "absent"
  <2>1. row'[p] = Written(s, p)
    BY <1>2
  <2>2. row[p].status # "absent" => row'[p].status # "absent"
    BY <1>2, <2>1, WrittenRow
  <2>3. CASE p \in sender[s].rows
    BY <1>1, <2>2, <2>3 DEF BatchInv, RowsHeld, StillQueued
  <2>4. CASE p \notin sender[s].rows
    BY <1>4, <2>4
  <2> QED
    BY <2>3, <2>4
<1> QED
  BY <1>1, <1>2, <1>3, <1>4, <1>5, EndSettles

LEMMA AbortSettles ==
  ASSUME Inv, NEW s \in Senders, Abort(s)
  PROVE  Promise!Settle(s)
<1>1. TypeOK /\ PublishedIsDelivered
  BY DEF Inv, Safe
<1>2. sender' = [sender EXCEPT ![s] = Idle] /\ UNCHANGED <<transport, row, audit, accepted>>
  BY DEF Abort, config, remote
<1>3. PublishedIsDelivered'
  BY <1>1, <1>2 DEF PublishedIsDelivered, Delivered
<1> QED
  BY <1>1, <1>2, <1>3, EndSettles

(* A batch takes what is due, and what is due is open. *)
LEMMA LoadTakes ==
  ASSUME Inv, NEW s \in Senders, Load(s)
  PROVE  Promise!Take(s)
<1>1. TypeOK /\ BatchInv(s)
  BY DEF Inv, Safe
<1>2. sender[s].stage = "idle" /\ UNCHANGED <<transport, row, audit, accepted>>
  BY DEF Load, config, remote
<1>3. HeldRows[s] = {}
  BY <1>1, <1>2 DEF BatchInv, RowsHeld, HeldRows
<1>4. HeldRows' = [HeldRows EXCEPT ![s] = FirstDue]
  BY <1>1 DEF Load, HeldRows, TypeOK
<1>5. FirstDue \in SUBSET {p \in QueuedPubs : Verdicts[p] = "open"}
  BY DEF FirstDue, Due, QueuedPubs, Verdicts
<1>6. UNCHANGED <<QueuedPubs, DeliveredPubs, Verdicts>>
  BY <1>2 DEF QueuedPubs, DeliveredPubs, Delivered, Verdicts
<1>7. \E batch \in SUBSET {p \in QueuedPubs : Verdicts[p] = "open"} :
        HeldRows' = [HeldRows EXCEPT ![s] = batch]
  BY <1>4, <1>5
<1> QED
  BY <1>3, <1>6, <1>7 DEF Promise!Take, Promise!Hold, QueuedPubs, DeliveredPubs, Verdicts, HeldRows

(* Each step of an open batch holds what the batch has loaded. *)
LEMMA StepOfBatch ==
  ASSUME Inv, NEW s \in Senders,
         \/ Take(s) \/ PutSnapshot(s) \/ PutPointer(s) \/ PutAudit(s)
         \/ PostHttp(s) \/ Register(s) \/ SendFails(s)
  PROVE  row' = row /\ transport' = transport /\ HeldRows' = HeldRows
<1>1. sender \in [Senders -> Batches] /\ DOMAIN sender = Senders /\ sender[s] \in Batches
  BY DEF Inv, Safe, TypeOK
<1>2. row' = row /\ transport' = transport
  BY DEF Take, PutSnapshot, PutPointer, PutAudit, PostHttp, Register, SendFails, config
<1> DEFINE SameRows == /\ \A t \in Senders \ {s} : sender'[t] = sender[t]
                       /\ sender'[s].rows = sender[s].rows
<1>3. SameRows => HeldRows' = HeldRows
  BY DEF HeldRows
<1>4. \A n : Fail(s, n) => SameRows
  BY <1>1 DEF Fail, Batches
<1>5. \A next : Goto(s, next) => SameRows
  BY <1>1 DEF Goto, Batches
<1>6. Take(s) => SameRows
  BY <1>1, <1>4 DEF Take, Batches
<1>7. PutSnapshot(s) \/ PutPointer(s) \/ PostHttp(s) => SameRows
  BY <1>5 DEF PutSnapshot, PutPointer, PostHttp
<1>8. PutAudit(s) => SameRows
  BY <1>4, <1>5 DEF PutAudit
<1>9. Register(s) => SameRows
  BY <1>1 DEF Register, Batches
<1>10. SendFails(s) => SameRows
  BY <1>4 DEF SendFails
<1> HIDE DEF SameRows
<1> QED
  BY <1>2, <1>3, <1>6, <1>7, <1>8, <1>9, <1>10

LEMMA NextPromise ==
  ASSUME Inv, [Next]_vars
  PROVE  [Promise!Next]_Promise!vars
<1>1. TypeOK
  BY DEF Inv, Safe
<1> DEFINE Stutter == UNCHANGED <<QueuedPubs, DeliveredPubs, Verdicts, HeldRows>>
<1>2. Stutter => UNCHANGED Promise!vars
  BY DEF Promise!vars, QueuedPubs, DeliveredPubs, Verdicts, HeldRows
<1>3. ASSUME UNCHANGED <<transport, audit, accepted>>, HeldRows' = HeldRows,
             \A p \in Pubs : row'[p].status = row[p].status
      PROVE  Stutter
  BY <1>3 DEF QueuedPubs, DeliveredPubs, Verdicts, Delivered
<1>4. ASSUME NEW p \in Pubs, Enqueue(p)
      PROVE  Promise!Queue
  <2>1. row[p].status = "absent" /\ row' = [row EXCEPT ![p] = Row("pending", 0, TRUE)]
    BY <1>4 DEF Enqueue
  <2>2. row'[p].status = "pending" /\ \A q \in Pubs \ {p} : row'[q] = row[q]
    BY <1>1, <2>1 DEF TypeOK, Row
  <2>3. p \in Pubs \ QueuedPubs /\ QueuedPubs' = QueuedPubs \cup {p} /\ Verdicts' = Verdicts
    BY <2>1, <2>2 DEF QueuedPubs, Verdicts
  <2>4. DeliveredPubs' = DeliveredPubs /\ HeldRows' = HeldRows
    BY <1>4 DEF DeliveredPubs, HeldRows, Delivered, Enqueue, remote, config
  <2> QED
    BY <2>3, <2>4 DEF Promise!Queue, QueuedPubs, DeliveredPubs, Verdicts, HeldRows
<1>5. ASSUME NEW s \in Senders, PutAudit(s) \/ PostHttp(s)
      PROVE  Promise!Deliver \/ Stutter
  <2>1. row' = row /\ transport' = transport /\ HeldRows' = HeldRows
    BY <1>5, StepOfBatch
  <2>2. sender[s].batch # {} /\ BatchInv(s)
    BY <1>5 DEF Inv, BatchInv, SentSoFar, Sending, PutAudit, PostHttp
  <2>3. Pub(s) \in sender[s].batch /\ Pub(s) \in Pubs
    BY <1>1, <2>2, PubInBatch
  <2>4. Pub(s) \in HeldRows[s]
    BY <2>2, <2>3 DEF BatchInv, RowsHeld, HeldRows
  <2>5. audit' \in {audit, audit \cup {Pub(s)}} /\ accepted' \in {accepted, accepted \cup {Pub(s)}}
    BY <1>5 DEF PutAudit, PostHttp
  <2>6. DeliveredPubs' \in {DeliveredPubs, DeliveredPubs \cup {Pub(s)}}
    <3>1. \A q \in Pubs \ {Pub(s)} : Delivered(q)' <=> Delivered(q)
      BY <2>1, <2>5 DEF Delivered
    <3>2. Delivered(Pub(s)) => \A q : q = Pub(s) => (transport' = transport /\ q \in DeliveredPubs')
      BY <2>1, <2>3, <2>5 DEF Delivered, DeliveredPubs
    <3> QED
      BY <2>3, <3>1, <3>2 DEF DeliveredPubs
  <2>7. QueuedPubs' = QueuedPubs /\ Verdicts' = Verdicts
    BY <2>1 DEF QueuedPubs, Verdicts
  <2>8. CASE DeliveredPubs' = DeliveredPubs
    BY <2>1, <2>7, <2>8
  <2>9. CASE DeliveredPubs' # DeliveredPubs
    <3>1. Pub(s) \in HeldRows[s] \ DeliveredPubs /\ DeliveredPubs' = DeliveredPubs \cup {Pub(s)}
      BY <2>4, <2>6, <2>9
    <3>2. /\ \E t \in Senders : \E p \in HeldRows[t] \ DeliveredPubs : DeliveredPubs' = DeliveredPubs \cup {p}
          /\ UNCHANGED <<QueuedPubs, Verdicts, HeldRows>>
      BY <2>1, <2>7, <3>1
    <3> QED
      BY <3>2 DEF Promise!Deliver, QueuedPubs, DeliveredPubs, Verdicts, HeldRows
  <2> QED
    BY <2>8, <2>9
<1>6. ASSUME NEW p \in Pubs, BackoffElapses(p)
      PROVE  Stutter
  <2>1. UNCHANGED <<transport, audit, accepted>> /\ HeldRows' = HeldRows
    BY <1>6 DEF BackoffElapses, remote, config, HeldRows
  <2>2. \A q \in Pubs : row'[q].status = row[q].status
    BY <1>1, <1>6 DEF BackoffElapses, TypeOK, Rows
  <2> QED
    BY <1>3, <2>1, <2>2
<1>7. ASSUME UNCHANGED vars \/ PlanCleanup \/ Clean \/ CleanupEnds
      PROVE  Stutter
  <2>1. UNCHANGED <<transport, row, audit, accepted>> /\ HeldRows' = HeldRows
    BY <1>7 DEF vars, PlanCleanup, Clean, CleanupEnds, remote, config, HeldRows
  <2> QED
    BY <1>3, <2>1
<1>8. ASSUME NEW s \in Senders,
             Take(s) \/ PutSnapshot(s) \/ PutPointer(s) \/ Register(s) \/ SendFails(s)
      PROVE  Stutter
  <2>1. UNCHANGED <<audit, accepted>>
    BY <1>8 DEF Take, PutSnapshot, PutPointer, Register, SendFails, remote
  <2>2. row' = row /\ transport' = transport /\ HeldRows' = HeldRows
    BY <1>8, StepOfBatch
  <2> QED
    BY <1>3, <2>1, <2>2
<1> HIDE DEF Stutter
<1>9. ASSUME NEW s \in Senders, Load(s)
      PROVE  Promise!Take(s)
  BY <1>9, LoadTakes
<1>10. ASSUME NEW s \in Senders, Commit(s) \/ Abort(s)
      PROVE  Promise!Settle(s)
  BY <1>10, CommitSettles, AbortSettles
<1> QED
  BY <1>2, <1>4, <1>5, <1>6, <1>7, <1>8, <1>9, <1>10 DEF Next, Send, Promise!Next

(* The outbox implements PublicationPromise, whichever batches overlap: a
   publication is delivered before it is published, only what a batch holds is
   delivered, and a verdict is written only by a batch that took the row while
   it was open. *)
THEOREM PromiseKept == Spec => KeepsPromise
<1>1. Init => Inv /\ Promise!Init
  BY InitInv, InitPromise
<1>2. Inv /\ [Next]_vars => Inv'
  BY NextKeepsInv
<1>3. Inv /\ [Next]_vars => [Promise!Next]_Promise!vars
  BY NextPromise
<1> QED
  BY <1>1, <1>2, <1>3, PTL DEF Spec, KeepsPromise, Promise!Spec

=============================================================================
