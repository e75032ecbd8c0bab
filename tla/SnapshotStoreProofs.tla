-------------------------- MODULE SnapshotStoreProofs --------------------------
(***************************************************************************)
(* Safety of the three snapshot stores for any number of servers,          *)
(* publications and readers, and, when one server writes the database,     *)
(* their implementation of LatestAccepted.                                 *)
(*                                                                         *)
(* The invariant says, for each store, what an upload under way has        *)
(* already written (Placed), which publications its pruning may take       *)
(* (Doomed), that the rows of a store with one writer stand still while    *)
(* it prunes (Frozen), and that the file of a row goes only when a newer   *)
(* row stays (Covered).  The promise rests on what a read and a cache      *)
(* carry with them (Reading, Caching).                                     *)
(***************************************************************************)
EXTENDS SnapshotStore, FiniteSetTheorems, WellFoundedInduction, SequenceTheorems, TLAPS

\* What an upload has at each of its stages, by store.
StagesOf(b) ==
    CASE b = "file" -> {"idle", "look", "write", "insert", "unlink", "commit"}
      [] b = "database" -> {"idle", "insert", "compare", "commit"}
      [] OTHER -> {"idle", "look", "put", "point", "audit", "reset"}

Table(s) == [rows EXCEPT ![s.pub] = Row(s.sum, s.at)]

\* The acceptances as they will be when the upload s commits.
After(s) == [accepted EXCEPT ![s.pub] = IF @ < s.at THEN s.at ELSE @]

Pruning(s) == s.stage \in {"unlink", "commit"}

\* What an upload has written before its row.
Placed(s) ==
    /\ backend = "file" =>
        /\ s.stage \in {"write", "insert", "unlink", "commit"} => rows[s.pub] = NoRow
        /\ s.stage \in {"insert", "unlink"} => payloads[s.pub] = s.sum
        /\ s.stage = "commit" /\ s.pub \notin s.old => payloads[s.pub] = s.sum
    /\ s.stage \in {"point", "audit"} => payloads[s.pub] = s.sum

\* The rows of a store with one writer stand still while it prunes.
Frozen(s) ==
    OneWriter =>
        /\ Pruning(s) => s.old = Excess(Table(s))
        /\ Pruning(s) \/ (backend = "database" /\ s.stage = "insert") =>
            \A p \in Pubs : accepted[p] <= s.at

Judged(s, p) ==
    OneWriter \/ (p \notin again /\ (p = s.pub => accepted[p] < 0))

\* What a pruning takes has Keep newer publications once the upload has committed.
Doomed(s) ==
    Pruning(s) =>
        \A p \in s.old :
            /\ p # s.pub => accepted[p] >= 0
            /\ Judged(s, p) => Cardinality(Later(After(s), p)) >= Keep

\* The progress s of an upload by w.
Upload(w, s) ==
    /\ s.stage \in StagesOf(backend)
    /\ s.at <= now
    /\ s.stage # "idle" => s.pub \in Pubs /\ s.sum \in Sums /\ w \in Publishing[backend]
    /\ Placed(s) /\ Frozen(s) /\ Doomed(s)

\* The times of the rows and of the acceptances.
Timed ==
    \A p \in Pubs :
        /\ rows[p].at <= now /\ accepted[p] <= now
        /\ rows[p] # NoRow =>
            /\ rows[p].at <= accepted[p]
            /\ (OneWriter \/ p \notin again) => accepted[p] = rows[p].at

\* The rows of the database hold their payloads; objects are not removed.
Stored ==
    /\ backend = "database" => payloads = [p \in Pubs |-> rows[p].sum]
    /\ backend = "object" =>
        /\ \A p \in Pubs : IF rows[p] = NoRow THEN accepted[p] = -1 ELSE payloads[p] = rows[p].sum
        /\ pointer # 0 => payloads[pointer] # Absent
        /\ again = {}

\* A row whose file was removed by a pruning that did not commit is not the newest.
Covered ==
    backend = "file" =>
        \A p \in Present(rows) :
            payloads[p] = Absent => \E q \in Present(rows) : Newer(rows, q, p)

\* No two transactions that are about to commit insert the same publication.
Disjoint ==
    \A v, w \in Writers :
        At(v, "commit") /\ At(w, "commit") /\ v # w => save[v].pub # save[w].pub

UploadType ==
    [stage : Stages, pub : 0..NumPubs, sum : Sums \cup {Absent}, at : Nat, old : SUBSET Pubs]

Typed ==
    /\ backend \in Backends
    /\ rows \in [Pubs -> [sum : Sums, at : Nat] \cup {NoRow}]
    /\ payloads \in [Pubs -> Sums \cup {Absent}]
    /\ pointer \in 0..NumPubs
    /\ now \in 0..MaxTime
    /\ save \in [Writers -> UploadType]
    /\ accepted \in [Pubs -> Nat \cup {-1}]
    /\ again \subseteq Pubs
    /\ saves \in 0..MaxSaves[backend] /\ faults \in 0..MaxFaults

StoreInv ==
    /\ Typed
    /\ \A w \in Writers : Upload(w, save[w])
    /\ Timed /\ Stored /\ Covered /\ Disjoint
    /\ PayloadMatchesAudit /\ NewestKept

ReadsTyped ==
    /\ read \in [Readers -> [stage : {"idle", "look", "file", "pointer", "keep"},
                             from : 0..MaxTime, since : Nat, value : Answers]]
    /\ cache \in [Servers -> [value : Answers, until : -1..(MaxTime + Ttl)]]
    /\ log \in Seq([value : Answers, at : Nat]) /\ log # <<>>
    /\ \A r \in Readers : read[r].stage = "file" => read[r].value # Nothing

\* Entries of the log l that are its last or followed by one at time t or later.
CurrentIn(l, t) == {i \in DOMAIN l : i = Len(l) \/ l[i + 1].at >= t}

\* A read, and a cache, hold what was the latest not before the moment from which the promise
\* counts.
Reading(x) ==
    /\ x.stage = "idle" => x.since = 0
    /\ x.stage # "idle" =>
        /\ x.since \in 1..Len(log) /\ x.from <= now
        /\ \A j \in CurrentIn(log, x.from - Window) : x.since <= j
    /\ x.stage = "file" =>
        /\ backend = "file"
        /\ \E j \in x.since..Len(log) : log[j].value = x.value
        /\ Len(log) = x.since => x.value = Latest
    /\ x.stage = "pointer" => backend = "object"
    /\ x.stage = "keep" =>
        /\ backend = "object"
        /\ \E j \in CurrentIn(log, x.from) : log[j].value = x.value

Caching(c) ==
    c.until >= 0 =>
        /\ c.until - Ttl <= now
        /\ \E j \in CurrentIn(log, c.until - Ttl) : log[j].value = c.value

PromiseInv ==
    /\ StoreInv /\ ReadsTyped
    /\ log[Len(log)].value = Latest
    /\ \A r \in Readers : Reading(read[r])
    /\ \A s \in Servers : Caching(cache[s])

\* One server for each store that deletes, as .do/app.yaml deploys it.
Alone == \A b \in Backends \ {"object"} : \A v, w \in Publishing[b] : v = w

-----------------------------------------------------------------------------
(* Tables of rows *)

TableType == [Pubs -> [sum : Sums, at : Nat] \cup {NoRow}]

LEMMA LeastNatural ==
  ASSUME NEW S \in SUBSET Nat, S # {}
  PROVE  \E p \in S : \A q \in S : p <= q
<1> DEFINE Less == {pair \in Nat \X Nat : pair[1] < pair[2]}
<1>1. IsWellFoundedOn(Less, Nat)
  BY NatLessThanWellFounded DEF OpToRel
<1>2. PICK p \in S : \A q \in S : <<q, p>> \notin Less
  <2> HIDE DEF Less
  <2> QED
    BY <1>1, WFMin
<1>3. ASSUME NEW q \in S, q < p
      PROVE  FALSE
  <2>1. <<q, p>> \in Nat \X Nat /\ <<q, p>>[1] = q /\ <<q, p>>[2] = p
    BY <1>2
  <2> QED
    BY <1>2, <1>3, <2>1
<1> QED
  BY <1>2, <1>3

LEMMA PubsFinite == IsFiniteSet(Pubs) /\ Pubs \subseteq Nat
BY StoreAssumption, FS_Interval DEF Pubs

\* Sets of publications have a cardinality, which grows with them.
LEMMA CountPubs ==
    ASSUME NEW S \in SUBSET Pubs
    PROVE  /\ IsFiniteSet(S) /\ Cardinality(S) \in Nat
           /\ \A T \in SUBSET S : Cardinality(T) <= Cardinality(S)
<1>1. IsFiniteSet(S) BY PubsFinite, FS_Subset
<1>2. Cardinality(S) \in Nat BY <1>1, FS_CardinalityType
<1>3. \A T \in SUBSET S : Cardinality(T) <= Cardinality(S) BY <1>1, FS_Subset
<1> QED BY <1>1, <1>2, <1>3

\* Rows are strictly and totally ordered.
LEMMA NewerIsOrder ==
    ASSUME NEW table \in TableType, NEW p \in Pubs, NEW q \in Pubs, NEW r \in Pubs
    PROVE  /\ ~Newer(table, p, p)
           /\ Newer(table, p, q) /\ Newer(table, q, r) => Newer(table, p, r)
           /\ p # q => Newer(table, p, q) \/ Newer(table, q, p)
<1>1. table[p].at \in Nat /\ table[q].at \in Nat /\ table[r].at \in Nat
  BY DEF TableType, NoRow, Row
<1>2. p \in Nat /\ q \in Nat /\ r \in Nat BY PubsFinite
<1> QED BY <1>1, <1>2 DEF Newer

LEMMA RankOlder ==
    ASSUME NEW table \in TableType, NEW p \in Pubs, NEW q \in Present(table), Newer(table, q, p)
    PROVE  Rank(table, q) \in Nat /\ Rank(table, p) \in Nat /\ Rank(table, q) < Rank(table, p)
<1> DEFINE A == {r \in Present(table) : Newer(table, r, q)}
           B == {r \in Present(table) : Newer(table, r, p)}
<1>1. q \in Pubs /\ A \in SUBSET Pubs /\ B \in SUBSET Pubs BY DEF Present
<1>2. A \subseteq B
  <2> SUFFICES ASSUME NEW r \in A PROVE r \in B OBVIOUS
  <2>1. r \in Pubs /\ Newer(table, r, q) BY <1>1
  <2> QED BY <2>1, <1>1, NewerIsOrder
<1>3. q \in B /\ q \notin A BY <1>1, NewerIsOrder
<1>4. A # B BY <1>3
<1>5. IsFiniteSet(B) /\ Cardinality(A) \in Nat /\ Cardinality(B) \in Nat BY <1>1, CountPubs
<1>6. Cardinality(A) < Cardinality(B) BY <1>2, <1>4, <1>5, FS_Subset
<1> QED BY <1>5, <1>6 DEF Rank

LEMMA RankZero ==
    ASSUME NEW table \in TableType, NEW p \in Pubs
    PROVE  /\ Rank(table, p) \in Nat
           /\ Rank(table, p) = 0 <=> \A q \in Present(table) : ~Newer(table, q, p)
<1> DEFINE A == {q \in Present(table) : Newer(table, q, p)}
<1>1. A \in SUBSET Pubs BY DEF Present
<1>2. IsFiniteSet(A) /\ Cardinality(A) \in Nat BY <1>1, CountPubs
<1>3. Cardinality(A) = 0 <=> A = {} BY <1>2, FS_EmptySet
<1> QED BY <1>2, <1>3 DEF Rank

\* A table with rows has a newest one.
LEMMA NewestExists ==
    ASSUME NEW table \in TableType, Present(table) # {}
    PROVE  \E p \in Present(table) : Rank(table, p) = 0
<1> DEFINE S == {Rank(table, p) : p \in Present(table)}
<1>1. \A p \in Present(table) : p \in Pubs BY DEF Present
<1>2. S \in SUBSET Nat /\ S # {} BY <1>1, RankZero
<1>3. PICK n \in S : \A m \in S : n <= m BY <1>2, LeastNatural
<1>4. PICK p \in Present(table) : n = Rank(table, p) BY <1>3
<1>5. \A q \in Present(table) : ~Newer(table, q, p)
  <2> SUFFICES ASSUME NEW q \in Present(table), Newer(table, q, p) PROVE FALSE OBVIOUS
  <2>1. Rank(table, q) < Rank(table, p) /\ Rank(table, q) \in Nat /\ Rank(table, p) \in Nat
    BY <1>1, RankOlder
  <2> QED BY <2>1, <1>3, <1>4
<1> QED BY <1>1, <1>4, <1>5, RankZero

\* What is older than a pruned row is pruned too.
LEMMA ExcessIsTail ==
    ASSUME NEW table \in TableType, NEW p \in Present(table), NEW q \in Excess(table),
           Newer(table, q, p)
    PROVE  p \in Excess(table)
<1>1. p \in Pubs /\ q \in Present(table) BY DEF Present, Excess
<1>2. Rank(table, q) >= Keep BY DEF Excess
<1>3. Rank(table, q) < Rank(table, p) /\ Rank(table, q) \in Nat /\ Rank(table, p) \in Nat
  BY <1>1, RankOlder
<1> QED BY <1>2, <1>3, StoreAssumption DEF Excess

-----------------------------------------------------------------------------
(* Steps of an upload that leave the store alone *)

\* The file store has one server.
LEMMA FileHasOneWriter == ASSUME Typed, backend = "file" PROVE OneWriter
BY StoreAssumption DEF Typed, OneWriter

\* While the only writer of a store works, the others are idle.
LEMMA OthersIdle ==
    ASSUME StoreInv, OneWriter, NEW w \in Writers, save[w].stage # "idle",
           NEW v \in Writers, v # w
    PROVE  save[v].stage = "idle"
BY DEF StoreInv, Upload, OneWriter

\* An idle upload has nothing to answer for.
LEMMA IdleUpload == ASSUME Typed, NEW w \in Writers PROVE Upload(w, IdleSave) /\ IdleSave \in UploadType
<1>1. IdleSave.stage = "idle" /\ IdleSave.at = 0 BY DEF IdleSave
<1>2. IdleSave \in UploadType
  BY StoreAssumption DEF IdleSave, UploadType, Stages
<1>3. "idle" \in StagesOf(backend) BY DEF StagesOf
<1>4. 0 <= now BY DEF Typed
<1> QED BY <1>1, <1>2, <1>3, <1>4 DEF Upload, Placed, Frozen, Doomed, Pruning

\* An upload moves to s and nothing else happens in the store.
LEMMA UploadMoves ==
    ASSUME StoreInv, NEW w \in Writers, NEW s \in UploadType, Upload(w, s),
           save' = [save EXCEPT ![w] = s],
           UNCHANGED <<backend, rows, payloads, pointer, now, accepted, again>>,
           saves' \in 0..MaxSaves[backend], faults' \in 0..MaxFaults,
           s.stage = "commit" =>
               \A v \in Writers \ {w} : At(v, "commit") => save[v].pub # s.pub
    PROVE  StoreInv'
<1>0. save \in [Writers -> UploadType] BY DEF StoreInv, Typed
<1>1. save'[w] = s /\ \A v \in Writers : v # w => save'[v] = save[v] BY <1>0
<1>2. Typed' BY <1>0 DEF StoreInv, Typed
<1>3. \A v \in Writers : Upload(v, save[v])'
  <2> SUFFICES ASSUME NEW v \in Writers PROVE Upload(v, save[v])' OBVIOUS
  <2>1. Upload(v, save'[v]) BY <1>1 DEF StoreInv
  <2> QED
    BY <2>1 DEF Upload, Placed, Frozen, Doomed, Judged, Pruning, After, Later, Table, Excess,
         Present, Rank, Newer, OneWriter
<1>4. Disjoint' BY <1>1 DEF StoreInv, Disjoint, At
<1>5. Timed' /\ Stored' /\ Covered' /\ PayloadMatchesAudit' /\ NewestKept'
  BY DEF StoreInv, Timed, Stored, Covered, PayloadMatchesAudit, NewestKept, OneWriter, Present, Newer, Later
<1> QED BY <1>2, <1>3, <1>4, <1>5 DEF StoreInv

\* A pruning that begins takes what has Keep newer publications.
LEMMA InsertDooms ==
    ASSUME StoreInv, NEW s \in UploadType, s.pub \in Pubs, s.sum \in Sums, s.old = Excess(Table(s)),
           OneWriter => \A p \in Pubs : accepted[p] <= s.at
    PROVE  Doomed(s)
<1> DEFINE table == Table(s)
           times == After(s)
<1>0. rows \in TableType /\ accepted \in [Pubs -> Nat \cup {-1}] /\ s.at \in Nat
  BY DEF StoreInv, Typed, TableType, UploadType
<1>1. table \in TableType
  BY <1>0 DEF Table, TableType, Row
<1>2. \A p \in Pubs : table[p] = IF p = s.pub THEN Row(s.sum, s.at) ELSE rows[p]
  BY <1>0 DEF Table, TableType
<1>3. \A p \in Pubs : times[p] = IF p = s.pub /\ accepted[p] < s.at THEN s.at ELSE accepted[p]
  BY <1>0 DEF After
<1>4. SUFFICES ASSUME NEW p \in s.old
               PROVE  /\ p # s.pub => accepted[p] >= 0
                      /\ Judged(s, p) => Cardinality(Later(times, p)) >= Keep
  BY DEF Doomed
<1>5. p \in Pubs /\ table[p] # NoRow /\ Rank(table, p) >= Keep
  BY DEF Excess, Present
<1>6. ASSUME p # s.pub PROVE accepted[p] >= 0
  <2>1. rows[p] # NoRow BY <1>2, <1>5, <1>6
  <2>2. rows[p].at <= accepted[p] BY <2>1, <1>5 DEF StoreInv, Timed
  <2>3. rows[p].at \in Nat BY <1>0, <1>5 DEF TableType, NoRow, Row
  <2> QED BY <2>2, <2>3, <1>0, <1>5
<1>7. ASSUME Judged(s, p) PROVE Cardinality(Later(times, p)) >= Keep
  <2>1. times[p] = table[p].at
    <3>1. CASE p = s.pub
      <4>1. table[p].at = s.at BY <3>1, <1>2, <1>5 DEF Row
      <4>2. accepted[p] <= s.at BY <1>7, <3>1, <1>0, <1>5 DEF Judged
      <4> QED BY <4>1, <4>2, <3>1, <1>3, <1>0, <1>5
    <3>2. CASE p # s.pub
      <4>1. table[p] = rows[p] /\ times[p] = accepted[p] BY <3>2, <1>2, <1>3, <1>5
      <4>2. accepted[p] = rows[p].at BY <4>1, <1>5, <1>7 DEF Judged, StoreInv, Timed
      <4> QED BY <4>1, <4>2
    <3> QED BY <3>1, <3>2
  <2>2. \A q \in Present(table) : q \in Pubs /\ table[q].at <= times[q]
    <3> SUFFICES ASSUME NEW q \in Present(table) PROVE q \in Pubs /\ table[q].at <= times[q] OBVIOUS
    <3>1. q \in Pubs /\ table[q] # NoRow BY DEF Present
    <3>2. CASE q = s.pub
      <4>1. table[q].at = s.at BY <3>1, <3>2, <1>2 DEF Row
      <4> QED BY <4>1, <3>1, <3>2, <1>3, <1>0
    <3>3. CASE q # s.pub
      <4>1. rows[q] # NoRow /\ table[q] = rows[q] /\ times[q] = accepted[q] BY <3>1, <3>3, <1>2, <1>3
      <4>2. rows[q].at <= accepted[q] BY <4>1, <3>1 DEF StoreInv, Timed
      <4> QED BY <4>1, <4>2, <3>1
    <3> QED BY <3>2, <3>3
  <2> HIDE DEF table, times
  <2>3. {q \in Present(table) : Newer(table, q, p)} \subseteq Later(times, p)
    <3> SUFFICES ASSUME NEW q \in Present(table), Newer(table, q, p) PROVE q \in Later(times, p)
      OBVIOUS
    <3>1. table[q].at \in Nat /\ table[p].at \in Nat /\ times[q] \in Int
      BY <2>2, <1>1, <1>5, <1>3, <1>0 DEF TableType, NoRow, Row
    <3> QED BY <3>1, <2>1, <2>2 DEF Newer, Later
  <2>4. Later(times, p) \in SUBSET Pubs BY DEF Later
  <2>5. Rank(table, p) <= Cardinality(Later(times, p)) /\ Cardinality(Later(times, p)) \in Nat
    BY <2>3, <2>4, CountPubs DEF Rank
  <2> QED BY <2>5, <1>5, <1>1, RankZero, StoreAssumption
<1> QED BY <1>6, <1>7

-----------------------------------------------------------------------------
(* The steps of an upload before it writes *)

LEMMA ReplyKeeps ==
    ASSUME StoreInv, NEW w \in Writers, Reply(w), saves' = saves, faults' \in 0..MaxFaults,
           UNCHANGED <<backend, store, now, accepted, again>>
    PROVE  StoreInv'
<1>1. Upload(w, IdleSave) /\ IdleSave \in UploadType /\ IdleSave.stage # "commit"
  BY IdleUpload DEF StoreInv, IdleSave
<1>2. saves' \in 0..MaxSaves[backend] BY DEF StoreInv, Typed
<1> QED BY <1>1, <1>2, UploadMoves DEF Reply, store

LEMMA ReceiveKeeps ==
    ASSUME StoreInv, NEW w \in Writers, NEW u \in Uploads, Receive(w, u[1], u[2])
    PROVE  StoreInv'
<1> DEFINE s == [stage |-> IF backend = "database" THEN "insert"
                           ELSE IF w = Pipeline THEN "put" ELSE "look",
                 pub |-> u[1], sum |-> u[2], at |-> IF backend = "database" THEN now ELSE 0, old |-> {}]
<1>1. u[1] \in Pubs /\ u[2] \in Sums BY StoreAssumption DEF Pubs
<1>2. backend \in {"file", "database", "object"} /\ now \in Nat /\ Typed
  BY StoreAssumption DEF StoreInv, Typed
<1>3. s \in UploadType BY <1>1, <1>2 DEF UploadType, Stages, Pubs
<1>4. w \in Publishing[backend] /\ (backend # "object" => w # Pipeline)
  BY <1>2, StoreAssumption DEF Receive, Typed
<1>5. s.stage \in StagesOf(backend) /\ s.stage # "commit" /\ ~Pruning(s) /\ s.at <= now
  BY <1>2, <1>4 DEF StagesOf, Pruning
<1>6. Placed(s) /\ Doomed(s) BY <1>2, <1>4, <1>5 DEF Placed, Doomed
<1>7. Frozen(s) BY <1>2, <1>5 DEF Frozen, StoreInv, Timed
<1>8. Upload(w, s) BY <1>1, <1>4, <1>5, <1>6, <1>7 DEF Upload
<1>9. saves' \in 0..MaxSaves[backend] /\ faults' \in 0..MaxFaults
  BY <1>2, StoreAssumption DEF Receive, StoreInv, Typed
<1>10. save' = [save EXCEPT ![w] = s] /\ UNCHANGED <<backend, rows, payloads, pointer, now, accepted, again>>
  BY DEF Receive, store
<1> HIDE DEF s
<1> QED BY <1>3, <1>5, <1>8, <1>9, <1>10, UploadMoves

LEMMA LookKeeps ==
    ASSUME StoreInv, NEW w \in Writers, Look(w)
    PROVE  StoreInv'
<1>0. save[w] \in UploadType /\ Upload(w, save[w]) /\ save[w].stage = "look"
  BY DEF StoreInv, Typed, Look, At
<1>1. CASE rows[save[w].pub] # NoRow
  <2>1. Reply(w) BY <1>1 DEF Look
  <2> QED BY <2>1, ReplyKeeps DEF Look, StoreInv, Typed
<1>2. CASE rows[save[w].pub] = NoRow
  <2> DEFINE s == [save[w] EXCEPT !.stage = IF backend = "file" THEN "write" ELSE "put"]
  <2>1. s \in UploadType /\ s.pub = save[w].pub /\ s.sum = save[w].sum /\ s.at = save[w].at
        /\ s.stage = IF backend = "file" THEN "write" ELSE "put"
    BY <1>0 DEF UploadType, Stages
  <2>2. s.stage \in StagesOf(backend) BY <1>0, <2>1 DEF Upload, StagesOf
  <2>3. Upload(w, s)
    BY <1>0, <1>2, <2>1, <2>2 DEF Upload, Placed, Frozen, Doomed, Pruning
  <2>4. save' = [save EXCEPT ![w] = s] BY <1>2 DEF Look, Goto
  <2>5. s.stage # "commit" BY <2>1
  <2>6. /\ UNCHANGED <<backend, rows, payloads, pointer, now, accepted, again>>
        /\ saves' \in 0..MaxSaves[backend] /\ faults' \in 0..MaxFaults
    BY DEF Look, store, StoreInv, Typed
  <2> HIDE DEF s
  <2> QED BY <2>1, <2>3, <2>4, <2>5, <2>6, UploadMoves
<1> QED BY <1>1, <1>2

LEMMA InsertKeeps ==
    ASSUME StoreInv, NEW w \in Writers, Insert(w)
    PROVE  StoreInv'
<1> DEFINE p == save[w].pub
           at == IF backend = "file" THEN now ELSE save[w].at
           table == [rows EXCEPT ![p] = Row(save[w].sum, at)]
           s == [save[w] EXCEPT !.stage = IF backend = "file" THEN "unlink" ELSE "commit",
                                !.at = at, !.old = Excess(table)]
           c == [save[w] EXCEPT !.stage = "compare"]
<1>0. save[w] \in UploadType /\ Upload(w, save[w]) /\ save[w].stage = "insert" /\ now \in Nat
  BY StoreAssumption DEF StoreInv, Typed, Insert, At
<1>1. p \in Pubs /\ save[w].sum \in Sums /\ backend \in {"file", "database"}
  BY <1>0, StoreAssumption DEF Upload, StagesOf, StoreInv, Typed
<1>2. /\ UNCHANGED <<backend, rows, payloads, pointer, now, accepted, again>>
      /\ saves' \in 0..MaxSaves[backend] /\ faults' \in 0..MaxFaults
  BY DEF Insert, store, StoreInv, Typed
<1>3. CASE rows[p] # NoRow
  <2>1. backend = "database" BY <1>0, <1>1, <1>3 DEF Upload, Placed
  <2>2. c \in UploadType /\ c.pub = p /\ c.sum = save[w].sum /\ c.at = save[w].at /\ c.stage = "compare"
    BY <1>0 DEF UploadType, Stages
  <2>3. Upload(w, c)
    BY <1>0, <1>1, <2>1, <2>2 DEF Upload, Placed, Frozen, Doomed, Pruning, StagesOf
  <2>4. save' = [save EXCEPT ![w] = c] BY <1>3 DEF Insert
  <2>5. c.stage # "commit" BY <2>2
  <2> HIDE DEF c
  <2> QED BY <1>2, <2>2, <2>3, <2>4, <2>5, UploadMoves
<1>4. CASE rows[p] = NoRow
  <2>1. Excess(table) \in SUBSET Pubs BY DEF Excess, Present
  <2>2. /\ s \in UploadType /\ s.pub = p /\ s.sum = save[w].sum /\ s.at = at /\ s.old = Excess(table)
        /\ s.stage = IF backend = "file" THEN "unlink" ELSE "commit"
    BY <1>0, <2>1 DEF UploadType, Stages
  <2>3. s.stage \in StagesOf(backend) /\ s.at <= now
    BY <1>0, <1>1, <2>2 DEF Upload, StagesOf
  <2>4. Table(s) = table BY <2>2 DEF Table
  <2>5. OneWriter => \A q \in Pubs : accepted[q] <= s.at
    BY <1>0, <1>1, <2>2 DEF Upload, Frozen, StoreInv, Timed
  <2>6. save' = [save EXCEPT ![w] = s] BY <1>4 DEF Insert
  <2>7. \A v \in Writers \ {w} : At(v, "commit") => save[v].pub # s.pub
    BY <2>2 DEF Insert
  <2> HIDE DEF s, table, at, p
  <2>8. Placed(s) BY <1>0, <1>1, <1>4, <2>2 DEF Upload, Placed, p
  <2>9. Frozen(s) BY <2>2, <2>4, <2>5 DEF Frozen
  <2>10. Doomed(s) BY <1>1, <2>2, <2>4, <2>5, InsertDooms
  <2>11. Upload(w, s) BY <1>0, <1>1, <2>2, <2>3, <2>8, <2>9, <2>10 DEF Upload
  <2> QED BY <1>2, <2>2, <2>6, <2>7, <2>11, UploadMoves
<1> QED BY <1>3, <1>4

-----------------------------------------------------------------------------
(* Steps that write *)

\* With one writer the other uploads are idle, before the step and after it.
LEMMA OthersKeep ==
    ASSUME StoreInv, OneWriter, NEW w \in Writers, save[w].stage # "idle", UNCHANGED <<backend, now>>,
           \A v \in Writers : v # w => save'[v] = save[v]
    PROVE  \A v \in Writers \ {w} : Upload(v, save[v])' /\ save'[v].stage = "idle"
<1> SUFFICES ASSUME NEW v \in Writers \ {w} PROVE Upload(v, save[v])' /\ save'[v].stage = "idle"
  OBVIOUS
<1>1. save'[v] = save[v] /\ save[v].stage = "idle" BY OthersIdle
<1>2. save[v].at <= now /\ "idle" \in StagesOf(backend) BY DEF StoreInv, Upload, StagesOf
<1> QED BY <1>1, <1>2 DEF Upload, Placed, Frozen, Doomed, Pruning, StagesOf

LEMMA FileWriteKeeps ==
    ASSUME StoreInv, NEW w \in Writers, FileWrite(w)
    PROVE  StoreInv'
<1> DEFINE s == [save[w] EXCEPT !.stage = "insert"]
           p == save[w].pub
<1>0. save[w] \in UploadType /\ Upload(w, save[w]) /\ save[w].stage = "write" /\ Typed
  BY DEF StoreInv, Typed, FileWrite, At
<1>1. backend = "file" /\ p \in Pubs /\ save[w].sum \in Sums /\ rows[p] = NoRow /\ w \in Publishing[backend]
  BY <1>0, StoreAssumption DEF Upload, StagesOf, Placed, Typed
<1>2. OneWriter BY <1>0, <1>1, FileHasOneWriter
<1>3. s \in UploadType /\ s.pub = p /\ s.sum = save[w].sum /\ s.at = save[w].at /\ s.stage = "insert"
      /\ save' = [save EXCEPT ![w] = s]
  BY <1>0 DEF UploadType, Stages, FileWrite, Goto
<1>4. save'[w] = s /\ \A v \in Writers : v # w => save'[v] = save[v]
  BY <1>0, <1>3 DEF Typed
<1>5. UNCHANGED <<backend, rows, pointer, now, accepted, again, saves, faults>>
  BY DEF FileWrite
<1>6. \A q \in Pubs : payloads'[q] = IF q = p THEN save[w].sum ELSE payloads[q]
  BY <1>0 DEF Typed, FileWrite
<1> HIDE DEF s
<1>7. Typed' BY <1>0, <1>1, <1>3, <1>5 DEF Typed, FileWrite
<1>8. \A v \in Writers : Upload(v, save[v])'
  <2>1. Upload(w, save[w])'
    BY <1>0, <1>1, <1>3, <1>4, <1>5, <1>6
    DEF Upload, Placed, Frozen, Doomed, Pruning, StagesOf
  <2> QED BY <2>1, <1>0, <1>2, <1>4, <1>5, OthersKeep
<1>9. Disjoint'
  <2>1. \A v \in Writers : v # w => save'[v].stage = "idle"
    BY <1>0, <1>2, <1>4, <1>5, OthersKeep
  <2> QED BY <2>1 DEF Disjoint, At
<1>10. Timed' /\ NewestKept'
  BY <1>5 DEF StoreInv, Timed, NewestKept, OneWriter, Later
<1>11. Stored' /\ Covered' /\ PayloadMatchesAudit'
  BY <1>1, <1>5, <1>6 DEF StoreInv, Stored, Covered, PayloadMatchesAudit, Present, Newer
<1> QED BY <1>7, <1>8, <1>9, <1>10, <1>11 DEF StoreInv

LEMMA UnlinkKeeps ==
    ASSUME StoreInv, NEW w \in Writers, Unlink(w)
    PROVE  StoreInv'
<1> DEFINE s == [save[w] EXCEPT !.stage = "commit"]
           table == Table(save[w])
<1>0. save[w] \in UploadType /\ Upload(w, save[w]) /\ save[w].stage = "unlink" /\ Typed
  BY DEF StoreInv, Typed, Unlink, At
<1>1. /\ backend = "file" /\ save[w].pub \in Pubs /\ save[w].sum \in Sums /\ w \in Publishing[backend]
      /\ rows[save[w].pub] = NoRow /\ payloads[save[w].pub] = save[w].sum
  BY <1>0, StoreAssumption DEF Upload, StagesOf, Placed, Typed
<1>2. OneWriter BY <1>0, <1>1, FileHasOneWriter
<1>3. s \in UploadType /\ s.pub = save[w].pub /\ s.sum = save[w].sum /\ s.at = save[w].at
      /\ s.old = save[w].old /\ s.stage = "commit" /\ save' = [save EXCEPT ![w] = s]
  BY <1>0 DEF UploadType, Stages, Unlink, Goto
<1>4. save'[w] = s /\ \A v \in Writers : v # w => save'[v] = save[v]
  BY <1>0, <1>3 DEF Typed
<1>5. UNCHANGED <<backend, rows, pointer, now, accepted, again, saves, faults>>
  BY DEF Unlink
<1>6. \A q \in Pubs : payloads'[q] = IF q \in save[w].old THEN Absent ELSE payloads[q]
  BY DEF Unlink
<1> HIDE DEF s
<1>7. Typed' BY <1>0, <1>3, <1>5 DEF Typed, Unlink
<1>8. \A v \in Writers : Upload(v, save[v])'
  <2>1. Placed(save[w])' BY <1>1, <1>3, <1>4, <1>5, <1>6 DEF Placed
  <2>2. Frozen(save[w])'
    BY <1>0, <1>3, <1>4, <1>5
    DEF Upload, Frozen, Pruning, Table, Excess, Present, Rank, Newer, OneWriter
  <2>3. Doomed(save[w])'
    BY <1>0, <1>3, <1>4, <1>5 DEF Upload, Doomed, Pruning, Judged, After, Later, OneWriter
  <2>4. Upload(w, save[w])'
    BY <1>0, <1>1, <1>3, <1>4, <1>5, <2>1, <2>2, <2>3 DEF Upload, StagesOf
  <2> QED BY <2>4, <1>0, <1>2, <1>4, <1>5, OthersKeep
<1>9. Disjoint'
  <2>1. \A v \in Writers : v # w => save'[v].stage = "idle"
    BY <1>0, <1>2, <1>4, <1>5, OthersKeep
  <2> QED BY <2>1 DEF Disjoint, At
<1>10. Timed' /\ NewestKept'
  BY <1>5 DEF StoreInv, Timed, NewestKept, OneWriter, Later
<1>11. Stored' /\ PayloadMatchesAudit'
  BY <1>1, <1>5, <1>6 DEF StoreInv, Stored, PayloadMatchesAudit, Present
<1>12. Covered'
  <2>1. SUFFICES ASSUME NEW p \in Present(rows), payloads'[p] = Absent
                 PROVE  \E q \in Present(rows) : Newer(rows, q, p)
    BY <1>5 DEF Covered, Present, Newer
  <2>2. p \in Pubs /\ rows[p] # NoRow /\ p # save[w].pub BY <1>1 DEF Present
  <2>3. CASE p \notin save[w].old
    <3>1. payloads[p] = Absent BY <2>1, <2>2, <2>3, <1>6
    <3> QED BY <3>1, <1>1 DEF StoreInv, Covered
  <2>4. CASE p \in save[w].old
    <3> DEFINE A == {q \in Present(table) : Newer(table, q, p)}
    <3>1. save[w].old = Excess(table) BY <1>0, <1>2 DEF Upload, Frozen, Pruning
    <3>2. Cardinality(A) >= Keep BY <2>4, <3>1 DEF Excess, Rank
    <3>3. A \in SUBSET Pubs BY DEF Present
    <3>4. Cardinality({save[w].pub}) = 1 /\ IsFiniteSet({save[w].pub}) BY FS_Singleton
    <3>5. ~(A \subseteq {save[w].pub})
      BY <3>2, <3>3, <3>4, CountPubs, <1>1, StoreAssumption
    <3>6. PICK q \in A : q # save[w].pub BY <3>5
    <3>7. q \in Pubs /\ table[q] = rows[q] /\ table[p] = rows[p]
      BY <3>3, <3>6, <2>2, <1>0 DEF Table, Typed
    <3>8. q \in Present(rows) /\ Newer(rows, q, p)
      BY <3>6, <3>7 DEF Present, Newer
    <3> QED BY <3>8
  <2> QED BY <2>3, <2>4
<1> QED BY <1>7, <1>8, <1>9, <1>10, <1>11, <1>12 DEF StoreInv

\* What a commit makes of the rows, the payloads and the acceptances.
LEMMA CommitEffect ==
    ASSUME StoreInv, NEW w \in Writers, Commit(w)
    PROVE  LET s == save[w] IN
           /\ s \in UploadType /\ Upload(w, s) /\ s.stage = "commit" /\ Typed
           /\ backend \in {"file", "database"}
           /\ s.pub \in Pubs /\ s.sum \in Sums /\ s.at \in Nat /\ w \in Publishing[backend]
           /\ Table(s) \in TableType /\ rows \in TableType
           /\ \A q \in Pubs : Table(s)[q] = IF q = s.pub THEN Row(s.sum, s.at) ELSE rows[q]
           /\ \A q \in Pubs : rows'[q] = IF q \in s.old THEN NoRow ELSE Table(s)[q]
           /\ accepted' = After(s)
           /\ \A q \in Pubs : accepted'[q] =
                IF q = s.pub /\ accepted[q] < s.at THEN s.at ELSE accepted[q]
           /\ save'[w] = IdleSave /\ \A v \in Writers : v # w => save'[v] = save[v]
           /\ UNCHANGED <<backend, pointer, now, saves, faults>>
<1> DEFINE s == save[w]
<1>0. s \in UploadType /\ Upload(w, s) /\ s.stage = "commit" /\ Typed
  BY DEF StoreInv, Typed, Commit, At
<1>1. /\ backend \in {"file", "database"} /\ s.pub \in Pubs /\ s.sum \in Sums /\ s.at \in Nat
      /\ w \in Publishing[backend]
  BY <1>0, StoreAssumption DEF Upload, StagesOf, Typed, UploadType
<1>2. rows \in TableType /\ accepted \in [Pubs -> Nat \cup {-1}] BY <1>0 DEF Typed, TableType
<1>3. Table(s) \in TableType BY <1>1, <1>2 DEF Table, TableType, Row
<1>4. \A q \in Pubs : Table(s)[q] = IF q = s.pub THEN Row(s.sum, s.at) ELSE rows[q]
  BY <1>2 DEF Table, TableType
<1>5. \A q \in Pubs : rows'[q] = IF q \in s.old THEN NoRow ELSE Table(s)[q]
  BY <1>4 DEF Commit, Mine
<1>6. accepted' = After(s) BY DEF Commit, After
<1>7. \A q \in Pubs : accepted'[q] = IF q = s.pub /\ accepted[q] < s.at THEN s.at ELSE accepted[q]
  BY <1>2, <1>6 DEF After
<1>8. save'[w] = IdleSave /\ \A v \in Writers : v # w => save'[v] = save[v]
  BY <1>0 DEF Commit, Reply, Typed
<1>9. UNCHANGED <<backend, pointer, now, saves, faults>> BY DEF Commit
<1> QED BY <1>0, <1>1, <1>2, <1>3, <1>4, <1>5, <1>6, <1>7, <1>8, <1>9

\* The prunings of other servers on the database still take what they may.
LEMMA CommitLeavesDoomed ==
    ASSUME StoreInv, NEW w \in Writers, Commit(w), NEW v \in Writers, v # w
    PROVE  Doomed(save[v])'
<1> DEFINE s == save[w]
           t == save[v]
           times == After(t)
           times1 == After(t)'
<1>1. /\ Upload(w, s) /\ s.stage = "commit" /\ Typed /\ s.pub \in Pubs /\ s.at \in Nat
      /\ backend \in {"file", "database"} /\ w \in Publishing[backend]
      /\ \A q \in Pubs : accepted'[q] = IF q = s.pub /\ accepted[q] < s.at THEN s.at ELSE accepted[q]
      /\ save'[v] = t /\ backend' = backend
  BY CommitEffect
<1>2. again' = IF accepted[s.pub] >= 0 THEN again \cup {s.pub} ELSE again BY DEF Commit
<1>3. SUFFICES ASSUME Pruning(t) PROVE Doomed(save[v])' BY <1>1 DEF Doomed, Pruning
<1>4. Upload(v, t) /\ t \in UploadType BY <1>1 DEF StoreInv, Typed
<1>5. ~OneWriter
  BY <1>1, <1>3, OthersIdle DEF Pruning
<1>6. backend = "database" BY <1>1, <1>5, FileHasOneWriter
<1>7. At(v, "commit") /\ At(w, "commit") /\ t.pub # s.pub
  BY <1>1, <1>3, <1>4, <1>6 DEF At, Pruning, Upload, StagesOf, StoreInv, Disjoint
<1>8. t.pub \in Pubs /\ t.at \in Nat BY <1>4, <1>7 DEF Upload, At, UploadType
<1>9. /\ accepted \in [Pubs -> Nat \cup {-1}] /\ accepted' \in [Pubs -> Nat \cup {-1}]
  <2>1. DOMAIN accepted = Pubs BY <1>1 DEF Typed
  <2> QED BY <1>1, <2>1 DEF Typed, Commit
<1>10. \A q \in Pubs :
         /\ times[q] = IF q = t.pub /\ accepted[q] < t.at THEN t.at ELSE accepted[q]
         /\ times1[q] = IF q = t.pub /\ accepted'[q] < t.at THEN t.at ELSE accepted'[q]
  <2>1. times1 = [accepted' EXCEPT ![t.pub] = IF @ < t.at THEN t.at ELSE @] BY <1>1 DEF After
  <2> HIDE DEF t
  <2> QED BY <2>1, <1>9 DEF After
<1>11. \A q \in Pubs : times[q] <= times1[q] /\ times[q] \in Int /\ times1[q] \in Int
  BY <1>1, <1>7, <1>8, <1>9, <1>10
<1>12. SUFFICES ASSUME NEW p \in t.old
                PROVE  /\ p # t.pub => accepted'[p] >= 0
                       /\ Judged(t, p)' => Cardinality(Later(times1, p)) >= Keep
  BY <1>1 DEF Doomed, Later
<1>13. p \in Pubs BY <1>4 DEF UploadType
<1>14. /\ p # t.pub => accepted[p] >= 0
       /\ Judged(t, p) => Cardinality(Later(times, p)) >= Keep
  BY <1>3, <1>4 DEF Upload, Doomed
<1>15. p # t.pub => accepted'[p] >= 0
  BY <1>1, <1>9, <1>13, <1>14
<1>16. ASSUME Judged(t, p)' PROVE Cardinality(Later(times1, p)) >= Keep
  <2>1. p \notin again' /\ (p = t.pub => accepted'[p] < 0)
    BY <1>16, <1>1, <1>5 DEF Judged, OneWriter
  <2>2. p # s.pub BY <2>1, <1>2, <1>7, <1>14
  <2>3. p \notin again /\ (p = t.pub => accepted[p] < 0)
    BY <2>1, <2>2, <1>1, <1>2, <1>13
  <2>4. Cardinality(Later(times, p)) >= Keep BY <2>3, <1>14 DEF Judged
  <2>5. times[p] = times1[p] BY <2>2, <1>1, <1>10, <1>13
  <2> HIDE DEF times, times1
  <2>6. Later(times, p) \subseteq Later(times1, p)
    <3> SUFFICES ASSUME NEW q \in Later(times, p) PROVE q \in Later(times1, p) OBVIOUS
    <3>1. q \in Pubs /\ (times[q] > times[p] \/ (times[q] = times[p] /\ q > p)) BY DEF Later
    <3>2. times[q] <= times1[q] /\ times[q] \in Int /\ times1[q] \in Int /\ times[p] \in Int
      BY <3>1, <1>11, <1>13
    <3> QED BY <3>1, <3>2, <2>5 DEF Later
  <2>7. Later(times1, p) \in SUBSET Pubs /\ Later(times, p) \in SUBSET Pubs BY DEF Later
  <2>8. Cardinality(Later(times, p)) <= Cardinality(Later(times1, p))
        /\ Cardinality(Later(times1, p)) \in Nat /\ Cardinality(Later(times, p)) \in Nat
    BY <2>6, <2>7, CountPubs
  <2> QED BY <2>4, <2>8, StoreAssumption
<1> QED BY <1>15, <1>16

LEMMA CommitKeeps ==
    ASSUME StoreInv, NEW w \in Writers, Commit(w)
    PROVE  StoreInv'
<1> DEFINE s == save[w]
           table == Table(s)
<1>1. /\ s \in UploadType /\ Upload(w, s) /\ s.stage = "commit" /\ Typed
      /\ backend \in {"file", "database"}
      /\ s.pub \in Pubs /\ s.sum \in Sums /\ s.at \in Nat /\ w \in Publishing[backend]
      /\ table \in TableType /\ rows \in TableType
  BY CommitEffect
<1>2. /\ \A q \in Pubs : table[q] = IF q = s.pub THEN Row(s.sum, s.at) ELSE rows[q]
      /\ \A q \in Pubs : rows'[q] = IF q \in s.old THEN NoRow ELSE table[q]
      /\ accepted' = After(s)
      /\ \A q \in Pubs : accepted'[q] = IF q = s.pub /\ accepted[q] < s.at THEN s.at ELSE accepted[q]
  BY CommitEffect
<1>3. /\ save'[w] = IdleSave /\ \A v \in Writers : v # w => save'[v] = save[v]
      /\ UNCHANGED <<backend, pointer, now, saves, faults>>
  BY CommitEffect
<1>4. again' = IF accepted[s.pub] >= 0 THEN again \cup {s.pub} ELSE again BY DEF Commit
<1>5. accepted \in [Pubs -> Nat \cup {-1}] /\ s.old \in SUBSET Pubs BY <1>1 DEF Typed, UploadType
<1>6. Row(s.sum, s.at) \in [sum : Sums, at : Nat] /\ Row(s.sum, s.at) # NoRow
      /\ Row(s.sum, s.at).sum = s.sum /\ Row(s.sum, s.at).at = s.at /\ s.sum # Absent
  BY <1>1, StoreAssumption DEF Row, NoRow, Absent
<1>7. backend = "file" => payloads' = payloads BY DEF Commit
<1>8. backend = "database" =>
        \A q \in Pubs : payloads'[q] = IF q \in s.old THEN Absent
                                       ELSE IF q = s.pub THEN s.sum ELSE payloads[q]
  BY DEF Commit
<1>9. s.at <= now /\ now \in Nat
  BY <1>1, StoreAssumption DEF Upload, Typed
<1>10. Typed'
  <2>1. rows' \in [Pubs -> [sum : Sums, at : Nat] \cup {NoRow}]
    <3>1. rows' = [q \in Pubs |-> rows'[q]] BY DEF Commit
    <3> HIDE DEF s, table
    <3>2. \A q \in Pubs : rows'[q] \in [sum : Sums, at : Nat] \cup {NoRow}
      BY <1>1, <1>2 DEF TableType
    <3> QED BY <3>1, <3>2
  <2>2. payloads' \in [Pubs -> Sums \cup {Absent}]
    BY <1>1 DEF Typed, Commit
  <2>3. save' \in [Writers -> UploadType]
    BY <1>1, IdleUpload DEF Typed, Commit, Reply
  <2>4. accepted' \in [Pubs -> Nat \cup {-1}]
    BY <1>1, <1>5 DEF Typed, Commit
  <2>5. again' \subseteq Pubs BY <1>1, <1>4 DEF Typed
  <2> QED BY <1>1, <1>3, <2>1, <2>2, <2>3, <2>4, <2>5 DEF Typed
<1> HIDE DEF table
<1>11. \A v \in Writers : Upload(v, save[v])'
  <2>1. Upload(w, save[w])'
    BY <1>1, <1>3, <1>9 DEF Upload, Placed, Frozen, Doomed, Pruning, StagesOf, IdleSave
  <2>2. ASSUME OneWriter, NEW v \in Writers \ {w} PROVE Upload(v, save[v])'
    BY <2>2, <1>1, <1>3, OthersKeep
  <2>3. ASSUME ~OneWriter, NEW v \in Writers \ {w} PROVE Upload(v, save[v])'
    <3>1. backend = "database" BY <2>3, <1>1, FileHasOneWriter
    <3>2. Upload(v, save[v]) /\ save'[v] = save[v] BY <1>3 DEF StoreInv
    <3>3. Doomed(save[v])' BY CommitLeavesDoomed
    <3>4. Placed(save[v])'
      BY <3>1, <3>2, <1>3 DEF Upload, Placed, StagesOf
    <3>5. Frozen(save[v])' BY <2>3, <1>3 DEF Frozen, OneWriter
    <3> QED BY <3>2, <3>3, <3>4, <3>5, <1>3 DEF Upload
  <2> QED BY <2>1, <2>2, <2>3
<1>12. Disjoint'
  BY <1>3 DEF StoreInv, Disjoint, At, IdleSave
<1>13. Timed'
  <2>1. SUFFICES ASSUME NEW p \in Pubs
        PROVE  /\ rows'[p].at <= now /\ accepted'[p] <= now
               /\ rows'[p] # NoRow =>
                   /\ rows'[p].at <= accepted'[p]
                   /\ (OneWriter \/ p \notin again') => accepted'[p] = rows'[p].at
    BY <1>3 DEF Timed, OneWriter
  <2>2. /\ rows[p].at <= now /\ accepted[p] <= now
        /\ rows[p] # NoRow =>
            /\ rows[p].at <= accepted[p]
            /\ (OneWriter \/ p \notin again) => accepted[p] = rows[p].at
    BY DEF StoreInv, Timed
  <2>3. NoRow.at = 0 BY DEF NoRow, Row
  <2>4. CASE p \in s.old
    BY <2>2, <2>3, <2>4, <1>2, <1>5, <1>9
  <2>5. CASE p \notin s.old /\ p = s.pub
    <3>1. rows'[p] = Row(s.sum, s.at) BY <2>5, <1>2
    <3>2. OneWriter => accepted[p] <= s.at
      BY <1>1 DEF Upload, Frozen, Pruning
    <3>3. p \notin again' => accepted[p] < 0 BY <2>5, <1>4, <1>5
    <3> QED BY <3>1, <3>2, <3>3, <2>2, <2>5, <1>1, <1>2, <1>5, <1>6, <1>9
  <2>6. CASE p \notin s.old /\ p # s.pub
    <3>1. rows'[p] = rows[p] /\ accepted'[p] = accepted[p] BY <2>6, <1>2
    <3>2. p \notin again' => p \notin again BY <1>4
    <3> QED BY <3>1, <3>2, <2>2
  <2> QED BY <2>4, <2>5, <2>6
<1>14. Stored'
  <2>1. ASSUME backend = "database" PROVE payloads' = [p \in Pubs |-> rows'[p].sum]
    <3>1. payloads' = [p \in Pubs |-> payloads'[p]] BY <2>1 DEF Commit
    <3>2. \A p \in Pubs : payloads[p] = rows[p].sum BY <2>1 DEF StoreInv, Stored
    <3>3. NoRow.sum = Absent BY DEF NoRow, Row
    <3>4. \A p \in Pubs : payloads'[p] = rows'[p].sum
      BY <2>1, <3>2, <3>3, <1>2, <1>6, <1>8
    <3> QED BY <3>1, <3>4
  <2> QED BY <2>1, <1>1, <1>3 DEF Stored
<1>15. backend = "file" => /\ OneWriter /\ rows[s.pub] = NoRow /\ s.old = Excess(table)
                           /\ (s.pub \notin s.old => payloads[s.pub] = s.sum)
  BY <1>1, FileHasOneWriter DEF Upload, Placed, Frozen, Pruning, table
<1>16. Covered'
  <2>1. SUFFICES ASSUME backend = "file", NEW p \in Present(rows'), payloads[p] = Absent
                 PROVE  \E q \in Present(rows') : Newer(rows', q, p)
    BY <1>3, <1>7 DEF Covered, Present, Newer
  <2>2. p \in Pubs /\ rows'[p] # NoRow /\ p \notin s.old BY <1>2 DEF Present
  <2>3. p # s.pub BY <2>1, <2>2, <1>6, <1>15
  <2>4. rows'[p] = rows[p] /\ table[p] = rows[p] BY <2>2, <2>3, <1>2
  <2>5. PICK q \in Present(rows) : Newer(rows, q, p)
    BY <2>1, <2>2, <2>4 DEF StoreInv, Covered, Present
  <2>6. q \in Pubs /\ rows[q] # NoRow /\ q # s.pub BY <2>1, <2>5, <1>15 DEF Present
  <2>7. table[q] = rows[q] BY <2>6, <1>2
  <2>8. p \in Present(table) /\ Newer(table, q, p)
    BY <2>2, <2>4, <2>5, <2>7 DEF Present, Newer
  <2>9. q \notin s.old BY <2>1, <2>2, <2>8, <1>1, <1>15, ExcessIsTail
  <2>10. rows'[q] = rows[q] BY <2>6, <2>7, <2>9, <1>2
  <2>11. q \in Present(rows') /\ Newer(rows', q, p)
    BY <2>4, <2>5, <2>6, <2>10 DEF Present, Newer
  <2> QED BY <2>11
<1>17. PayloadMatchesAudit'
  <2>1. SUFFICES ASSUME NEW p \in Present(rows') PROVE payloads'[p] \in {rows'[p].sum, Absent}
    BY DEF PayloadMatchesAudit, Present
  <2>2. p \in Pubs /\ rows'[p] # NoRow /\ p \notin s.old BY <1>2 DEF Present
  <2>3. CASE backend = "database" BY <2>2, <2>3, <1>14, <1>3 DEF Stored
  <2>4. CASE backend = "file"
    <3>1. CASE p = s.pub BY <3>1, <2>2, <2>4, <1>2, <1>6, <1>7, <1>15
    <3>2. CASE p # s.pub
      <4>1. rows'[p] = rows[p] BY <3>2, <2>2, <1>2
      <4> QED BY <4>1, <2>2, <2>4, <1>7 DEF StoreInv, PayloadMatchesAudit, Present
    <3> QED BY <3>1, <3>2
  <2> QED BY <2>3, <2>4, <1>1
<1>18. NewestKept'
  <2>1. SUFFICES ASSUME NEW p \in Pubs, accepted'[p] >= 0, rows'[p] = NoRow, OneWriter \/ p \notin again'
                 PROVE  Cardinality(Later(accepted', p)) >= Keep
    BY <1>3 DEF NewestKept, OneWriter, Later
  <2>2. CASE p \in s.old
    <3>1. Judged(s, p) BY <2>1, <1>4, <1>5 DEF Judged
    <3> QED BY <3>1, <2>2, <1>1, <1>2 DEF Upload, Doomed, Pruning
  <2>3. CASE p \notin s.old
    <3>1. p # s.pub BY <2>1, <2>3, <1>2, <1>6
    <3>2. rows[p] = NoRow /\ accepted'[p] = accepted[p] /\ (OneWriter \/ p \notin again)
      BY <3>1, <2>1, <2>3, <1>2, <1>4
    <3>3. Cardinality(Later(accepted, p)) >= Keep
      BY <3>2, <2>1 DEF StoreInv, NewestKept
    <3>4. Later(accepted, p) \subseteq Later(accepted', p)
      <4> SUFFICES ASSUME NEW q \in Later(accepted, p) PROVE q \in Later(accepted', p) OBVIOUS
      <4>1. q \in Pubs /\ (accepted[q] > accepted[p] \/ (accepted[q] = accepted[p] /\ q > p))
        BY DEF Later
      <4>2. accepted[q] <= accepted'[q] /\ accepted[q] \in Int /\ accepted'[q] \in Int /\ accepted[p] \in Int
        BY <4>1, <1>1, <1>2, <1>5
      <4> QED BY <4>1, <4>2, <3>2 DEF Later
    <3>5. Later(accepted, p) \in SUBSET Pubs /\ Later(accepted', p) \in SUBSET Pubs BY DEF Later
    <3>6. Cardinality(Later(accepted, p)) <= Cardinality(Later(accepted', p))
          /\ Cardinality(Later(accepted', p)) \in Nat /\ Cardinality(Later(accepted, p)) \in Nat
      BY <3>4, <3>5, CountPubs
    <3> QED BY <3>3, <3>6, StoreAssumption
  <2> QED BY <2>2, <2>3
<1> QED BY <1>10, <1>11, <1>12, <1>13, <1>14, <1>16, <1>17, <1>18 DEF StoreInv

\* The steps of publish_snapshot.
LEMMA ObjectKeeps ==
    ASSUME StoreInv, NEW w \in Writers, ObjectPut(w) \/ ObjectPoint(w) \/ ObjectAudit(w)
    PROVE  StoreInv'
<1> DEFINE s == save[w]
           p == s.pub
<1>0. s \in UploadType /\ Upload(w, s) /\ s.stage \in {"put", "point", "audit"} /\ Typed
  BY DEF StoreInv, Typed, ObjectPut, ObjectPoint, ObjectAudit, At
<1>1. backend = "object" /\ p \in Pubs /\ s.sum \in Sums /\ w \in Publishing[backend]
  BY <1>0, StoreAssumption DEF Upload, StagesOf, Typed
<1>2. UNCHANGED <<backend, now, again, saves, faults>> BY DEF ObjectPut, ObjectPoint, ObjectAudit
<1>3. s.sum # Absent /\ s.at \in Nat /\ p \in 0..NumPubs /\ p # 0
  BY <1>0, <1>1, StoreAssumption DEF Absent, UploadType, Pubs
<1>4. \A q \in Pubs : IF rows[q] = NoRow THEN accepted[q] = -1 ELSE payloads[q] = rows[q].sum
  BY <1>1 DEF StoreInv, Stored
<1>5. ASSUME NEW stage \in {"point", "audit", "reset"}
      PROVE  [s EXCEPT !.stage = stage] \in UploadType
             /\ [s EXCEPT !.stage = stage].stage = stage
             /\ [s EXCEPT !.stage = stage].pub = p
             /\ [s EXCEPT !.stage = stage].sum = s.sum
             /\ [s EXCEPT !.stage = stage].at = s.at
             /\ stage \in StagesOf(backend)
  BY <1>0, <1>1 DEF UploadType, Stages, StagesOf
<1>6. CASE ObjectPut(w)
  <2>1. CASE payloads[p] \in {Absent, s.sum}
    <3> DEFINE s1 == [s EXCEPT !.stage = "point"]
    <3>1. save' = [save EXCEPT ![w] = s1] /\ payloads' = [payloads EXCEPT ![p] = s.sum]
      BY <1>6, <2>1 DEF ObjectPut, Goto
    <3>2. s1 \in UploadType /\ s1.stage = "point" /\ s1.pub = p /\ s1.sum = s.sum /\ s1.at = s.at
      BY <1>5
    <3> HIDE DEF s1
    <3>3. save'[w] = s1 /\ \A v \in Writers : v # w => save'[v] = save[v] BY <1>0, <3>1 DEF Typed
    <3>4. \A q \in Pubs : payloads'[q] = IF q = p THEN s.sum ELSE payloads[q]
      BY <1>0, <3>1 DEF Typed
    <3>5. \A q \in Pubs : payloads[q] # Absent => payloads'[q] = payloads[q]
      BY <2>1, <3>4
    <3>6. UNCHANGED <<rows, pointer, accepted>> BY <1>6 DEF ObjectPut
    <3>7. Typed' BY <1>0, <1>1, <1>2, <3>1, <3>2, <3>6 DEF Typed
    <3>8. \A v \in Writers : Upload(v, save[v])'
      <4> SUFFICES ASSUME NEW v \in Writers PROVE Upload(v, save[v])' OBVIOUS
      <4>1. CASE v = w
        <5>1. Placed(save[v])' BY <4>1, <3>2, <3>3, <3>4, <1>1, <1>2 DEF Placed
        <5>2. Frozen(save[v])' /\ Doomed(save[v])'
          BY <4>1, <3>2, <3>3, <1>1, <1>2 DEF Frozen, Doomed, Pruning
        <5> QED BY <4>1, <5>1, <5>2, <3>2, <3>3, <1>0, <1>1, <1>2 DEF Upload, StagesOf
      <4>2. CASE v # w
        <5>1. Upload(v, save[v]) /\ save'[v] = save[v] BY <4>2, <3>3 DEF StoreInv
        <5>2. Placed(save[v])'
          <6>1. SUFFICES ASSUME save[v].stage \in {"point", "audit"}
                         PROVE  payloads'[save[v].pub] = save[v].sum
            BY <5>1, <1>1, <1>2 DEF Placed
          <6>2. save[v].pub \in Pubs /\ save[v].sum \in Sums /\ payloads[save[v].pub] = save[v].sum
            BY <5>1, <6>1 DEF Upload, Placed
          <6>3. save[v].sum # Absent BY <6>2, StoreAssumption DEF Absent
          <6> QED BY <6>2, <6>3, <3>5
        <5>3. Frozen(save[v])' /\ Doomed(save[v])'
          BY <5>1, <1>1, <1>2 DEF Upload, Frozen, Doomed, Pruning, StagesOf
        <5> QED BY <5>1, <5>2, <5>3, <1>2 DEF Upload
      <4> QED BY <4>1, <4>2
    <3>9. Disjoint' BY <3>2, <3>3 DEF StoreInv, Disjoint, At
    <3>10. Timed' /\ NewestKept'
      BY <1>2, <3>6 DEF StoreInv, Timed, NewestKept, OneWriter, Later
    <3>11. \A q \in Pubs : rows[q] # NoRow => payloads'[q] = rows[q].sum
      <4> SUFFICES ASSUME NEW q \in Pubs, rows[q] # NoRow PROVE payloads'[q] = rows[q].sum OBVIOUS
      <4>1. payloads[q] = rows[q].sum /\ rows[q].sum \in Sums BY <1>0, <1>4 DEF Typed
      <4>2. payloads[q] # Absent BY <4>1, StoreAssumption DEF Absent
      <4> QED BY <4>1, <4>2, <3>5
    <3>12. pointer # 0 => payloads'[pointer] # Absent
      <4>1. pointer # 0 => pointer \in Pubs BY <1>0, StoreAssumption DEF Typed, Pubs
      <4> QED BY <4>1, <3>5, <1>1 DEF StoreInv, Stored
    <3>13. Stored' BY <1>1, <1>2, <1>4, <3>6, <3>11, <3>12 DEF StoreInv, Stored
    <3>14. Covered' /\ PayloadMatchesAudit'
      BY <1>1, <1>2, <3>6, <3>11 DEF Covered, PayloadMatchesAudit, Present
    <3> QED BY <3>7, <3>8, <3>9, <3>10, <3>13, <3>14 DEF StoreInv
  <2>2. CASE payloads[p] \notin {Absent, s.sum}
    <3>1. Reply(w) /\ UNCHANGED <<rows, payloads, pointer, accepted>> BY <1>6, <2>2 DEF ObjectPut
    <3> QED BY <3>1, <1>2, ReplyKeeps DEF store, StoreInv, Typed
  <2> QED BY <2>1, <2>2
<1>7. CASE ObjectPoint(w)
  <2> DEFINE s1 == [s EXCEPT !.stage = "audit"]
  <2>1. save' = [save EXCEPT ![w] = s1] /\ pointer' = p /\ UNCHANGED <<rows, payloads, accepted>>
        /\ s.stage = "point"
    BY <1>7 DEF ObjectPoint, Goto, At
  <2>2. s1 \in UploadType /\ s1.stage = "audit" /\ s1.pub = p /\ s1.sum = s.sum /\ s1.at = s.at
    BY <1>5
  <2> HIDE DEF s1
  <2>3. save'[w] = s1 /\ \A v \in Writers : v # w => save'[v] = save[v] BY <1>0, <2>1 DEF Typed
  <2>4. payloads[p] = s.sum BY <1>0, <2>1 DEF Upload, Placed
  <2>5. Typed' BY <1>0, <1>2, <1>3, <2>1, <2>2 DEF Typed
  <2>6. \A v \in Writers : Upload(v, save[v])'
    <3> SUFFICES ASSUME NEW v \in Writers PROVE Upload(v, save[v])' OBVIOUS
    <3>1. CASE v = w
      <4>1. Placed(save[v])' BY <3>1, <2>1, <2>2, <2>3, <2>4, <1>1, <1>2 DEF Placed
      <4>2. Frozen(save[v])' /\ Doomed(save[v])'
        BY <3>1, <2>2, <2>3, <1>1, <1>2 DEF Frozen, Doomed, Pruning
      <4> QED BY <3>1, <4>1, <4>2, <2>2, <2>3, <1>0, <1>1, <1>2 DEF Upload, StagesOf
    <3>2. CASE v # w
      <4>1. Upload(v, save[v]) /\ save'[v] = save[v] BY <3>2, <2>3 DEF StoreInv
      <4>2. Frozen(save[v])' /\ Doomed(save[v])'
        BY <4>1, <1>1, <1>2 DEF Upload, Frozen, Doomed, Pruning, StagesOf
      <4> QED BY <4>1, <4>2, <2>1, <1>2 DEF Upload, Placed
    <3> QED BY <3>1, <3>2
  <2>7. Disjoint' BY <2>2, <2>3 DEF StoreInv, Disjoint, At
  <2>8. Timed' /\ NewestKept' /\ Covered' /\ PayloadMatchesAudit'
    BY <1>2, <2>1
    DEF StoreInv, Timed, NewestKept, OneWriter, Later, Covered, PayloadMatchesAudit, Present, Newer
  <2>9. Stored' BY <1>1, <1>2, <1>3, <2>1, <2>4 DEF StoreInv, Stored
  <2> QED BY <2>5, <2>6, <2>7, <2>8, <2>9 DEF StoreInv
<1>8. CASE ObjectAudit(w)
  <2>1. CASE rows[p] # NoRow
    <3>1. Reply(w) /\ UNCHANGED <<rows, payloads, pointer, accepted>> BY <1>8, <2>1 DEF ObjectAudit
    <3> QED BY <3>1, <1>2, ReplyKeeps DEF store, StoreInv, Typed
  <2>2. CASE rows[p] = NoRow
    <3> DEFINE s1 == IF w = Pipeline THEN IdleSave ELSE [s EXCEPT !.stage = "reset"]
    <3>1. /\ save' = [save EXCEPT ![w] = s1] /\ UNCHANGED <<payloads, pointer>>
          /\ rows' = [rows EXCEPT ![p] = Row(s.sum, s.at)] /\ accepted' = [accepted EXCEPT ![p] = s.at]
          /\ s.stage = "audit"
      BY <1>8, <2>2 DEF ObjectAudit, Goto, Reply, At, Mine
    <3>2. /\ s1 \in UploadType /\ s1.stage \in {"idle", "reset"} /\ s1.at <= now
          /\ s1.stage # "idle" => s1.pub = p /\ s1.sum = s.sum
      BY <1>0, <1>5, IdleUpload DEF IdleSave, Upload
    <3> HIDE DEF s1
    <3>3. save'[w] = s1 /\ \A v \in Writers : v # w => save'[v] = save[v] BY <1>0, <3>1 DEF Typed
    <3>4. /\ \A q \in Pubs : rows'[q] = IF q = p THEN Row(s.sum, s.at) ELSE rows[q]
          /\ \A q \in Pubs : accepted'[q] = IF q = p THEN s.at ELSE accepted[q]
      BY <1>0, <3>1 DEF Typed
    <3>5. /\ Row(s.sum, s.at) \in [sum : Sums, at : Nat] /\ Row(s.sum, s.at) # NoRow
          /\ Row(s.sum, s.at).sum = s.sum /\ Row(s.sum, s.at).at = s.at
      BY <1>1, <1>3 DEF Row, NoRow
    <3>6. payloads[p] = s.sum BY <1>0, <3>1 DEF Upload, Placed
    <3>7. Typed' BY <1>0, <1>2, <1>3, <3>1, <3>2, <3>5 DEF Typed
    <3>8. \A v \in Writers : Upload(v, save[v])'
      <4> SUFFICES ASSUME NEW v \in Writers PROVE Upload(v, save[v])' OBVIOUS
      <4>1. CASE v = w
        BY <4>1, <3>2, <3>3, <1>1, <1>2 DEF Upload, Placed, Frozen, Doomed, Pruning, StagesOf
      <4>2. CASE v # w
        <5>1. Upload(v, save[v]) /\ save'[v] = save[v] BY <4>2, <3>3 DEF StoreInv
        <5>2. Frozen(save[v])' /\ Doomed(save[v])'
          BY <5>1, <1>1, <1>2 DEF Upload, Frozen, Doomed, Pruning, StagesOf
        <5>3. Placed(save[v])'
          BY <5>1, <3>1, <1>1, <1>2 DEF Upload, Placed
        <5> QED BY <5>1, <5>2, <5>3, <1>2 DEF Upload
      <4> QED BY <4>1, <4>2
    <3>9. Disjoint' BY <3>2, <3>3 DEF StoreInv, Disjoint, At
    <3>10. Timed'
      <4> SUFFICES ASSUME NEW q \in Pubs
          PROVE  /\ rows'[q].at <= now /\ accepted'[q] <= now
                 /\ rows'[q] # NoRow =>
                     /\ rows'[q].at <= accepted'[q]
                     /\ (OneWriter \/ q \notin again) => accepted'[q] = rows'[q].at
        BY <1>2 DEF Timed, OneWriter
      <4>1. CASE q = p BY <4>1, <3>4, <3>5, <1>0, <1>3 DEF Upload
      <4>2. CASE q # p BY <4>2, <3>4 DEF StoreInv, Timed
      <4> QED BY <4>1, <4>2
    <3>11. \A q \in Pubs : IF rows'[q] = NoRow THEN accepted'[q] = -1 ELSE payloads[q] = rows'[q].sum
      BY <1>4, <3>4, <3>5, <3>6
    <3>12. Stored' BY <1>1, <1>2, <3>1, <3>11 DEF StoreInv, Stored
    <3>13. Covered' /\ PayloadMatchesAudit'
      BY <1>1, <1>2, <3>1, <3>11 DEF Covered, PayloadMatchesAudit, Present
    <3>14. NewestKept' BY <3>11, <3>7 DEF NewestKept
    <3> QED BY <3>7, <3>8, <3>9, <3>10, <3>12, <3>13, <3>14 DEF StoreInv
  <2> QED BY <2>1, <2>2
<1> QED BY <1>6, <1>7, <1>8

LEMMA TickKeeps ==
    ASSUME StoreInv, Tick
    PROVE  StoreInv'
<1>1. now' = now + 1 /\ now' \in 0..MaxTime /\ now \in Nat
  BY StoreAssumption DEF StoreInv, Typed, Tick
<1>2. UNCHANGED <<backend, rows, payloads, pointer, save, accepted, again, saves, faults>>
  BY DEF Tick, store
<1>3. Typed' BY <1>1, <1>2 DEF StoreInv, Typed
<1>4. \A w \in Writers : Upload(w, save[w])'
  <2> SUFFICES ASSUME NEW w \in Writers PROVE Upload(w, save[w])' OBVIOUS
  <2>1. Upload(w, save[w]) /\ save[w].at \in Nat BY DEF StoreInv, Typed, UploadType
  <2>2. save[w].at <= now' BY <2>1, <1>1 DEF Upload
  <2>3. Placed(save[w])' /\ Frozen(save[w])' /\ Doomed(save[w])'
    BY <2>1, <1>2
    DEF Upload, Placed, Frozen, Doomed, Judged, Pruning, After, Later, Table, Excess, Present,
        Rank, Newer, OneWriter
  <2> QED BY <2>1, <2>2, <2>3, <1>2 DEF Upload
<1>5. Timed'
  <2> SUFFICES ASSUME NEW p \in Pubs PROVE rows[p].at <= now' /\ accepted[p] <= now'
    BY <1>2 DEF StoreInv, Timed, OneWriter
  <2>1. rows[p].at <= now /\ accepted[p] <= now BY DEF StoreInv, Timed
  <2>2. rows[p].at \in Nat /\ accepted[p] \in Int BY DEF StoreInv, Typed, NoRow, Row
  <2> QED BY <1>1, <2>1, <2>2
<1>6. Stored' /\ Covered' /\ Disjoint' /\ PayloadMatchesAudit' /\ NewestKept'
  BY <1>2
  DEF StoreInv, Stored, Covered, Disjoint, At, PayloadMatchesAudit, NewestKept, OneWriter, Present, Newer, Later
<1> QED BY <1>3, <1>4, <1>5, <1>6 DEF StoreInv

-----------------------------------------------------------------------------
(* Every step of the store *)

LEMMA StoreInitial == Init => StoreInv
<1> SUFFICES ASSUME Init PROVE StoreInv OBVIOUS
<1>1. Typed
  <2>1. IdleSave \in UploadType BY StoreAssumption DEF IdleSave, UploadType, Stages
  <2>2. MaxSaves[backend] \in Nat BY StoreAssumption DEF Init
  <2> QED BY <2>1, <2>2, StoreAssumption DEF Init, Typed, Pubs
<1>2. \A w \in Writers : Upload(w, save[w])
  <2> SUFFICES ASSUME NEW w \in Writers PROVE Upload(w, save[w]) OBVIOUS
  <2>1. save[w] = IdleSave BY DEF Init
  <2> QED BY <1>1, <2>1, IdleUpload
<1>3. Present(rows) = {} /\ \A p \in Pubs : rows[p] = NoRow /\ accepted[p] = -1 BY DEF Init, Present
<1>4. Timed BY <1>3 DEF Timed, Init, NoRow, Row
<1>5. Stored BY <1>3 DEF Stored, Init, NoRow, Row
<1>6. Covered /\ PayloadMatchesAudit /\ NewestKept
  BY <1>3 DEF Covered, PayloadMatchesAudit, NewestKept
<1>7. Disjoint BY DEF Disjoint, Init, At, IdleSave
<1> QED BY <1>1, <1>2, <1>4, <1>5, <1>6, <1>7 DEF StoreInv

LEMMA StoreStep ==
    ASSUME StoreInv, Step
    PROVE  StoreInv'
<1>1. ASSUME NEW w \in Writers, Save(w) PROVE StoreInv'
  <2>1. CASE \E u \in Uploads : Receive(w, u[1], u[2]) BY <2>1, ReceiveKeeps
  <2>2. CASE Look(w) BY <2>2, LookKeeps
  <2>3. CASE FileWrite(w) BY <2>3, FileWriteKeeps
  <2>4. CASE Insert(w) BY <2>4, InsertKeeps
  <2>5. CASE Compare(w)
    BY <2>5, ReplyKeeps DEF Compare, StoreInv, Typed
  <2>6. CASE Unlink(w) BY <2>6, UnlinkKeeps
  <2>7. CASE Commit(w) BY <2>7, CommitKeeps
  <2>8. CASE ObjectPut(w) \/ ObjectPoint(w) \/ ObjectAudit(w) BY <2>8, ObjectKeeps
  <2>9. CASE ResetCache(w)
    BY <2>9, ReplyKeeps DEF ResetCache, StoreInv, Typed
  <2> QED BY <1>1, <2>1, <2>2, <2>3, <2>4, <2>5, <2>6, <2>7, <2>8, <2>9 DEF Save
<1>2. ASSUME NEW w \in Writers, Crash(w) PROVE StoreInv'
  <2>1. faults' \in 0..MaxFaults BY <1>2, StoreAssumption DEF Crash, StoreInv, Typed
  <2>2. Reply(w) /\ saves' = saves /\ UNCHANGED <<backend, store, now, accepted, again>>
    BY <1>2 DEF Crash
  <2> QED BY <2>1, <2>2, ReplyKeeps
<1>3. ASSUME NEW r \in Readers, Read(r) PROVE StoreInv'
  <2>1. UNCHANGED <<backend, store, now, save, accepted, again, saves, faults>>
    BY <1>3
    DEF Read, ReadStart, ReadDatabase, ReadRow, ReadFile, ReadCache, ReadPointer, KeepInCache
  <2> QED
    BY <2>1
    DEF store, StoreInv, Typed, Upload, Placed, Frozen, Doomed, Judged, Pruning, After, Later, Table,
        Excess, Present, Rank, Newer, OneWriter, Timed, Stored, Covered, Disjoint, At,
        PayloadMatchesAudit, NewestKept
<1>4. CASE Tick BY <1>4, TickKeeps
<1> QED BY <1>1, <1>2, <1>3, <1>4 DEF Step

LEMMA StoreStutter ==
    ASSUME StoreInv, UNCHANGED vars
    PROVE  StoreInv'
<1>1. UNCHANGED <<backend, rows, payloads, pointer, now, save, accepted, again, saves, faults>>
  BY DEF vars
<1> QED
  BY <1>1
  DEF StoreInv, Typed, Upload, Placed, Frozen, Doomed, Judged, Pruning, After, Later, Table,
      Excess, Present, Rank, Newer, OneWriter, Timed, Stored, Covered, Disjoint, At,
      PayloadMatchesAudit, NewestKept

\* The newest row is one, and its payload is there.
LEMMA NewestIsThere ==
    ASSUME StoreInv
    PROVE  /\ Present(rows) # {} => /\ NewestRow \in Pubs /\ rows[NewestRow] # NoRow
                                    /\ rows[NewestRow].sum \in Sums
                                    /\ Rank(rows, NewestRow) = 0
           /\ NewestReadable
           /\ Latest \in Answers
<1>0. rows \in TableType /\ payloads \in [Pubs -> Sums \cup {Absent}]
      /\ backend \in {"file", "database", "object"} /\ pointer \in 0..NumPubs
  BY StoreAssumption DEF StoreInv, Typed, TableType
<1>1. ASSUME Present(rows) # {}
      PROVE  /\ NewestRow \in Pubs /\ rows[NewestRow] # NoRow /\ rows[NewestRow].sum \in Sums
             /\ NewestRow \in Present(rows) /\ Rank(rows, NewestRow) = 0
  <2>1. NewestRow \in Present(rows) /\ Rank(rows, NewestRow) = 0
    BY <1>0, <1>1, NewestExists DEF NewestRow
  <2> QED BY <2>1, <1>0 DEF Present, TableType
<1>2. ASSUME backend = "file", Present(rows) # {} PROVE payloads[NewestRow] # Absent
  <2>1. \A q \in Present(rows) : ~Newer(rows, q, NewestRow) BY <1>0, <1>1, <1>2, RankZero
  <2> QED BY <2>1, <1>1, <1>2 DEF StoreInv, Covered
<1>3. ASSUME backend = "database", Present(rows) # {} PROVE payloads[NewestRow] # Absent
  <2>1. payloads[NewestRow] = rows[NewestRow].sum BY <1>1, <1>3 DEF StoreInv, Stored
  <2> QED BY <2>1, <1>1, <1>3, StoreAssumption DEF Absent
<1>4. NewestReadable
  BY <1>0, <1>2, <1>3 DEF NewestReadable, StoreInv, Stored
<1>5. Latest \in Answers
  <2>1. CASE backend = "object" /\ pointer # 0
    <3>1. pointer \in Pubs BY <1>0, <2>1, StoreAssumption DEF Pubs
    <3>2. payloads[pointer] \in Sums BY <2>1, <3>1, <1>0 DEF StoreInv, Stored
    <3>3. Latest = <<pointer, payloads[pointer]>> BY <2>1 DEF Latest
    <3> QED BY <3>1, <3>2, <3>3 DEF Answers
  <2>2. CASE backend # "object" /\ Present(rows) # {}
    <3>1. Latest = <<NewestRow, rows[NewestRow].sum>> BY <2>2 DEF Latest
    <3> QED BY <3>1, <2>2, <1>1 DEF Answers
  <2>3. CASE ~(backend = "object" /\ pointer # 0) /\ ~(backend # "object" /\ Present(rows) # {})
    BY <2>3 DEF Latest, Answers
  <2> QED BY <2>1, <2>2, <2>3
<1> QED BY <1>1, <1>4, <1>5

LEMMA LatestTyped == StoreInv => Latest \in Answers
BY NewestIsThere

LEMMA LatestTypedNext == StoreInv' => (Latest \in Answers)'
BY LatestTyped, PTL

-----------------------------------------------------------------------------
(* Readers, caches and the log *)

LEMMA OldestIsCurrent ==
    ASSUME ReadsTyped, NEW t \in Int
    PROVE  /\ Promise!Current(t) \subseteq 1..Len(log) /\ Len(log) \in Promise!Current(t)
           /\ Promise!Oldest(t) \in Promise!Current(t)
           /\ \A i \in Promise!Current(t) : Promise!Oldest(t) <= i
<1> DEFINE C == Promise!Current(t)
<1>1. Len(log) \in Nat \ {0} /\ DOMAIN log = 1..Len(log) BY DEF ReadsTyped
<1>2. C \subseteq 1..Len(log) /\ Len(log) \in C BY <1>1 DEF Promise!Current
<1>3. C \in SUBSET Nat /\ C # {} BY <1>1, <1>2
<1> HIDE DEF C
<1>4. \E i \in C : \A j \in C : i <= j BY <1>3, LeastNatural
<1> USE DEF C
<1>5. Promise!Oldest(t) = CHOOSE i \in C : \A j \in C : i <= j BY DEF Promise!Oldest
<1> HIDE DEF C
<1>6. Promise!Oldest(t) \in C /\ \A i \in C : Promise!Oldest(t) <= i BY <1>4, <1>5
<1> QED BY <1>2, <1>6 DEF C

ReadType ==
    [stage : {"idle", "look", "file", "pointer", "keep"}, from : 0..MaxTime, since : Nat, value : Answers]

\* What a step of a reader makes of its read.
LEMMA ReadEffect ==
    ASSUME StoreInv, ReadsTyped, NEW r \in Readers, Read(r)
    PROVE  \E x \in ReadType :
             /\ read' = [read EXCEPT ![r] = x]
             /\ x.stage = "file" => x.value # Nothing
<1>1. read[r] \in ReadType /\ now \in 0..MaxTime /\ Home[r] \in Servers
  BY StoreAssumption DEF ReadsTyped, ReadType, StoreInv, Typed
<1>2. Nothing \in Answers /\ Latest \in Answers BY NewestIsThere DEF Answers
<1>3. ASSUME NEW v \in Answers
      PROVE  [IdleRead EXCEPT !.value = v] \in ReadType /\ [IdleRead EXCEPT !.value = v].stage = "idle"
  BY <1>2, StoreAssumption DEF IdleRead, ReadType
<1>4. ASSUME NEW v \in Answers, Answer(r, v)
      PROVE  \E x \in ReadType :
               /\ read' = [read EXCEPT ![r] = x]
               /\ x.stage = "file" => x.value # Nothing
  BY <1>3, <1>4 DEF Answer
<1>5. CASE ReadStart(r)
  <2> DEFINE x == [IdleRead EXCEPT !.stage = "look", !.from = now, !.since = Promise!Oldest(now - Window)]
  <2>1. now - Window \in Int BY <1>1, StoreAssumption DEF Window
  <2>2. Promise!Oldest(now - Window) \in Nat BY <2>1, OldestIsCurrent
  <2>3. x \in ReadType /\ x.stage = "look" BY <1>1, <1>2, <2>2 DEF IdleRead, ReadType
  <2>4. read' = [read EXCEPT ![r] = x] BY <1>5 DEF ReadStart
  <2> HIDE DEF x
  <2> QED BY <2>3, <2>4
<1>6. CASE ReadDatabase(r) BY <1>2, <1>4, <1>6 DEF ReadDatabase
<1>7. CASE ReadRow(r)
  <2>1. CASE Latest = Nothing BY <1>2, <1>4, <1>7, <2>1 DEF ReadRow
  <2>2. CASE Latest # Nothing
    <3> DEFINE x == [read[r] EXCEPT !.stage = "file", !.value = Latest]
    <3>1. x \in ReadType /\ x.value = Latest BY <1>1, <1>2 DEF ReadType
    <3>2. read' = [read EXCEPT ![r] = x] BY <1>7, <2>2 DEF ReadRow
    <3> HIDE DEF x
    <3> QED BY <3>1, <3>2, <2>2
  <2> QED BY <2>1, <2>2
<1>8. CASE ReadFile(r)
  <2>1. read[r].value \in Pubs \X Sums BY <1>1, <1>8 DEF ReadFile, ReadsTyped, ReadType, Answers
  <2>2. read[r].value[1] \in Pubs BY <2>1
  <2>3. payloads[read[r].value[1]] \in Sums \cup {Absent} BY <2>2 DEF StoreInv, Typed
  <2>4. payloads[read[r].value[1]] # Absent =>
          <<read[r].value[1], payloads[read[r].value[1]]>> \in Answers
    BY <2>2, <2>3 DEF Answers
  <2> QED BY <1>2, <1>4, <1>8, <2>4 DEF ReadFile
<1>9. CASE ReadCache(r)
  <2>1. cache[Home[r]].value \in Answers BY <1>1 DEF ReadsTyped
  <2> DEFINE x == [read[r] EXCEPT !.stage = "pointer"]
  <2>2. x \in ReadType /\ x.stage = "pointer" BY <1>1 DEF ReadType
  <2>3. CASE cache[Home[r]].until >= read[r].from BY <1>4, <1>9, <2>1, <2>3 DEF ReadCache
  <2>4. CASE ~(cache[Home[r]].until >= read[r].from)
    <3>1. read' = [read EXCEPT ![r] = x] BY <1>9, <2>4 DEF ReadCache, ReadFrom
    <3> HIDE DEF x
    <3> QED BY <2>2, <3>1
  <2> QED BY <2>3, <2>4
<1>10. CASE ReadPointer(r)
  <2> DEFINE x == [read[r] EXCEPT !.stage = "keep", !.value = Latest]
  <2>1. x \in ReadType /\ x.stage = "keep" BY <1>1, <1>2 DEF ReadType
  <2>2. read' = [read EXCEPT ![r] = x] BY <1>10 DEF ReadPointer
  <2> HIDE DEF x
  <2> QED BY <2>1, <2>2
<1>11. CASE KeepInCache(r)
  <2>1. read[r].value \in Answers BY <1>1 DEF ReadType
  <2> QED BY <1>4, <1>11, <2>1 DEF KeepInCache
<1> QED BY <1>5, <1>6, <1>7, <1>8, <1>9, <1>10, <1>11 DEF Read

\* Every step keeps the log or appends what is the latest after it.
LEMMA LogEffect ==
    ASSUME StoreInv, StoreInv', ReadsTyped, Next
    PROVE  LET entry == [value |-> Latest', at |-> now] IN
           /\ Latest' \in Answers /\ now \in Nat /\ entry \in [value : Answers, at : Nat]
           /\ log' = IF Latest' = Latest THEN log ELSE Append(log, entry)
           /\ log' \in Seq([value : Answers, at : Nat]) /\ log' # <<>>
<1>1. Latest' \in Answers
  <2>1. (Latest \in Answers)' BY LatestTypedNext
  <2> QED BY <2>1 DEF Answers
<1>2. now \in Nat BY StoreAssumption DEF StoreInv, Typed
<1> DEFINE entry == [value |-> Latest', at |-> now]
<1>3. entry \in [value : Answers, at : Nat] BY <1>1, <1>2
<1>4. log' = IF Latest' = Latest THEN log ELSE Append(log, entry) BY DEF Next
<1> HIDE DEF entry
<1>5. log' \in Seq([value : Answers, at : Nat]) /\ log' # <<>>
  <2> DEFINE Entries == [value : Answers, at : Nat]
  <2>1. log \in Seq(Entries) /\ log # <<>> /\ entry \in Entries BY <1>3 DEF ReadsTyped
  <2> HIDE DEF Entries
  <2>2. Append(log, entry) \in Seq(Entries) /\ Append(log, entry) # <<>>
    BY <2>1, AppendProperties
  <2> QED BY <1>4, <2>1, <2>2 DEF Entries
<1> QED BY <1>1, <1>2, <1>3, <1>4, <1>5 DEF entry

LEMMA ReadsStep ==
    ASSUME StoreInv, StoreInv', ReadsTyped, Next
    PROVE  ReadsTyped'
<1>1. log' \in Seq([value : Answers, at : Nat]) /\ log' # <<>> BY LogEffect
<1>2. NoCache \in [value : Answers, until : -1..(MaxTime + Ttl)]
      /\ IdleRead \in ReadType /\ IdleRead.stage = "idle" /\ now \in 0..MaxTime
  BY StoreAssumption DEF NoCache, Answers, IdleRead, ReadType, StoreInv, Typed
<1>3. read \in [Readers -> ReadType] BY DEF ReadsTyped, ReadType
<1>4. SUFFICES /\ read' \in [Readers -> ReadType]
               /\ cache' \in [Servers -> [value : Answers, until : -1..(MaxTime + Ttl)]]
               /\ \A r \in Readers : read'[r].stage = "file" => read'[r].value # Nothing
  BY <1>1 DEF ReadsTyped, ReadType, Answers
<1>5. ASSUME NEW w \in Writers, Save(w)
      PROVE  read' = read /\ (cache' = cache \/ cache' = [cache EXCEPT ![w] = NoCache])
  BY <1>5
  DEF Save, Receive, Look, FileWrite, Insert, Compare, Unlink, Commit, ObjectPut, ObjectPoint,
      ObjectAudit, ResetCache
<1>6. CASE \E w \in Writers : Save(w)
  <2>1. PICK w \in Writers : Save(w) BY <1>6
  <2>2. read' = read /\ (cache' = cache \/ cache' = [cache EXCEPT ![w] = NoCache])
    BY <1>5, <2>1
  <2>3. cache' \in [Servers -> [value : Answers, until : -1..(MaxTime + Ttl)]]
    BY <1>2, <2>2 DEF ReadsTyped
  <2> QED BY <1>3, <2>2, <2>3 DEF ReadsTyped
<1>7. CASE \E w \in Writers : Crash(w)
  <2>1. PICK w \in Writers : Crash(w) BY <1>7
  <2>2. /\ read' = [r \in Readers |-> IF Home[r] = w THEN IdleRead ELSE read[r]]
        /\ cache' = [s \in Servers |-> IF s = w THEN NoCache ELSE cache[s]]
    BY <2>1 DEF Crash
  <2>3. \A r \in Readers : read[r] \in ReadType /\ (read[r].stage = "file" => read[r].value # Nothing)
    BY <1>3 DEF ReadsTyped
  <2>4. \A s \in Servers : cache[s] \in [value : Answers, until : -1..(MaxTime + Ttl)]
    BY DEF ReadsTyped
  <2>5. \A r \in Readers : read'[r] \in ReadType /\ (read'[r].stage = "file" => read'[r].value # Nothing)
    BY <1>2, <2>2, <2>3
  <2>6. read' \in [Readers -> ReadType] BY <2>2, <2>5
  <2>7. cache' \in [Servers -> [value : Answers, until : -1..(MaxTime + Ttl)]]
    BY <1>2, <2>2, <2>4
  <2> QED BY <2>5, <2>6, <2>7
<1>8. CASE \E r \in Readers : Read(r)
  <2>1. PICK r \in Readers : Read(r) BY <1>8
  <2>2. PICK x \in ReadType : /\ read' = [read EXCEPT ![r] = x]
                              /\ x.stage = "file" => x.value # Nothing
    BY <2>1, ReadEffect
  <2>3. \/ cache' = cache
        \/ cache' = [cache EXCEPT ![Home[r]] = [value |-> read[r].value, until |-> read[r].from + Ttl]]
    BY <2>1
    DEF Read, ReadStart, ReadDatabase, ReadRow, ReadFile, ReadCache, ReadPointer, KeepInCache
  <2>4. [value |-> read[r].value, until |-> read[r].from + Ttl] \in [value : Answers, until : -1..(MaxTime + Ttl)]
    BY <1>3, StoreAssumption DEF ReadType
  <2>5. cache' \in [Servers -> [value : Answers, until : -1..(MaxTime + Ttl)]]
    BY <2>3, <2>4 DEF ReadsTyped
  <2>6. read' \in [Readers -> ReadType] BY <1>3, <2>2
  <2>7. \A q \in Readers : read'[q].stage = "file" => read'[q].value # Nothing
    BY <1>3, <2>2 DEF ReadsTyped
  <2> QED BY <2>5, <2>6, <2>7
<1>9. CASE Tick BY <1>3, <1>9 DEF Tick, ReadsTyped
<1> QED BY <1>6, <1>7, <1>8, <1>9 DEF Next, Step

LEMMA TypesAgree == StoreInv /\ ReadsTyped => TypeOK
BY DEF StoreInv, Typed, ReadsTyped, TypeOK, UploadType

LEMMA SafeInvariant == Spec => [](StoreInv /\ ReadsTyped)
<1>1. Init => StoreInv /\ ReadsTyped
  <2> SUFFICES ASSUME Init PROVE StoreInv /\ ReadsTyped OBVIOUS
  <2>1. StoreInv BY StoreInitial
  <2>2. Nothing \in Answers BY DEF Answers
  <2>3. log = <<[value |-> Nothing, at |-> 0]>> BY DEF Init
  <2>4. log \in Seq([value : Answers, at : Nat]) /\ log # <<>> BY <2>2, <2>3
  <2>5. IdleRead \in ReadType /\ NoCache \in [value : Answers, until : -1..(MaxTime + Ttl)]
        /\ IdleRead.stage = "idle"
    BY <2>2, StoreAssumption DEF IdleRead, ReadType, NoCache
  <2> QED BY <2>1, <2>4, <2>5 DEF Init, ReadsTyped, ReadType
<1>2. (StoreInv /\ ReadsTyped) /\ [Next]_vars => (StoreInv /\ ReadsTyped)'
  <2> SUFFICES ASSUME StoreInv, ReadsTyped, [Next]_vars PROVE StoreInv' /\ ReadsTyped' OBVIOUS
  <2>1. CASE Next
    <3>1. StoreInv' BY <2>1, StoreStep DEF Next
    <3> QED BY <2>1, <3>1, ReadsStep
  <2>2. CASE UNCHANGED vars
    <3>1. StoreInv' BY <2>2, StoreStutter
    <3> QED BY <2>2, <3>1 DEF vars, ReadsTyped, Answers
  <2> QED BY <2>1, <2>2
<1> QED BY <1>1, <1>2, PTL DEF Spec

\* Whatever uploads cross on the servers of a store, and wherever one of them ends: the values
\* have their types, a payload is the one of its audit row, the newest publication can be read,
\* and retention has taken a publication only for Keep newer ones.
THEOREM SafeHolds == Spec => []Safe
<1>1. StoreInv /\ ReadsTyped => Safe
  BY TypesAgree, NewestIsThere DEF StoreInv, Safe
<1> QED BY <1>1, SafeInvariant, PTL

-----------------------------------------------------------------------------
(* The promise *)

\* The log grows at its end, at the present time.
LEMMA LogGrows ==
    ASSUME StoreInv, StoreInv', ReadsTyped, Next, NEW t \in Int
    PROVE  /\ Len(log) \in Nat \ {0} /\ DOMAIN log = 1..Len(log)
           /\ \/ log' = log /\ Latest' = Latest
              \/ Len(log') = Len(log) + 1 /\ Latest' # Latest
           /\ DOMAIN log' = 1..Len(log') /\ log'[Len(log')].value = IF log' = log THEN log[Len(log)].value ELSE Latest'
           /\ \A i \in 1..Len(log) : log'[i] = log[i]
           /\ t <= now => CurrentIn(log, t) \subseteq CurrentIn(log', t)
           /\ \A i \in CurrentIn(log', t) : i \in CurrentIn(log, t) \/ (log' # log /\ i = Len(log) + 1)
<1> DEFINE entry == [value |-> Latest', at |-> now]
           Entries == [value : Answers, at : Nat]
<1>1. now \in Nat /\ entry \in Entries /\ log \in Seq(Entries) /\ log # <<>>
      /\ log' = IF Latest' = Latest THEN log ELSE Append(log, entry)
  BY LogEffect DEF ReadsTyped
<1>2. entry.value = Latest' /\ entry.at = now OBVIOUS
<1> HIDE DEF entry, Entries
<1>3. Len(log) \in Nat \ {0} /\ DOMAIN log = 1..Len(log) BY <1>1
<1>31. \A n \in Nat : \A i \in 1..n : i # n => i + 1 \in 1..n OBVIOUS
<1>32. \A n \in Nat : /\ \A i \in 1..n : i \in 1..(n + 1)
                     /\ \A i \in 1..(n + 1) : i = n + 1 \/ i \in 1..n
  OBVIOUS
<1>4. CASE Latest' = Latest
  <2>1. log' = log BY <1>1, <1>4
  <2> QED BY <2>1, <1>3, <1>4
<1>5. CASE Latest' # Latest
  <2>1. log' = Append(log, entry) BY <1>1, <1>5
  <2>2. /\ Len(log') = Len(log) + 1 /\ log' \in Seq(Entries)
        /\ \A i \in 1..Len(log) : log'[i] = log[i]
        /\ log'[Len(log) + 1] = entry
    <3>1. /\ Append(log, entry) \in Seq(Entries)
          /\ Len(Append(log, entry)) = Len(log) + 1
          /\ \A i \in 1..Len(log) : Append(log, entry)[i] = log[i]
          /\ Append(log, entry)[Len(log) + 1] = entry
      BY <1>1, AppendProperties
    <3> QED BY <2>1, <3>1
  <2>3. DOMAIN log' = 1..Len(log') BY <2>2
  <2>4. log' # log BY <2>2, <1>3
  <2>5. ASSUME t <= now, NEW i \in CurrentIn(log, t) PROVE i \in CurrentIn(log', t)
    <3>1. i \in 1..Len(log) /\ (i = Len(log) \/ log[i + 1].at >= t) BY <1>3 DEF CurrentIn
    <3>2. CASE i = Len(log) BY <3>2, <2>2, <2>3, <2>5, <1>1, <1>2, <1>3 DEF CurrentIn
    <3>3. CASE i # Len(log)
      <4>0. Len(log') = Len(log) + 1 /\ i \in 1..Len(log) BY <2>2, <3>1
      <4>1. i + 1 \in 1..Len(log) /\ i \in 1..Len(log') BY <4>0, <3>3, <1>3, <1>31, <1>32
      <4> QED BY <4>1, <3>1, <3>3, <2>2, <2>3 DEF CurrentIn
    <3> QED BY <3>2, <3>3
  <2>6. ASSUME NEW i \in CurrentIn(log', t) PROVE i \in CurrentIn(log, t) \/ i = Len(log) + 1
    <3>1. i \in 1..Len(log') /\ (i = Len(log') \/ log'[i + 1].at >= t) BY <2>3 DEF CurrentIn
    <3>2. CASE i = Len(log') BY <3>2, <2>2
    <3>3. CASE i = Len(log) BY <3>3, <1>3 DEF CurrentIn
    <3>4. CASE i # Len(log') /\ i # Len(log)
      <4>0. Len(log') = Len(log) + 1 /\ i \in 1..Len(log') BY <2>2, <3>1
      <4>1. i + 1 \in 1..Len(log) /\ i \in 1..Len(log) BY <4>0, <3>4, <1>3, <1>31, <1>32
      <4> QED BY <4>1, <3>1, <3>4, <2>2, <1>3 DEF CurrentIn
    <3> QED BY <3>2, <3>3, <3>4
  <2> QED BY <2>2, <2>3, <2>4, <2>5, <2>6, <1>2, <1>3, <1>5
<1> QED BY <1>4, <1>5

LEMMA StepKeepsTime ==
    ASSUME StoreInv, StoreInv', Next
    PROVE  backend' = backend /\ now \in Nat /\ now' \in Nat /\ now <= now' /\ Window' = Window /\ Window \in Int
<1>1. backend' = backend /\ (now' = now \/ now' = now + 1)
  BY DEF Next, Step, Save, Receive, Look, FileWrite, Insert, Compare, Unlink, Commit, ObjectPut, ObjectPoint,
         ObjectAudit, ResetCache, Crash, Read, ReadStart, ReadDatabase, ReadRow, ReadFile, ReadCache,
         ReadPointer, KeepInCache, Tick
<1>2. now \in Nat BY StoreAssumption DEF StoreInv, Typed
<1> QED BY <1>1, <1>2, StoreAssumption DEF Window

\* What a read or a cache holds stays good while it holds it.
LEMMA HeldStaysGood ==
    ASSUME StoreInv, StoreInv', ReadsTyped, Next
    PROVE  /\ \A x \in ReadType : Reading(x) => Reading(x)'
           /\ \A c \in [value : Answers, until : -1..(MaxTime + Ttl)] : Caching(c) => Caching(c)'
<1>1. backend' = backend /\ now \in Nat /\ now' \in Nat /\ now <= now' /\ Window' = Window /\ Window \in Int
  BY StepKeepsTime
<1>2. /\ Len(log) \in Nat \ {0} /\ DOMAIN log = 1..Len(log)
      /\ \/ log' = log /\ Latest' = Latest
         \/ Len(log') = Len(log) + 1 /\ Latest' # Latest
      /\ \A i \in 1..Len(log) : log'[i] = log[i]
  BY LogGrows, 0 \in Int, <1>1
<1>3. ASSUME NEW x \in ReadType, Reading(x) PROVE Reading(x)'
  <2>1. x.from \in Int /\ x.since \in Nat /\ x.from - Window \in Int
    BY <1>1, StoreAssumption DEF ReadType
  <2>2. ASSUME x.stage # "idle"
        PROVE  /\ x.since \in 1..Len(log') /\ x.from <= now'
               /\ \A j \in CurrentIn(log', x.from - Window) : x.since <= j
    <3>1. x.since \in 1..Len(log) /\ x.from <= now
          /\ \A j \in CurrentIn(log, x.from - Window) : x.since <= j
      BY <1>3, <2>2 DEF Reading
    <3>2. \A j \in CurrentIn(log', x.from - Window) :
            j \in CurrentIn(log, x.from - Window) \/ j = Len(log) + 1
      BY <2>1, LogGrows
    <3> QED BY <3>1, <3>2, <1>1, <1>2, <2>1
  <2>3. ASSUME x.stage = "file"
        PROVE  /\ backend = "file"
               /\ \E j \in x.since..Len(log') : log'[j].value = x.value
               /\ Len(log') = x.since => x.value = Latest'
    <3>1. x.since \in 1..Len(log) BY <1>3, <2>3 DEF Reading
    <3>2. PICK j \in x.since..Len(log) : log[j].value = x.value BY <1>3, <2>3 DEF Reading
    <3>3. j \in 1..Len(log) /\ j \in x.since..Len(log') BY <3>1, <3>2, <1>2
    <3>4. log'[j].value = x.value BY <3>2, <3>3, <1>2
    <3> QED BY <1>2, <1>3, <2>3, <3>1, <3>3, <3>4 DEF Reading
  <2>4. ASSUME x.stage = "keep"
        PROVE  backend = "object" /\ \E j \in CurrentIn(log', x.from) : log'[j].value = x.value
    <3>1. PICK j \in CurrentIn(log, x.from) : log[j].value = x.value BY <1>3, <2>4 DEF Reading
    <3>2. x.from <= now BY <1>3, <2>4 DEF Reading
    <3>3. j \in CurrentIn(log', x.from) BY <2>1, <3>1, <3>2, LogGrows
    <3>4. j \in 1..Len(log) BY <3>1, <1>2 DEF CurrentIn
    <3> QED BY <3>1, <3>3, <3>4, <1>2, <1>3, <2>4 DEF Reading
  <2> QED BY <1>1, <1>3, <2>2, <2>3, <2>4 DEF Reading
<1>4. ASSUME NEW c \in [value : Answers, until : -1..(MaxTime + Ttl)], Caching(c), c.until >= 0
      PROVE  /\ c.until - Ttl <= now'
             /\ \E j \in CurrentIn(log', c.until - Ttl) : log'[j].value = c.value
  <2>1. c.until - Ttl \in Int BY StoreAssumption
  <2>2. c.until - Ttl <= now BY <1>4 DEF Caching
  <2>3. PICK j \in CurrentIn(log, c.until - Ttl) : log[j].value = c.value BY <1>4 DEF Caching
  <2>4. j \in CurrentIn(log', c.until - Ttl) BY <2>1, <2>2, <2>3, LogGrows
  <2>5. j \in 1..Len(log) BY <2>3, <1>2 DEF CurrentIn
  <2> QED BY <2>1, <2>2, <2>3, <2>4, <2>5, <1>1, <1>2
<1> QED BY <1>3, <1>4 DEF Caching

LEMMA LogHasEnd ==
    ASSUME ReadsTyped
    PROVE  /\ Len(log) \in Nat \ {0} /\ DOMAIN log = 1..Len(log)
           /\ \A t \in Int : Len(log) \in CurrentIn(log, t) /\ CurrentIn(log, t) = Promise!Current(t)
           /\ \A j \in 1..Len(log) : j # Len(log) => log[j + 1].at \in Nat
           /\ \A i \in 1..Len(log), j \in 1..Len(log) : i <= j => j \in i..Len(log)
<1>1. Len(log) \in Nat \ {0} /\ DOMAIN log = 1..Len(log) BY DEF ReadsTyped
<1>2. \A n \in Nat : /\ \A i \in 1..n : i # n => i + 1 \in 1..n
                    /\ \A i \in 1..n, j \in 1..n : i <= j => j \in i..n
  OBVIOUS
<1>3. \A j \in 1..Len(log) : log[j].at \in Nat
  <2> DEFINE Entries == [value : Answers, at : Nat]
  <2>1. log \in Seq(Entries) BY DEF ReadsTyped
  <2>2. \A e \in Entries : e.at \in Nat OBVIOUS
  <2> HIDE DEF Entries
  <2>3. \A j \in 1..Len(log) : log[j] \in Entries BY <2>1
  <2> QED BY <2>2, <2>3
<1>4. \A t \in Int : Len(log) \in CurrentIn(log, t) /\ CurrentIn(log, t) = Promise!Current(t)
  BY <1>1 DEF CurrentIn, Promise!Current
<1>5. \A j \in 1..Len(log) : j # Len(log) => log[j + 1].at \in Nat BY <1>1, <1>2, <1>3
<1> QED BY <1>1, <1>2, <1>4, <1>5

\* The store and the log stand still while a reader moves.
LEMMA ReadLeavesStore ==
    ASSUME StoreInv, NEW r \in Readers, Read(r), Next
    PROVE  /\ UNCHANGED <<backend, rows, payloads, pointer, now, log>> /\ Latest' = Latest
           /\ Window' = Window
<1>1. UNCHANGED <<backend, rows, payloads, pointer, now>>
  BY DEF Read, ReadStart, ReadDatabase, ReadRow, ReadFile, ReadCache, ReadPointer, KeepInCache, store
<1>2. Latest' = Latest BY <1>1 DEF Latest, Present, NewestRow, Rank, Newer
<1> QED BY <1>1, <1>2 DEF Next, Window

\* What a read may answer: a snapshot that was the latest, or, in the file store, what is left
\* of it when retention has overtaken the read.
May(x) ==
    {log[i].value : i \in x.since..Len(log)} \cup
    (IF backend = "file" /\ Len(log) > x.since
     THEN {Nothing} \cup {v \in Pubs \X Sums : \E i \in x.since..Len(log) :
                              log[i].value \in Pubs \X Sums /\ log[i].value[1] = v[1]}
     ELSE {})

\* A step of a reader begins a read, goes on with it or answers what it may.
LEMMA ReadIsGood ==
    ASSUME PromiseInv, NEW r \in Readers, Read(r)
    PROVE  \/ /\ read[r].stage = "idle"
              /\ \E x \in ReadType :
                   /\ read' = [read EXCEPT ![r] = x] /\ x.stage # "idle" /\ Reading(x)
                   /\ x.since = Promise!Oldest(now - Window)
              /\ cache' = cache
           \/ /\ read[r].stage # "idle"
              /\ \E x \in ReadType :
                   /\ read' = [read EXCEPT ![r] = x] /\ x.stage # "idle" /\ Reading(x)
                   /\ x.since = read[r].since
              /\ cache' = cache
           \/ /\ read[r].stage # "idle"
              /\ \E v \in Answers : Answer(r, v) /\ v \in May(read[r])
              /\ \/ cache' = cache
                 \/ \E c \in [value : Answers, until : -1..(MaxTime + Ttl)] :
                      cache' = [cache EXCEPT ![Home[r]] = c] /\ Caching(c)
<1> DEFINE x0 == read[r]
<1>1. x0 \in ReadType /\ now \in 0..MaxTime /\ now \in Nat /\ Home[r] \in Servers /\ Reading(x0)
      /\ Typed /\ StoreInv /\ ReadsTyped /\ (x0.stage = "file" => x0.value # Nothing)
  <2>1. StoreInv /\ ReadsTyped /\ Reading(x0) BY DEF PromiseInv
  <2>2. Typed BY <2>1 DEF StoreInv
  <2>3. x0 \in ReadType /\ (x0.stage = "file" => x0.value # Nothing)
    BY <2>1 DEF ReadsTyped, ReadType
  <2>4. now \in 0..MaxTime /\ now \in Nat /\ Home[r] \in Servers
    BY <2>2, StoreAssumption DEF Typed
  <2> QED BY <2>1, <2>2, <2>3, <2>4
<1>2. /\ Nothing \in Answers /\ Latest \in Answers /\ NewestReadable
      /\ log[Len(log)].value = Latest
      /\ Len(log) \in Nat \ {0} /\ DOMAIN log = 1..Len(log)
      /\ \A t \in Int : Len(log) \in CurrentIn(log, t) /\ CurrentIn(log, t) = Promise!Current(t)
  BY <1>1, NewestIsThere, LogHasEnd DEF Answers, PromiseInv
<1>21. /\ \A j \in 1..Len(log) : j # Len(log) => log[j + 1].at \in Nat
       /\ \A i \in 1..Len(log), j \in 1..Len(log) : i <= j => j \in i..Len(log)
  BY <1>1, LogHasEnd
<1>3. x0.from \in Nat /\ Window \in Int /\ Ttl \in Nat /\ (backend = "object" => Window = Ttl)
  BY <1>1, StoreAssumption DEF ReadType, Window
<1>4. x0.stage # "idle" =>
        /\ x0.since \in 1..Len(log) /\ x0.from <= now
        /\ \A j \in CurrentIn(log, x0.from - Window) : x0.since <= j
  BY <1>1 DEF Reading
<1>5. x0.stage # "idle" => Latest \in May(x0)
  <2>1. x0.stage # "idle" => Len(log) \in x0.since..Len(log) BY <1>2, <1>4
  <2> QED BY <2>1, <1>2 DEF May
<1> HIDE DEF x0
<1>6. CASE ReadStart(r)
  <2> DEFINE x == [IdleRead EXCEPT !.stage = "look", !.from = now, !.since = Promise!Oldest(now - Window)]
  <2>1. now - Window \in Int BY <1>1, <1>3
  <2>2. /\ Promise!Oldest(now - Window) \in 1..Len(log)
        /\ \A i \in CurrentIn(log, now - Window) : Promise!Oldest(now - Window) <= i
    BY <1>1, <1>2, <2>1, OldestIsCurrent
  <2>3. /\ x \in ReadType /\ x.stage = "look" /\ x.from = now /\ x.since = Promise!Oldest(now - Window)
    <3>1. Promise!Oldest(now - Window) \in Nat BY <2>2, <1>2
    <3> QED BY <1>1, <1>2, <3>1 DEF IdleRead, ReadType
  <2>4. read' = [read EXCEPT ![r] = x] /\ cache' = cache /\ read[r].stage = "idle" BY <1>6 DEF ReadStart
  <2> HIDE DEF x
  <2>5. Reading(x) BY <1>1, <2>2, <2>3 DEF Reading
  <2> QED BY <2>3, <2>4, <2>5
<1>7. CASE ReadDatabase(r)
  <2>1. x0.stage = "look" /\ Answer(r, Latest) /\ cache' = cache BY <1>7 DEF ReadDatabase, x0
  <2> QED BY <2>1, <1>2, <1>5 DEF x0
<1>8. CASE ReadRow(r)
  <2>1. x0.stage = "look" /\ backend = "file" /\ cache' = cache BY <1>8 DEF ReadRow, x0
  <2>2. CASE Latest = Nothing
    <3>1. Answer(r, Latest) BY <1>8, <2>2 DEF ReadRow
    <3> QED BY <2>1, <3>1, <1>2, <1>5 DEF x0
  <2>3. CASE Latest # Nothing
    <3> DEFINE x == [x0 EXCEPT !.stage = "file", !.value = Latest]
    <3>1. x \in ReadType /\ x.stage = "file" /\ x.value = Latest /\ x.since = x0.since /\ x.from = x0.from
      BY <1>1, <1>2 DEF ReadType
    <3>2. read' = [read EXCEPT ![r] = x] BY <1>8, <2>3 DEF ReadRow, x0
    <3> HIDE DEF x
    <3>3. Len(log) \in x.since..Len(log) BY <1>2, <1>4, <2>1, <3>1
    <3>4. Reading(x) BY <1>2, <1>4, <2>1, <3>1, <3>3 DEF Reading
    <3> QED BY <2>1, <3>1, <3>2, <3>4 DEF x0
  <2> QED BY <2>2, <2>3
<1>9. CASE ReadFile(r)
  <2> DEFINE p == x0.value[1]
             v == IF payloads[p] = Absent THEN Nothing ELSE <<p, payloads[p]>>
  <2>1. x0.stage = "file" /\ Answer(r, v) /\ cache' = cache BY <1>9 DEF ReadFile, x0
  <2>2. x0.value \in Pubs \X Sums /\ p \in Pubs BY <1>1, <2>1 DEF ReadType, Answers
  <2>3. payloads[p] \in Sums \cup {Absent} BY <1>1, <2>2 DEF Typed
  <2>4. v \in Answers /\ (payloads[p] # Absent => v \in Pubs \X Sums /\ v[1] = p)
    BY <1>2, <2>2, <2>3 DEF Answers
  <2>5. /\ backend = "file"
        /\ \E j \in x0.since..Len(log) : log[j].value = x0.value
        /\ Len(log) = x0.since => x0.value = Latest
    BY <1>1, <2>1 DEF Reading
  <2>6. CASE Len(log) = x0.since
    <3>1. Latest \in Pubs \X Sums /\ Latest[1] = p BY <2>2, <2>5, <2>6
    <3>2. Latest # Nothing BY <1>1, <2>2, <2>5, <2>6, <2>1
    <3>3. Present(rows) # {} /\ Latest = <<NewestRow, rows[NewestRow].sum>>
      BY <2>5, <3>2 DEF Latest
    <3>4. p = NewestRow /\ payloads[p] # Absent BY <1>2, <2>5, <3>1, <3>3 DEF NewestReadable
    <3>5. NewestRow \in Present(rows) BY <1>1, <3>3, NewestIsThere DEF Present
    <3>6. payloads[p] = rows[p].sum BY <1>1, <3>4, <3>5 DEF StoreInv, PayloadMatchesAudit
    <3>7. v = Latest BY <3>3, <3>4, <3>6
    <3> QED BY <1>5, <2>1, <2>4, <3>7 DEF x0
  <2>7. CASE Len(log) # x0.since
    <3>1. Len(log) > x0.since BY <2>7, <2>1, <1>2, <1>4
    <3>2. v \in May(x0) BY <2>2, <2>4, <2>5, <3>1 DEF May
    <3> QED BY <2>1, <2>4, <3>2 DEF x0
  <2> QED BY <2>6, <2>7
<1>10. CASE ReadCache(r)
  <2> DEFINE c == cache[Home[r]]
  <2>1. x0.stage = "look" /\ backend = "object" /\ cache' = cache BY <1>10 DEF ReadCache, x0
  <2>2. c \in [value : Answers, until : -1..(MaxTime + Ttl)] /\ Caching(c)
    BY <1>1 DEF ReadsTyped, PromiseInv
  <2>3. CASE c.until >= x0.from
    <3>1. Answer(r, c.value) BY <1>10, <2>3 DEF ReadCache, x0
    <3>2. c.until \in Int /\ c.until >= 0 BY <1>3, <2>2, <2>3
    <3>3. PICK j \in CurrentIn(log, c.until - Ttl) : log[j].value = c.value BY <2>2, <3>2 DEF Caching
    <3>4. j \in 1..Len(log) /\ (j = Len(log) \/ log[j + 1].at >= c.until - Ttl)
      BY <3>3, <1>2 DEF CurrentIn
    <3>6. j # Len(log) => log[j + 1].at \in Nat BY <3>4, <1>21
    <3>7. j \in CurrentIn(log, x0.from - Window)
      BY <3>2, <3>4, <3>6, <2>1, <2>3, <1>2, <1>3 DEF CurrentIn
    <3>8. j \in x0.since..Len(log) BY <3>4, <3>7, <2>1, <1>4, <1>21
    <3>9. c.value \in May(x0) BY <3>3, <3>8 DEF May
    <3> QED BY <2>1, <2>2, <3>1, <3>9 DEF x0
  <2>4. CASE ~(c.until >= x0.from)
    <3> DEFINE x == [x0 EXCEPT !.stage = "pointer"]
    <3>1. x \in ReadType /\ x.stage = "pointer" /\ x.since = x0.since /\ x.from = x0.from
      BY <1>1 DEF ReadType
    <3>2. read' = [read EXCEPT ![r] = x] BY <1>10, <2>4 DEF ReadCache, ReadFrom, x0
    <3> HIDE DEF x
    <3>3. Reading(x) BY <1>4, <2>1, <3>1 DEF Reading
    <3> QED BY <2>1, <3>1, <3>2, <3>3 DEF x0
  <2> QED BY <2>3, <2>4
<1>11. CASE ReadPointer(r)
  <2> DEFINE x == [x0 EXCEPT !.stage = "keep", !.value = Latest]
  <2>1. x0.stage = "pointer" /\ cache' = cache BY <1>11 DEF ReadPointer, x0
  <2>2. x \in ReadType /\ x.stage = "keep" /\ x.value = Latest /\ x.since = x0.since /\ x.from = x0.from
    BY <1>1, <1>2 DEF ReadType
  <2>3. read' = [read EXCEPT ![r] = x] BY <1>11 DEF ReadPointer, x0
  <2> HIDE DEF x
  <2>4. backend = "object" BY <1>1, <2>1 DEF Reading
  <2>5. Len(log) \in CurrentIn(log, x.from) BY <1>2, <1>3, <2>2
  <2>6. Reading(x) BY <1>2, <1>4, <2>1, <2>2, <2>4, <2>5 DEF Reading
  <2> QED BY <2>1, <2>2, <2>3, <2>6 DEF x0
<1>12. CASE KeepInCache(r)
  <2> DEFINE c == [value |-> x0.value, until |-> x0.from + Ttl]
  <2>1. x0.stage = "keep" /\ Answer(r, x0.value) /\ cache' = [cache EXCEPT ![Home[r]] = c]
    BY <1>12 DEF KeepInCache, x0
  <2>2. backend = "object" /\ \E j \in CurrentIn(log, x0.from) : log[j].value = x0.value
    BY <1>1, <2>1 DEF Reading
  <2>3. PICK j \in CurrentIn(log, x0.from) : log[j].value = x0.value BY <2>2
  <2>4. j \in 1..Len(log) /\ (j = Len(log) \/ log[j + 1].at >= x0.from) BY <2>3, <1>2 DEF CurrentIn
  <2>6. j # Len(log) => log[j + 1].at \in Nat BY <2>4, <1>21
  <2>7. j \in CurrentIn(log, x0.from - Window)
    BY <2>2, <2>4, <2>6, <1>2, <1>3 DEF CurrentIn
  <2>8. j \in x0.since..Len(log) BY <2>1, <2>4, <2>7, <1>4, <1>21
  <2>9. x0.value \in May(x0) /\ x0.value \in Answers BY <2>3, <2>8, <1>1 DEF May, ReadType
  <2>10. c \in [value : Answers, until : -1..(MaxTime + Ttl)] /\ c.until - Ttl = x0.from
         /\ c.value = x0.value
    BY <1>1, <1>3, StoreAssumption DEF ReadType
  <2> HIDE DEF c
  <2>11. Caching(c) BY <1>4, <2>1, <2>3, <2>10 DEF Caching
  <2> QED BY <2>1, <2>9, <2>10, <2>11 DEF x0
<1> QED BY <1>6, <1>7, <1>8, <1>9, <1>10, <1>11, <1>12 DEF Read

LEMMA IdleIsGood ==
    /\ IdleRead.stage = "idle" /\ Reading(IdleRead) /\ Caching(NoCache)
    /\ \A v : Reading([IdleRead EXCEPT !.value = v])
BY DEF IdleRead, NoCache, Reading, Caching

\* Reads and caches stay good.
LEMMA HeldStep ==
    ASSUME PromiseInv, StoreInv', ReadsTyped', Next
    PROVE  PromiseInv'
<1>1. StoreInv /\ ReadsTyped /\ log[Len(log)].value = Latest BY DEF PromiseInv
<1>2. log'[Len(log')].value = Latest'
  <2>1. /\ \/ log' = log /\ Latest' = Latest
           \/ Len(log') = Len(log) + 1 /\ Latest' # Latest
        /\ log'[Len(log')].value = IF log' = log THEN log[Len(log)].value ELSE Latest'
    BY <1>1, LogGrows, 0 \in Int
  <2> QED BY <1>1, <2>1
<1>3. /\ \A x \in ReadType : Reading(x) => Reading(x)'
      /\ \A c \in [value : Answers, until : -1..(MaxTime + Ttl)] : Caching(c) => Caching(c)'
  BY <1>1, HeldStaysGood
<1>4. /\ \A r \in Readers : read[r] \in ReadType /\ Reading(read[r])
      /\ \A s \in Servers : cache[s] \in [value : Answers, until : -1..(MaxTime + Ttl)] /\ Caching(cache[s])
  BY <1>1 DEF PromiseInv, ReadsTyped, ReadType
<1>5. /\ \A r \in Readers : read'[r] \in ReadType
      /\ \A s \in Servers : cache'[s] \in [value : Answers, until : -1..(MaxTime + Ttl)]
  BY DEF ReadsTyped, ReadType, Answers
<1>6. /\ read \in [Readers -> ReadType]
      /\ cache \in [Servers -> [value : Answers, until : -1..(MaxTime + Ttl)]]
  BY <1>1 DEF ReadsTyped, ReadType
<1>7. SUFFICES (\A r \in Readers : Reading(read'[r])) /\ (\A s \in Servers : Caching(cache'[s]))
  <2>1. ASSUME NEW r \in Readers, Reading(read'[r]) PROVE Reading(read[r])'
    <3>1. PICK x : x = read'[r] OBVIOUS
    <3>2. Reading(x)' BY <3>1, <2>1, <1>3, <1>5
    <3> QED BY <3>1, <3>2 DEF Reading
  <2>2. ASSUME NEW s \in Servers, Caching(cache'[s]) PROVE Caching(cache[s])'
    <3>1. PICK c : c = cache'[s] OBVIOUS
    <3>2. Caching(c)' BY <3>1, <2>2, <1>3, <1>5
    <3> QED BY <3>1, <3>2 DEF Caching
  <2> QED BY <1>2, <1>7, <2>1, <2>2 DEF PromiseInv
<1>8. CASE \E w \in Writers : Save(w)
  <2>1. PICK w \in Writers : Save(w) BY <1>8
  <2>2. read' = read /\ (cache' = cache \/ cache' = [cache EXCEPT ![w] = NoCache])
    BY <2>1
    DEF Save, Receive, Look, FileWrite, Insert, Compare, Unlink, Commit, ObjectPut, ObjectPoint,
        ObjectAudit, ResetCache
  <2> QED BY <2>2, <1>4, <1>6, IdleIsGood
<1>9. CASE \E w \in Writers : Crash(w)
  <2>1. PICK w \in Writers : Crash(w) BY <1>9
  <2>2. /\ read' = [r \in Readers |-> IF Home[r] = w THEN IdleRead ELSE read[r]]
        /\ cache' = [s \in Servers |-> IF s = w THEN NoCache ELSE cache[s]]
    BY <2>1 DEF Crash
  <2> QED BY <2>2, <1>4, IdleIsGood
<1>10. CASE \E r \in Readers : Read(r)
  <2>1. PICK r \in Readers : Read(r) BY <1>10
  <2>2. /\ \E x : read' = [read EXCEPT ![r] = x] /\ Reading(x)
        /\ \/ cache' = cache
           \/ \E c : cache' = [cache EXCEPT ![Home[r]] = c] /\ Caching(c)
    <3>1. CASE \E x \in ReadType : read' = [read EXCEPT ![r] = x] /\ Reading(x) /\ cache' = cache
      BY <3>1
    <3>2. CASE /\ \E v \in Answers : Answer(r, v)
               /\ \/ cache' = cache
                  \/ \E c \in [value : Answers, until : -1..(MaxTime + Ttl)] :
                       cache' = [cache EXCEPT ![Home[r]] = c] /\ Caching(c)
      <4>1. PICK v \in Answers : Answer(r, v) BY <3>2
      <4>2. read' = [read EXCEPT ![r] = [IdleRead EXCEPT !.value = v]] BY <4>1 DEF Answer
      <4>3. Reading([IdleRead EXCEPT !.value = v]) BY IdleIsGood
      <4> QED BY <3>2, <4>2, <4>3
    <3> QED BY <2>1, <3>1, <3>2, ReadIsGood
  <2>3. \A q \in Readers : Reading(read'[q]) BY <2>2, <1>4, <1>6
  <2>4. \A s \in Servers : Caching(cache'[s]) BY <2>2, <1>4, <1>6
  <2> QED BY <2>3, <2>4
<1>11. CASE Tick BY <1>4, <1>11 DEF Tick
<1> QED BY <1>8, <1>9, <1>10, <1>11 DEF Next, Step

LEMMA PromiseInvariant == Spec => []PromiseInv
<1>1. Init /\ StoreInv /\ ReadsTyped => PromiseInv
  <2> SUFFICES ASSUME Init, StoreInv, ReadsTyped PROVE PromiseInv OBVIOUS
  <2>1. log = <<[value |-> Nothing, at |-> 0]>> BY DEF Init
  <2>2. log[Len(log)].value = Nothing BY <2>1
  <2>3. Latest = Nothing BY DEF Init, Latest, Present
  <2> QED BY <2>2, <2>3, IdleIsGood DEF Init, PromiseInv
<1>2. PromiseInv /\ (StoreInv /\ ReadsTyped)' /\ [Next]_vars => PromiseInv'
  <2> SUFFICES ASSUME PromiseInv, StoreInv', ReadsTyped', [Next]_vars PROVE PromiseInv' OBVIOUS
  <2>0. StoreInv' /\ ReadsTyped' OBVIOUS
  <2>1. CASE Next BY <2>1, HeldStep
  <2>2. CASE UNCHANGED vars
    <3>1. UNCHANGED <<backend, rows, payloads, pointer, now, read, cache, log>> BY <2>2 DEF vars
    <3>2. Latest' = Latest /\ Window' = Window
      BY <3>1 DEF Latest, Present, NewestRow, Rank, Newer, Window
    <3>3. \A r \in Readers : Reading(read[r])'
      BY <3>1, <3>2 DEF PromiseInv, Reading, CurrentIn
    <3>4. \A s \in Servers : Caching(cache[s])'
      BY <3>1 DEF PromiseInv, Caching, CurrentIn
    <3>5. (log[Len(log)].value = Latest)' BY <3>1, <3>2 DEF PromiseInv
    <3> QED BY <2>0, <3>3, <3>4, <3>5 DEF PromiseInv
  <2> QED BY <2>1, <2>2
<1> QED BY <1>1, <1>2, SafeInvariant, PTL DEF Spec

LEMMA NothingWhenEmpty ==
    StoreInv => (Latest = Nothing <=> IF backend = "object" THEN pointer = 0 ELSE Present(rows) = {})
<1> SUFFICES ASSUME StoreInv
             PROVE  Latest = Nothing <=> IF backend = "object" THEN pointer = 0 ELSE Present(rows) = {}
  OBVIOUS
<1>1. Nothing[1] = 0 BY DEF Nothing
<1>2. Present(rows) # {} => NewestRow # 0 BY NewestIsThere, StoreAssumption DEF Pubs
<1>3. \A a, b : a # 0 => <<a, b>> # Nothing BY DEF Nothing
<1> QED BY <1>2, <1>3 DEF Latest

LEMMA NothingWhenEmptyNext ==
    StoreInv' => (Latest = Nothing <=> IF backend = "object" THEN pointer = 0 ELSE Present(rows) = {})'
BY NothingWhenEmpty, PTL

\* With one writer no upload takes the last publication away.
LEMMA SaveKeepsOne ==
    ASSUME Alone, StoreInv, StoreInv', NEW w \in Writers, Save(w), Latest' = Nothing
    PROVE  Latest = Nothing
<1>1. backend' = backend /\ backend \in Backends
  BY DEF Save, Receive, Look, FileWrite, Insert, Compare, Unlink, Commit, ObjectPut, ObjectPoint,
         ObjectAudit, ResetCache, StoreInv, Typed
<1>2. IF backend = "object" THEN pointer' = 0 ELSE Present(rows') = {}
  BY <1>1, NothingWhenEmptyNext DEF Nothing, Absent, Present, NoRow, Row, Pubs
<1>3. CASE backend = "object"
  <2>1. pointer' = pointer \/ pointer' \in Pubs
    <3>1. CASE ObjectPoint(w)
      <4>1. save[w].pub \in Pubs BY <3>1 DEF ObjectPoint, At, StoreInv, Upload
      <4> QED BY <3>1, <4>1 DEF ObjectPoint
    <3>2. CASE ~ObjectPoint(w)
      BY <3>2
      DEF Save, Receive, Look, FileWrite, Insert, Compare, Unlink, Commit, ObjectPut,
          ObjectAudit, ResetCache, store
    <3> QED BY <3>1, <3>2
  <2>2. 0 \notin Pubs BY StoreAssumption DEF Pubs
  <2> QED BY <2>1, <2>2, <1>2, <1>3, NothingWhenEmpty
<1>4. CASE backend # "object" /\ ~Commit(w)
  <2>1. rows' = rows \/ ObjectAudit(w)
    BY <1>4
    DEF Save, Receive, Look, FileWrite, Insert, Compare, Unlink, ObjectPut, ObjectPoint, ResetCache, store
  <2>2. ~ObjectAudit(w)
    <3>1. save[w].stage \in StagesOf(backend) BY DEF StoreInv, Upload
    <3>2. save[w].stage # "audit"
      BY <3>1, <1>1, <1>4, StoreAssumption DEF StagesOf
    <3> QED BY <3>2 DEF ObjectAudit, At
  <2> QED BY <2>1, <2>2, <1>2, <1>4, NothingWhenEmpty
<1>5. CASE backend # "object" /\ Commit(w)
  <2> DEFINE s == save[w]
  <2>1. OneWriter BY <1>1, <1>5 DEF Alone, OneWriter
  <2>2. /\ Table(s) \in TableType /\ s.pub \in Pubs /\ s.sum \in Sums /\ Upload(w, s) /\ s.stage = "commit"
        /\ \A q \in Pubs : Table(s)[q] = IF q = s.pub THEN Row(s.sum, s.at) ELSE rows[q]
        /\ \A q \in Pubs : rows'[q] = IF q \in s.old THEN NoRow ELSE Table(s)[q]
    BY <1>5, CommitEffect
  <2>3. s.old = Excess(Table(s)) BY <2>1, <2>2 DEF Upload, Frozen, Pruning
  <2>4. s.pub \in Present(Table(s))
    <3>1. Table(s)[s.pub] = Row(s.sum, s.at) BY <2>2
    <3>2. Row(s.sum, s.at) # NoRow BY <2>2, StoreAssumption DEF Row, NoRow, Absent
    <3> QED BY <3>1, <3>2, <2>2 DEF Present
  <2>5. PICK p \in Present(Table(s)) : Rank(Table(s), p) = 0 BY <2>2, <2>4, NewestExists
  <2>6. p \notin s.old BY <2>3, <2>5, StoreAssumption DEF Excess
  <2>7. p \in Pubs /\ Table(s)[p] # NoRow BY <2>5 DEF Present
  <2>8. rows'[p] # NoRow BY <2>2, <2>6, <2>7
  <2>9. p \in Present(rows') BY <2>7, <2>8 DEF Present
  <2> QED BY <2>9, <1>2, <1>5
<1> QED BY <1>3, <1>4, <1>5

-----------------------------------------------------------------------------
(* Every step of the store is one that the promise allows *)

Since == [r \in Readers |-> read[r].since]
Answered == [r \in Readers |-> IF read[r].stage = "idle" THEN read[r].value ELSE Nothing]

\* How the promise sees a read that becomes x.
LEMMA ReadSeen ==
    ASSUME ReadsTyped, NEW r \in Readers, NEW x, read' = [read EXCEPT ![r] = x]
    PROVE  /\ Since' = [Since EXCEPT ![r] = x.since]
           /\ Answered' = [Answered EXCEPT ![r] = IF x.stage = "idle" THEN x.value ELSE Nothing]
<1>1. read'[r] = x /\ \A q \in Readers : q # r => read'[q] = read[q] BY DEF ReadsTyped
<1>2. Since' = [Since EXCEPT ![r] = x.since]
  <2>1. \A q \in Readers : read'[q].since = IF q = r THEN x.since ELSE read[q].since BY <1>1
  <2> QED BY <2>1 DEF Since
<1>3. Answered' = [Answered EXCEPT ![r] = IF x.stage = "idle" THEN x.value ELSE Nothing]
  <2> DEFINE See(y) == IF y.stage = "idle" THEN y.value ELSE Nothing
  <2>1. \A q \in Readers : See(read'[q]) = IF q = r THEN See(x) ELSE See(read[q]) BY <1>1
  <2>2. Answered = [q \in Readers |-> See(read[q])] /\ Answered' = [q \in Readers |-> See(read'[q])]
    BY DEF Answered
  <2> HIDE DEF See
  <2>3. Answered' = [Answered EXCEPT ![r] = See(x)] BY <2>1, <2>2
  <2> QED BY <2>3 DEF See
<1> QED BY <1>2, <1>3

LEMMA InitPromise == Init => Promise!Init
<1> SUFFICES ASSUME Init PROVE Promise!Init OBVIOUS
<1>1. Window \in Int BY StoreAssumption DEF Window
<1>2. IdleRead.stage = "idle" /\ IdleRead.since = 0 /\ IdleRead.value = Nothing BY DEF IdleRead
<1>3. [r \in Readers |-> read[r].since] = [r \in Readers |-> 0] BY <1>2 DEF Init
<1>4. [r \in Readers |-> IF read[r].stage = "idle" THEN read[r].value ELSE Nothing]
        = [r \in Readers |-> Nothing]
  BY <1>2 DEF Init
<1> QED BY <1>1, <1>3, <1>4 DEF Init, Promise!Init, Promise!Entry

\* An answer that a read may give is one of the promise.
LEMMA AnswerAllowed ==
    ASSUME StoreInv, ReadsTyped, NEW r \in Readers, read[r].stage # "idle", Reading(read[r]),
           NEW v \in May(read[r]), Answer(r, v), UNCHANGED <<backend, now, log>>, Window' = Window
    PROVE  Promise!Answer(r)
<1> DEFINE x == [IdleRead EXCEPT !.value = v]
           from == read[r].since
<1>1. read' = [read EXCEPT ![r] = x] BY DEF Answer
<1>2. x.since = 0 /\ x.stage = "idle" /\ x.value = v BY DEF IdleRead
<1> HIDE DEF x
<1>3. Since' = [Since EXCEPT ![r] = 0] /\ Answered' = [Answered EXCEPT ![r] = v]
  BY <1>1, <1>2, ReadSeen
<1>4. Since[r] = from /\ from \in 1..Len(log) /\ from # 0 BY DEF Since, Reading
<1>5. Promise!Served(r) = {log[i].value : i \in from..Len(log)}
  BY DEF Promise!Served
<1>6. v \in Promise!Served(r) \cup
          (IF backend = "file" /\ Len(log) > from THEN Promise!Overtaken(r) ELSE {})
  <2>1. CASE v \in {log[i].value : i \in from..Len(log)} BY <2>1, <1>5
  <2>2. CASE v \notin {log[i].value : i \in from..Len(log)}
    <3>1. /\ backend = "file" /\ Len(log) > from
          /\ v \in {Nothing} \cup {u \in Pubs \X Sums : \E i \in from..Len(log) :
                              log[i].value \in Pubs \X Sums /\ log[i].value[1] = u[1]}
      BY <2>2 DEF May
    <3>2. CASE v = Nothing BY <3>1, <3>2 DEF Promise!Overtaken
    <3>3. CASE v # Nothing
      <4>1. PICK i \in from..Len(log) : log[i].value \in Pubs \X Sums /\ log[i].value[1] = v[1]
        BY <3>1, <3>3
      <4>2. v \in Pubs \X Sums BY <3>1, <3>3
      <4> DEFINE t == <<log[i].value, v>>
      <4>3. t \in (Pubs \X Sums) \X (Pubs \X Sums) /\ t[1] = log[i].value /\ t[2] = v
        BY <4>1, <4>2
      <4>4. t[1] \in Promise!Served(r) /\ t[1][1] = t[2][1] BY <4>1, <4>3, <1>5
      <4> HIDE DEF t
      <4>5. v \in Promise!Overtaken(r) BY <4>3, <4>4 DEF Promise!Overtaken
      <4> QED BY <3>1, <4>5
    <3> QED BY <3>2, <3>3
  <2> QED BY <2>1, <2>2
<1> QED BY <1>3, <1>4, <1>6 DEF Promise!Answer, Since, Answered

LEMMA NextPromise ==
    ASSUME Alone, PromiseInv, StoreInv', ReadsTyped', Next
    PROVE  [Promise!Next]_Promise!vars
<1>1. StoreInv /\ ReadsTyped BY DEF PromiseInv
<1>2. CASE \E w \in Writers : Save(w)
  <2>1. PICK w \in Writers : Save(w) BY <1>2
  <2>2. UNCHANGED <<backend, now, read>>
    BY <2>1
    DEF Save, Receive, Look, FileWrite, Insert, Compare, Unlink, Commit, ObjectPut, ObjectPoint,
        ObjectAudit, ResetCache
  <2>3. CASE Latest' = Latest
    <3>1. log' = log BY <2>3 DEF Next
    <3> QED BY <3>1, <2>2 DEF Promise!vars, Window
  <2>4. CASE Latest' # Latest
    <3>1. log' = Append(log, [value |-> Latest', at |-> now]) /\ Latest' \in Answers
      BY <2>4, <1>1, LogEffect
    <3>2. Latest' \in Pubs \X Sums
      BY <3>1, <2>1, <2>4, <1>1, SaveKeepsOne DEF Answers
    <3>3. Promise!Accept BY <3>1, <3>2, <2>2 DEF Promise!Accept, Promise!Entry, Window
    <3> QED BY <3>3 DEF Promise!Next
  <2> QED BY <2>3, <2>4
<1>3. CASE \E w \in Writers : Crash(w)
  <2>1. PICK w \in Writers : Crash(w) BY <1>3
  <2>2. UNCHANGED <<backend, rows, payloads, pointer, now>>
        /\ read' = [r \in Readers |-> IF Home[r] = w THEN IdleRead ELSE read[r]]
    BY <2>1 DEF Crash, store
  <2>3. Latest' = Latest BY <2>2 DEF Latest, Present, NewestRow, Rank, Newer
  <2>4. log' = log BY <2>3 DEF Next
  <2> DEFINE R == {r \in Readers : Home[r] = w}
  <2>5. IdleRead.stage = "idle" /\ IdleRead.since = 0 /\ IdleRead.value = Nothing BY DEF IdleRead
  <2>6. /\ \A r \in Readers : read'[r].since = IF r \in R THEN 0 ELSE read[r].since
        /\ \A r \in Readers : (IF read'[r].stage = "idle" THEN read'[r].value ELSE Nothing)
             = IF r \in R THEN Nothing ELSE IF read[r].stage = "idle" THEN read[r].value ELSE Nothing
    BY <2>2, <2>5
  <2>7. /\ Since' = [r \in Readers |-> IF r \in R THEN 0 ELSE Since[r]]
        /\ Answered' = [r \in Readers |-> IF r \in R THEN Nothing ELSE Answered[r]]
    BY <2>6 DEF Since, Answered
  <2>8. R \in SUBSET Readers OBVIOUS
  <2> HIDE DEF R
  <2>9. Promise!Forget BY <2>2, <2>4, <2>7, <2>8 DEF Promise!Forget, Since, Answered, Window
  <2> QED BY <2>9 DEF Promise!Next
<1>4. CASE \E r \in Readers : Read(r)
  <2>1. PICK r \in Readers : Read(r) BY <1>4
  <2>2. UNCHANGED <<backend, now, log>> /\ Window' = Window BY <1>1, <2>1, ReadLeavesStore
  <2>3. Reading(read[r]) BY DEF PromiseInv
  <2>4. ASSUME read[r].stage = "idle", NEW x \in ReadType, read' = [read EXCEPT ![r] = x],
               x.stage # "idle", x.since = Promise!Oldest(now - Window)
        PROVE  Promise!Begin(r)
    <3>1. Since' = [Since EXCEPT ![r] = Promise!Oldest(now - Window)]
          /\ Answered' = [Answered EXCEPT ![r] = Nothing]
      <4>1. Since' = [Since EXCEPT ![r] = x.since] BY <1>1, <2>4, ReadSeen
      <4>2. Answered' = [Answered EXCEPT ![r] = IF x.stage = "idle" THEN x.value ELSE Nothing]
        BY <1>1, <2>4, ReadSeen
      <4> QED BY <4>1, <4>2, <2>4
    <3>2. Since[r] = 0 BY <2>3, <2>4 DEF Since, Reading
    <3> QED BY <3>1, <3>2, <2>2 DEF Promise!Begin, Since, Answered
  <2>5. ASSUME read[r].stage # "idle", NEW x \in ReadType, read' = [read EXCEPT ![r] = x],
               x.stage # "idle", x.since = read[r].since
        PROVE  UNCHANGED Promise!vars
    <3>1. /\ Since' = [Since EXCEPT ![r] = read[r].since]
          /\ Answered' = [Answered EXCEPT ![r] = Nothing]
      BY <1>1, <2>5, ReadSeen
    <3>2. Since[r] = read[r].since /\ Answered[r] = Nothing BY <2>5 DEF Since, Answered
    <3>3. Since' = Since /\ Answered' = Answered BY <3>1, <3>2 DEF Since, Answered
    <3> QED BY <3>3, <2>2 DEF Promise!vars, Since, Answered
  <2>6. ASSUME read[r].stage # "idle", NEW v \in Answers, Answer(r, v), v \in May(read[r])
        PROVE  Promise!Answer(r)
    BY <1>1, <2>2, <2>3, <2>6, AnswerAllowed
  <2>7. Promise!Begin(r) \/ UNCHANGED Promise!vars \/ Promise!Answer(r)
    BY <2>1, <2>4, <2>5, <2>6, ReadIsGood
  <2> QED BY <2>7 DEF Promise!Next
<1>5. CASE Tick
  <2>1. now' = now + 1 /\ UNCHANGED <<backend, rows, payloads, pointer, read>> BY <1>5 DEF Tick, store
  <2>2. Latest' = Latest BY <2>1 DEF Latest, Present, NewestRow, Rank, Newer
  <2>3. log' = log BY <2>2 DEF Next
  <2>4. Promise!Tick BY <2>1, <2>3 DEF Promise!Tick, Window
  <2> QED BY <2>4 DEF Promise!Next
<1> QED BY <1>2, <1>3, <1>4, <1>5 DEF Next, Step

\* Where one server writes to each store that deletes, the stores implement LatestAccepted: a
\* read answers what was the latest within its window, or what retention has left of it.  Of
\* two servers on one database one may remove by an old selection what the other has accepted.
THEOREM PromiseKept ==
    ASSUME Alone
    PROVE  Spec => KeepsPromise
<1>1. PromiseInv /\ (StoreInv /\ ReadsTyped)' /\ [Next]_vars => [Promise!Next]_Promise!vars
  <2> SUFFICES ASSUME PromiseInv, StoreInv', ReadsTyped', [Next]_vars
               PROVE  [Promise!Next]_Promise!vars
    OBVIOUS
  <2>1. CASE Next BY <2>1, NextPromise
  <2>2. CASE UNCHANGED vars BY <2>2 DEF vars, Promise!vars, Window
  <2> QED BY <2>1, <2>2
<1> QED BY <1>1, InitPromise, SafeInvariant, PromiseInvariant, PTL DEF Spec, KeepsPromise, Promise!Spec
=============================================================================
