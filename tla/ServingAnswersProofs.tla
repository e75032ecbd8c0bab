------------------------- MODULE ServingAnswersProofs -------------------------
(* For any releases, clients, parameters and times, caches and bounds: what   *)
(* an answer is made of was still current when the request came, or shortly   *)
(* before; and when releases are complete before the next, are kept by two    *)
(* and more, and follow each other slower than a cached pointer and a request *)
(* last together, no reader looks for an object that retention has deleted,   *)
(* and none that could read what it requires is given the value of another    *)
(* hour.                                                                      *)
(*                                                                            *)
(* Two things are carried through the steps: since when the release that a    *)
(* thread or the cache holds has not been the active one, and that it stays   *)
(* complete until Gap has passed since then.                                  *)
EXTENDS ServingAnswers, FiniteSetTheorems, SequenceTheorems, TLAPS

LEMMA Apart ==
  ASSUME NEW S, NEW s \in Seq(S)
  PROVE  IsInjective(s) <=> \A j, k \in 1..Len(s) : s[j] = s[k] => j = k
  BY LenProperties DEF IsInjective

LEMMA RemovedOnce ==
  ASSUME NEW S, NEW s \in Seq(S), IsInjective(s), NEW e \in S
  PROVE  /\ RemoveFirst(s, e) \in Seq(S) /\ Len(RemoveFirst(s, e)) <= Len(s)
         /\ IsInjective(RemoveFirst(s, e))
         /\ \A j \in 1..Len(RemoveFirst(s, e)) : RemoveFirst(s, e)[j] # e
<1>1. CASE ~\E i \in 1..Len(s) : s[i] = e
  BY <1>1 DEF RemoveFirst
<1>2. CASE \E i \in 1..Len(s) : s[i] = e
  <2>1. PICK i \in 1..Len(s) : s[i] = e
    BY <1>2
  <2>2. {j \in 1..Len(s) : s[j] = e} = {i}
    BY <2>1 DEF IsInjective
  <2>3. RemoveFirst(s, e) = RemoveAt(s, i)
    <3>1. Min({i}) = i
      BY <2>1 DEF Min
    <3> QED
      BY <1>2, <2>2, <3>1 DEF RemoveFirst, SelectInSeq
  <2>4. PICK n \in Nat : n = Len(s) /\ i \in 1..n /\ \A j, k \in 1..n : s[j] = s[k] => j = k
    BY Apart
  <2>5. PICK a \in Seq(S) : /\ a = SubSeq(s, 1, i - 1) /\ Len(a) = i - 1
                            /\ \A j \in 1..(i - 1) : a[j] = s[j]
    <3>1. \A j \in 1..(i - 1) : s[j] \in S
      BY <2>4
    <3>2. 1 \in Int /\ i - 1 \in Int /\ i - 1 >= 0
      BY <2>4
    <3>3. /\ SubSeq(s, 1, i - 1) \in Seq(S)
          /\ Len(SubSeq(s, 1, i - 1)) = IF 1 <= i - 1 THEN i - 1 - 1 + 1 ELSE 0
          /\ \A j \in 1..(i - 1 - 1 + 1) : SubSeq(s, 1, i - 1)[j] = s[1 + j - 1]
      BY <3>1, <3>2, SubSeqProperties
    <3>4. \A j \in 1..(i - 1) : SubSeq(s, 1, i - 1)[j] = s[j]
      BY <3>3, <2>4
    <3>5. Len(SubSeq(s, 1, i - 1)) = i - 1
      BY <3>2, <3>3
    <3> DEFINE a == SubSeq(s, 1, i - 1)
    <3>6. a \in Seq(S) /\ a = SubSeq(s, 1, i - 1) /\ Len(a) = i - 1 /\ \A j \in 1..(i - 1) : a[j] = s[j]
      BY <3>3, <3>4, <3>5
    <3> HIDE DEF a
    <3> QED
      BY <3>6
  <2>6. PICK b \in Seq(S) : /\ b = SubSeq(s, i + 1, n) /\ Len(b) = n - i
                            /\ \A j \in 1..(n - i) : b[j] = s[i + j]
    <3>1. \A j \in (i + 1)..n : s[j] \in S
      BY <2>4
    <3>2. i + 1 \in Int /\ n \in Int /\ n - i >= 0
      BY <2>4
    <3>3. /\ SubSeq(s, i + 1, n) \in Seq(S)
          /\ Len(SubSeq(s, i + 1, n)) = IF i + 1 <= n THEN n - (i + 1) + 1 ELSE 0
          /\ \A j \in 1..(n - (i + 1) + 1) : SubSeq(s, i + 1, n)[j] = s[i + 1 + j - 1]
      BY <3>1, <3>2, SubSeqProperties
    <3>4. \A j \in 1..(n - i) : SubSeq(s, i + 1, n)[j] = s[i + j]
      BY <3>3, <2>4
    <3>5. Len(SubSeq(s, i + 1, n)) = n - i
      BY <3>2, <3>3, <2>4
    <3> DEFINE b == SubSeq(s, i + 1, n)
    <3>6. b \in Seq(S) /\ b = SubSeq(s, i + 1, n) /\ Len(b) = n - i /\ \A j \in 1..(n - i) : b[j] = s[i + j]
      BY <3>3, <3>4, <3>5
    <3> HIDE DEF b
    <3> QED
      BY <3>6
  <2>7. PICK r \in Seq(S) : /\ r = RemoveFirst(s, e) /\ Len(r) = n - 1
                            /\ \A j \in 1..(n - 1) : r[j] = IF j < i THEN s[j] ELSE s[j + 1]
    <3>1. /\ a \o b \in Seq(S) /\ Len(a \o b) = Len(a) + Len(b)
          /\ \A j \in 1..Len(a) + Len(b) : (a \o b)[j] = IF j <= Len(a) THEN a[j] ELSE b[j - Len(a)]
      BY ConcatProperties
    <3>2. a \o b = RemoveFirst(s, e)
      BY <2>3, <2>4, <2>5, <2>6 DEF RemoveAt
    <3>3. Len(a) + Len(b) = n - 1 /\ Len(a) = i - 1
      <4>1. Len(a) = i - 1 /\ Len(b) = n - i
        BY <2>5, <2>6
      <4> QED
        BY <2>4, <4>1
    <3>4. ASSUME NEW j \in 1..(n - 1) PROVE (a \o b)[j] = IF j < i THEN s[j] ELSE s[j + 1]
      <4>1. CASE j < i
        BY <2>4, <2>5, <3>1, <3>3, <4>1
      <4>2. CASE ~(j < i)
        <5>1. PICK m \in 1..(n - i) : m = j - (i - 1)
          BY <2>4, <4>2
        <5>2. (a \o b)[j] = b[m] /\ b[m] = s[i + m] /\ i + m = j + 1
          BY <2>4, <2>6, <3>1, <3>3, <4>2, <5>1
        <5> QED
          BY <4>2, <5>2
      <4> QED
        BY <4>1, <4>2
    <3> QED
      BY <3>1, <3>2, <3>3, <3>4
  <2>8. \A m \in 1..(n - 1) : \E p \in 1..n : p = (IF m < i THEN m ELSE m + 1) /\ r[m] = s[p]
    <3>1. SUFFICES ASSUME NEW m \in 1..(n - 1)
                   PROVE  \E p \in 1..n : p = (IF m < i THEN m ELSE m + 1) /\ r[m] = s[p]
      OBVIOUS
    <3>2. PICK p \in 1..n : p = IF m < i THEN m ELSE m + 1
      BY <2>4
    <3>3. r[m] = s[p]
      BY <2>7, <3>2
    <3> QED
      BY <3>2, <3>3
  <2>9. IsInjective(r)
    <3>1. SUFFICES ASSUME NEW j \in 1..(n - 1), NEW k \in 1..(n - 1), r[j] = r[k] PROVE j = k
      BY <2>7, Apart
    <3>2. PICK p \in 1..n : p = (IF j < i THEN j ELSE j + 1) /\ r[j] = s[p]
      BY <2>8
    <3>3. PICK q \in 1..n : q = (IF k < i THEN k ELSE k + 1) /\ r[k] = s[q]
      BY <2>8
    <3>4. p = q
      BY <2>4, <3>1, <3>2, <3>3
    <3>5. i \in Nat
      BY <2>4
    <3> QED
      BY <3>2, <3>3, <3>4, <3>5
  <2>10. \A j \in 1..Len(r) : r[j] # e
    <3>1. SUFFICES ASSUME NEW j \in 1..(n - 1) PROVE r[j] # e
      BY <2>7
    <3>2. PICK p \in 1..n : p = (IF j < i THEN j ELSE j + 1) /\ r[j] = s[p]
      BY <2>8
    <3>3. p # i
      BY <2>4, <3>2
    <3> QED
      BY <2>1, <2>4, <3>2, <3>3
  <2> QED
    BY <2>4, <2>7, <2>9, <2>10
<1> QED
  BY <1>1, <1>2

(* The cache of immutable objects stays a list of different keys within its limit. *)
LEMMA CacheBounded ==
  ASSUME NEW S, NEW s \in Seq(S), IsInjective(s), Len(s) <= CacheItems, NEW e \in S
  PROVE  /\ Recent(s, e) \in Seq(S) /\ Len(Recent(s, e)) <= CacheItems /\ IsInjective(Recent(s, e))
<1>1. PICK r \in Seq(S) : /\ r = RemoveFirst(s, e) /\ Len(r) <= Len(s) /\ IsInjective(r)
                          /\ \A j \in 1..Len(r) : r[j] # e
  BY RemovedOnce
<1>2. PICK all \in Seq(S) : /\ all = Append(r, e) /\ all # << >> /\ Len(all) = Len(r) + 1
                            /\ \A j \in 1..Len(r) : all[j] = r[j]
                            /\ all[Len(r) + 1] = e
  BY AppendProperties
<1>3. Len(r) \in Nat /\ \A j \in 1..Len(all) : all[j] = IF j <= Len(r) THEN r[j] ELSE e
  BY <1>2
<1>4. IsInjective(all)
  <2>1. \A j, k \in 1..Len(r) : r[j] = r[k] => j = k
    BY <1>1, Apart
  <2>2. \A j, k \in 1..Len(all) : all[j] = all[k] => j = k
    BY <1>1, <1>2, <1>3, <2>1
  <2> QED
    BY <2>2, Apart
<1>5. CacheItems \in Nat \ {0} /\ Len(s) \in Nat /\ Len(r) \in Nat
  BY ServingAnswersAssumption
<1>6. CASE Len(all) <= CacheItems
  BY <1>1, <1>2, <1>4, <1>5, <1>6 DEF Recent
<1>7. CASE Len(all) > CacheItems
  <2>1. PICK t \in Seq(S) : t = Tail(all) /\ Len(t) = Len(all) - 1
                            /\ \A j \in 1..Len(t) : t[j] = all[j + 1]
    <3>1. /\ Tail(all) \in Seq(S) /\ Len(Tail(all)) = Len(all) - 1
          /\ \A j \in 1..Len(Tail(all)) : Tail(all)[j] = all[j + 1]
      BY <1>2, HeadTailProperties
    <3> DEFINE t == Tail(all)
    <3>2. t \in Seq(S) /\ t = Tail(all) /\ Len(t) = Len(all) - 1 /\ \A j \in 1..Len(t) : t[j] = all[j + 1]
      BY <3>1
    <3> HIDE DEF t
    <3> QED
      BY <3>2
  <2>2. IsInjective(t)
    <3>1. \A j, k \in 1..Len(all) : all[j] = all[k] => j = k
      BY <1>4, Apart
    <3>2. ASSUME NEW j \in 1..Len(t), NEW k \in 1..Len(t), t[j] = t[k] PROVE j = k
      <4>1. t[j] = all[j + 1] /\ t[k] = all[k + 1] /\ j + 1 \in 1..Len(all) /\ k + 1 \in 1..Len(all)
        BY <1>2, <1>3, <2>1
      <4>2. j + 1 = k + 1
        BY <3>1, <3>2, <4>1
      <4> QED
        BY <4>2
    <3> QED
      BY <3>2, Apart
  <2>3. Recent(s, e) = t
    BY <1>1, <1>2, <1>7, <2>1 DEF Recent
  <2> QED
    BY <1>1, <1>2, <1>5, <2>1, <2>2, <2>3
<1> QED
  BY <1>2, <1>5, <1>6, <1>7

-----------------------------------------------------------------------------
(* Release r has been the active one at or after time t. *)
NamedSince(r, t) == r \in Releases /\ r <= active /\ (r = active \/ left[r] >= t)

(* A read x of a request that began at b: what it holds was active no longer *)
(* than Ttl before b, and what it has loaded, since it began to load.         *)
PlaceRecent(x, b) ==
    /\ x.since <= now
    /\ x.at \in {"rest", "check", "load"} => x.release = NoRelease
    /\ x.at \in {"store", "manifest", "surface", "got"} => x.release # NoRelease
    /\ x.release # NoRelease => NamedSince(x.release, b - Ttl)
    /\ x.at = "store" => NamedSince(x.release, x.since)
    /\ x.at \in {"load", "store"} => x.since >= b

PointerRecent(p) ==
    p.release # NoRelease => p.expires <= now + Ttl /\ NamedSince(p.release, p.expires - Ttl)

RequestRecent(q) ==
    /\ q.began <= now
    /\ \A v \in q.values : v.release # NoRelease => NamedSince(v.release, q.began - Ttl)

RecentInv ==
    /\ TypeOK
    /\ PointerRecent(pointer)
    /\ \A c \in Clients : RequestRecent(req[c]) /\ \A k \in Threads : PlaceRecent(thread[c][k], req[c].began)

Places == {"rest", "check", "load", "store", "manifest", "surface", "got", "none",
           "failed", "raised"}

Place == [at : Places, since : 0..MaxTime, release : Releases \cup {NoRelease}]

Request ==
    [stage : {"idle", "context", "validate", "select", "done", "failed"},
     kind : {"query", "timeline", "surface"}, wanted : SUBSET Parameters,
     time : Times \cup {0}, began : 0..MaxTime, snapshot : Snapshots \cup {{}},
     served : BOOLEAN, exact : BOOLEAN, unread : BOOLEAN,
     values : SUBSET [release : Releases \cup {NoRelease}, exact : BOOLEAN]]

LEMMA Numbers ==
  /\ Ttl \in Nat /\ Gap \in Nat /\ MaxTime \in Nat /\ MaxRequest \in Nat /\ MaxFaults \in Nat
  /\ Releases \subseteq Nat /\ NoRelease \notin Releases /\ NoRelease = 0
  /\ \A r \in Releases : r > NoRelease
  BY ServingAnswersAssumption DEF NoRelease

LEMMA Typed ==
  ASSUME TypeOK
  PROVE  /\ active \in Nat /\ now \in Nat /\ now <= MaxTime /\ moved \in Nat /\ faults \in Nat
         /\ pointer.release \in Releases \cup {NoRelease} /\ pointer.expires \in Nat
         /\ \A r \in Releases : left[r] \in Nat
         /\ thread \in [Clients -> [Threads -> Place]] /\ req \in [Clients -> Request]
<1>1. active \in Nat
  BY Numbers DEF TypeOK
<1>2. now \in Nat /\ now <= MaxTime /\ moved \in Nat /\ faults \in Nat /\ \A r \in Releases : left[r] \in Nat
  BY Numbers DEF TypeOK
<1>3. pointer.release \in Releases \cup {NoRelease} /\ pointer.expires \in Nat
  BY Numbers DEF TypeOK
<1>4. thread \in [Clients -> [Threads -> Place]]
  BY DEF TypeOK, Place, Places
<1>5. req \in [Clients -> Request]
  BY DEF TypeOK, Request
<1> QED
  BY <1>1, <1>2, <1>3, <1>4, <1>5

(* What was active since t stays so, though the pointer moves and time passes. *)
Onward ==
    \/ active' = active /\ left' = left /\ now' \in Nat /\ now <= now'
    \/ /\ active' \in Releases /\ active < active' /\ now' = now
       /\ left' = [r \in Releases |-> IF r = active THEN now ELSE left[r]]

LEMMA NamedStays ==
  ASSUME TypeOK, Onward, NEW r, NEW t \in Int, t <= now, NamedSince(r, t)
  PROVE  NamedSince(r, t)'
<1>1. r \in Releases /\ r \in Nat /\ active \in Nat /\ now \in Nat /\ left[r] \in Nat /\ r <= active
  BY Numbers, Typed DEF NamedSince
<1>2. CASE active' = active /\ left' = left
  BY <1>2 DEF NamedSince
<1>3. CASE /\ active' \in Releases /\ active < active'
           /\ left' = [q \in Releases |-> IF q = active THEN now ELSE left[q]]
  <2>1. active' \in Nat /\ r <= active'
    BY <1>1, <1>3, Numbers
  <2>2. left'[r] = IF r = active THEN now ELSE left[r]
    BY <1>1, <1>3
  <2>3. left'[r] >= t
    <3>1. CASE r = active
      BY <2>2, <3>1
    <3>2. CASE r # active
      BY <2>2, <3>2 DEF NamedSince
    <3> QED
      BY <3>1, <3>2
  <2> QED
    BY <1>1, <2>1, <2>3 DEF NamedSince
<1> QED
  BY <1>2, <1>3 DEF Onward

LEMMA PlaceStays ==
  ASSUME TypeOK, Onward, NEW x \in Place, NEW b \in 0..MaxTime, b <= now, PlaceRecent(x, b)
  PROVE  PlaceRecent(x, b)'
<1>1. now \in Nat /\ now' \in Nat /\ now <= now' /\ x.since \in Nat /\ Ttl \in Nat /\ b \in Nat
  BY Numbers, Typed DEF Onward, Place
<1>2. x.since <= now'
  BY <1>1 DEF PlaceRecent
<1>3. x.release # NoRelease => NamedSince(x.release, b - Ttl)'
  <2>1. b - Ttl \in Int /\ b - Ttl <= now
    BY <1>1
  <2> QED
    BY <2>1, NamedStays DEF PlaceRecent
<1>4. x.at = "store" => NamedSince(x.release, x.since)'
  <2>1. x.since \in Int /\ x.since <= now
    BY <1>1 DEF PlaceRecent
  <2> QED
    BY <2>1, NamedStays DEF PlaceRecent
<1> QED
  BY <1>2, <1>3, <1>4 DEF PlaceRecent

LEMMA PointerStays ==
  ASSUME TypeOK, Onward, NEW p, p.expires \in Nat, PointerRecent(p)
  PROVE  PointerRecent(p)'
<1>1. now \in Nat /\ now' \in Nat /\ now <= now' /\ Ttl \in Nat
  BY Numbers, Typed DEF Onward
<1>2. SUFFICES ASSUME p.release # NoRelease PROVE p.expires <= now' + Ttl /\ NamedSince(p.release, p.expires - Ttl)'
  BY DEF PointerRecent
<1>3. p.expires - Ttl \in Int /\ p.expires - Ttl <= now /\ p.expires <= now' + Ttl
  BY <1>1, <1>2 DEF PointerRecent
<1> QED
  BY <1>2, <1>3, NamedStays DEF PointerRecent

LEMMA RequestStays ==
  ASSUME TypeOK, Onward, NEW q \in Request, RequestRecent(q)
  PROVE  RequestRecent(q)'
<1>1. now \in Nat /\ now' \in Nat /\ now <= now' /\ Ttl \in Nat /\ q.began \in Nat
  BY Numbers, Typed DEF Onward, Request
<1>2. q.began - Ttl \in Int /\ q.began - Ttl <= now /\ q.began <= now'
  BY <1>1 DEF RequestRecent
<1> QED
  BY <1>2, NamedStays DEF RequestRecent

-----------------------------------------------------------------------------
(* Publication, retention and time. *)
LEMMA AroundShape ==
  ASSUME TypeOK, UploadNext \/ MovePointer \/ Retire \/ Tick
  PROVE  /\ Onward /\ UNCHANGED <<pointer, immutable, req, thread, lost, faults>>
         /\ objects' \subseteq Releases \X Parts /\ active' \in Releases \cup {NoRelease}
         /\ now' \in 0..MaxTime /\ moved' \in 0..MaxTime /\ left' \in [Releases -> 0..MaxTime]
<1>1. /\ objects \subseteq Releases \X Parts /\ active \in Releases \cup {NoRelease} /\ now \in 0..MaxTime
      /\ moved \in 0..MaxTime /\ left \in [Releases -> 0..MaxTime] /\ now \in Nat
      /\ active \in Nat /\ Releases \subseteq Nat /\ MaxTime \in Nat
  BY Numbers, Typed DEF TypeOK
<1>2. CASE UploadNext
  <2>1. PICK r \in Releases, part \in Parts : Upload(r, part)
    BY <1>2 DEF UploadNext
  <2>2. UNCHANGED <<active, now, pointer, immutable, req, thread, moved, left, lost, faults>>
        /\ objects' = objects \cup {<<r, part>>}
    BY <1>2, <2>1 DEF UploadNext, Upload, answers
  <2> QED
    BY <1>1, <2>2 DEF Onward
<1>3. CASE MovePointer
  <2>1. PICK r \in Releases : r > active /\ active' = r /\ objects' = objects
    BY <1>3 DEF MovePointer, Point
  <2>2. /\ left' = [q \in Releases |-> IF q = active THEN now ELSE left[q]] /\ moved' = now
        /\ UNCHANGED <<now, pointer, immutable, req, thread, lost, faults>>
    BY <1>3 DEF MovePointer
  <2>3. active < active' /\ active' \in Releases
    BY <1>1, <2>1
  <2>4. Onward
    BY <2>2, <2>3 DEF Onward
  <2>5. left' \in [Releases -> 0..MaxTime]
    BY <1>1, <2>2
  <2> QED
    BY <1>1, <2>1, <2>2, <2>3, <2>4, <2>5
<1>4. CASE Retire
  <2>1. PICK object \in objects : Delete(object)
    BY <1>4 DEF Retire
  <2>2. UNCHANGED <<active, now, pointer, immutable, req, thread, moved, left, lost, faults>>
        /\ objects' = objects \ {object}
    BY <1>4, <2>1 DEF Retire, Delete, answers
  <2> QED
    BY <1>1, <2>2 DEF Onward
<1>5. CASE Tick
  <2>1. now < MaxTime /\ now' = now + 1
        /\ UNCHANGED <<objects, active, pointer, immutable, req, thread, moved, left, lost, faults>>
    BY <1>5 DEF Tick, shelf
  <2>2. now' \in 0..MaxTime /\ now' \in Nat /\ now <= now'
    BY <1>1, <2>1
  <2> QED
    BY <1>1, <2>1, <2>2 DEF Onward
<1> QED
  BY <1>2, <1>3, <1>4, <1>5

LEMMA AroundKeeps ==
  ASSUME RecentInv, UploadNext \/ MovePointer \/ Retire \/ Tick
  PROVE  RecentInv'
<1>1. TypeOK /\ Onward /\ UNCHANGED <<pointer, immutable, req, thread, lost, faults>>
      /\ objects' \subseteq Releases \X Parts /\ active' \in Releases \cup {NoRelease}
      /\ now' \in 0..MaxTime /\ moved' \in 0..MaxTime /\ left' \in [Releases -> 0..MaxTime]
  BY AroundShape DEF RecentInv
<1>2. TypeOK'
  BY <1>1 DEF TypeOK
<1>3. PointerRecent(pointer)'
  <2>1. PICK p : p = pointer /\ p.expires \in Nat /\ PointerRecent(p)
    BY <1>1, Typed DEF RecentInv
  <2>2. PointerRecent(p)'
    BY <1>1, <2>1, PointerStays
  <2> QED
    BY <1>1, <2>1, <2>2 DEF PointerRecent
<1>4. ASSUME NEW c \in Clients
      PROVE  RequestRecent(req[c])' /\ \A k \in Threads : PlaceRecent(thread[c][k], req[c].began)'
  <2>1. PICK q \in Request : q = req[c] /\ RequestRecent(q)
    BY <1>1, Typed DEF RecentInv
  <2>2. RequestRecent(q)'
    BY <1>1, <2>1, RequestStays
  <2>3. ASSUME NEW k \in Threads PROVE PlaceRecent(thread[c][k], req[c].began)'
    <3>1. PICK x \in Place : x = thread[c][k] /\ PlaceRecent(x, q.began)
      BY <1>1, <2>1, Typed DEF RecentInv
    <3>2. q.began \in 0..MaxTime /\ q.began <= now
      BY <2>1 DEF Request, RequestRecent
    <3>3. PICK b : b = q.began
      OBVIOUS
    <3>4. PlaceRecent(x, b)'
      BY <1>1, <3>1, <3>2, <3>3, PlaceStays
    <3> QED
      BY <1>1, <2>1, <3>1, <3>3, <3>4 DEF PlaceRecent
  <2> QED
    BY <1>1, <2>1, <2>2, <2>3 DEF RequestRecent
<1> QED
  BY <1>2, <1>3, <1>4 DEF RecentInv

-----------------------------------------------------------------------------
(* Thread k of request c goes on with x. *)
Goes(c, k, x) == thread' = [thread EXCEPT ![c][k] = x] /\ Quiet

LEMMA OneGoes ==
  ASSUME TypeOK, NEW c \in Clients, NEW k \in Threads, NEW x \in Place, Goes(c, k, x)
  PROVE  /\ thread' \in [Clients -> [Threads -> Place]] /\ thread'[c][k] = x
         /\ \A d \in Clients : \A j \in Threads : (d = c /\ j = k) \/ thread'[d][j] = thread[d][j]
         /\ UNCHANGED <<objects, active, now, req, moved, left>>
<1>1. thread \in [Clients -> [Threads -> Place]]
  BY Typed
<1>2. PICK threads \in [Threads -> Place] : threads = [thread[c] EXCEPT ![k] = x]
  BY <1>1
<1>3. thread' = [thread EXCEPT ![c] = threads]
  BY <1>1, <1>2 DEF Goes
<1>4. thread' \in [Clients -> [Threads -> Place]] /\ thread'[c] = threads
      /\ \A d \in Clients : d # c => thread'[d] = thread[d]
  BY <1>1, <1>3
<1>5. threads[k] = x /\ \A j \in Threads : j # k => threads[j] = thread[c][j]
  BY <1>1, <1>2
<1> QED
  BY <1>4, <1>5 DEF Goes, Quiet, shelf

Cached ==
    \/ UNCHANGED <<immutable, lost>>
    \/ \E key \in Releases \X Parts : Fetch(key)

LEMMA CachedTyped ==
  ASSUME TypeOK, Cached
  PROVE  /\ immutable' \in Seq(Releases \X Parts) /\ Len(immutable') <= CacheItems /\ IsInjective(immutable')
         /\ lost' \subseteq Releases \X Parts
<1>1. /\ immutable \in Seq(Releases \X Parts) /\ Len(immutable) <= CacheItems /\ IsInjective(immutable)
      /\ lost \subseteq Releases \X Parts
  BY DEF TypeOK
<1>2. CASE UNCHANGED <<immutable, lost>>
  BY <1>1, <1>2
<1>3. ASSUME NEW key \in Releases \X Parts, Fetch(key)
      PROVE  /\ immutable' \in Seq(Releases \X Parts) /\ Len(immutable') <= CacheItems /\ IsInjective(immutable')
             /\ lost' \subseteq Releases \X Parts
  <2>1. /\ Recent(immutable, key) \in Seq(Releases \X Parts) /\ Len(Recent(immutable, key)) <= CacheItems
        /\ IsInjective(Recent(immutable, key))
    BY <1>1, CacheBounded
  <2>2. immutable' = immutable \/ immutable' = Recent(immutable, key)
    BY <1>3 DEF Fetch
  <2>3. lost' \subseteq lost \cup {key}
    BY <1>3 DEF Fetch
  <2> QED
    BY <1>1, <2>1, <2>2, <2>3
<1> QED
  BY <1>2, <1>3 DEF Cached

LEMMA GoesKeeps ==
  ASSUME RecentInv, NEW c \in Clients, NEW k \in Threads, NEW x \in Place, Goes(c, k, x),
         PlaceRecent(x, req[c].began), Cached, faults' \in 0..MaxFaults,
         pointer' \in [release : Releases \cup {NoRelease}, expires : 0..(MaxTime + Ttl)],
         PointerRecent(pointer')
  PROVE  RecentInv'
<1>1. TypeOK /\ thread' \in [Clients -> [Threads -> Place]] /\ thread'[c][k] = x
      /\ (\A d \in Clients : \A j \in Threads : (d = c /\ j = k) \/ thread'[d][j] = thread[d][j])
      /\ UNCHANGED <<objects, active, now, req, moved, left>>
  BY OneGoes DEF RecentInv
<1>2. TypeOK'
  BY <1>1, CachedTyped DEF TypeOK, Place, Places
<1>3. PointerRecent(pointer)'
  BY <1>1 DEF PointerRecent, NamedSince
<1>4. ASSUME NEW d \in Clients
      PROVE  RequestRecent(req[d])' /\ \A j \in Threads : PlaceRecent(thread[d][j], req[d].began)'
  <2>1. RequestRecent(req[d]) /\ \A j \in Threads : PlaceRecent(thread'[d][j], req[d].began)
    BY <1>1 DEF RecentInv
  <2> QED
    BY <1>1, <2>1 DEF RequestRecent, PlaceRecent, NamedSince
<1> QED
  BY <1>2, <1>3, <1>4 DEF RecentInv

(* The read that is under way. *)
LEMMA AtPlace ==
  ASSUME RecentInv, NEW c \in Clients, NEW k \in Threads
  PROVE  \E x \in Place : /\ x = thread[c][k] /\ PlaceRecent(x, req[c].began)
                          /\ req[c].began \in Nat /\ req[c].began <= now
<1>1. thread[c][k] \in Place /\ req[c] \in Request
  BY Typed DEF RecentInv
<1>2. PlaceRecent(thread[c][k], req[c].began) /\ RequestRecent(req[c])
  BY DEF RecentInv
<1> QED
  BY <1>1, <1>2 DEF Request, RequestRecent

LEMMA CheckPointerKeeps ==
  ASSUME RecentInv, NEW c \in Clients, NEW k \in Threads, CheckPointer(c, k)
  PROVE  RecentInv'
<1>1. PICK x \in Place : /\ x = thread[c][k] /\ PlaceRecent(x, req[c].began)
                         /\ req[c].began \in Nat /\ req[c].began <= now
  BY AtPlace
<1>2. TypeOK /\ x.at = "check" /\ x.release = NoRelease /\ Quiet /\ UNCHANGED <<pointer, immutable, lost, faults>>
  BY <1>1 DEF RecentInv, CheckPointer, PlaceRecent
<1>3. now \in 0..MaxTime /\ now \in Nat /\ Ttl \in Nat
  BY <1>2, Typed, Numbers DEF TypeOK
<1>4. PICK y \in Place : thread' = [thread EXCEPT ![c][k] = y] /\ PlaceRecent(y, req[c].began)
  <2>1. CASE pointer.release # NoRelease /\ pointer.expires >= now
    <3>1. PICK y : y = [at |-> "manifest", since |-> now, release |-> pointer.release]
      OBVIOUS
    <3>2. y \in Place /\ thread' = [thread EXCEPT ![c][k] = y]
      BY <1>2, <1>3, <2>1, <3>1, Typed DEF CheckPointer, Place, Places
    <3>3. NamedSince(pointer.release, req[c].began - Ttl)
      <4>1. NamedSince(pointer.release, pointer.expires - Ttl) /\ pointer.expires \in Nat
        BY <1>2, <2>1, Typed DEF RecentInv, PointerRecent
      <4>2. \A r \in Releases : left[r] \in Nat
        BY <1>2, Typed
      <4> QED
        BY <1>1, <1>3, <2>1, <4>1, <4>2 DEF NamedSince
    <3>4. PlaceRecent(y, req[c].began)
      BY <1>3, <2>1, <3>1, <3>3 DEF PlaceRecent
    <3> QED
      BY <3>2, <3>4
  <2>2. CASE ~(pointer.release # NoRelease /\ pointer.expires >= now)
    <3>1. PICK y : y = [x EXCEPT !.at = "load", !.since = now]
      OBVIOUS
    <3>2. y \in Place /\ y.at = "load" /\ y.since = now /\ y.release = NoRelease
      BY <1>2, <1>3, <3>1 DEF Place, Places
    <3>3. thread' = [thread EXCEPT ![c][k] = y]
      <4>1. thread' = [thread EXCEPT ![c][k].at = "load", ![c][k].since = now]
        BY <2>2 DEF CheckPointer
      <4>2. thread \in [Clients -> [Threads -> Place]]
        BY <1>2, Typed
      <4> QED
        BY <1>1, <3>1, <4>1, <4>2
    <3>4. PlaceRecent(y, req[c].began)
      BY <1>1, <1>3, <3>2 DEF PlaceRecent
    <3> QED
      BY <3>2, <3>3, <3>4
  <2> QED
    BY <2>1, <2>2
<1>5. PointerRecent(pointer') /\ Cached /\ faults' \in 0..MaxFaults
      /\ pointer' \in [release : Releases \cup {NoRelease}, expires : 0..(MaxTime + Ttl)]
  BY <1>2 DEF RecentInv, PointerRecent, Cached, TypeOK
<1> QED
  BY <1>2, <1>4, <1>5, GoesKeeps DEF Goes

(* What is loaded is the active release. *)
LEMMA LoadPointerKeeps ==
  ASSUME RecentInv, NEW c \in Clients, NEW k \in Threads, LoadPointer(c, k)
  PROVE  RecentInv'
<1>1. PICK x \in Place : /\ x = thread[c][k] /\ PlaceRecent(x, req[c].began)
                         /\ req[c].began \in Nat /\ req[c].began <= now
  BY AtPlace
<1>2. TypeOK /\ x.at = "load" /\ x.release = NoRelease /\ Quiet /\ UNCHANGED <<pointer, immutable, lost, faults>>
  BY <1>1 DEF RecentInv, LoadPointer, PlaceRecent
<1>3. active \in Releases \cup {NoRelease} /\ active \in Nat
  BY <1>2, Typed DEF TypeOK
<1>4. PICK y : y = [x EXCEPT !.at = IF active = NoRelease THEN "none" ELSE "store", !.release = active]
  OBVIOUS
<1>5. /\ y \in Place /\ y.at = IF active = NoRelease THEN "none" ELSE "store"
      /\ y.release = active /\ y.since = x.since
  BY <1>3, <1>4 DEF Place, Places
<1>6. thread' = [thread EXCEPT ![c][k] = y]
  <2>1. thread' = [thread EXCEPT ![c][k].at = IF active = NoRelease THEN "none" ELSE "store",
                                 ![c][k].release = active]
    BY DEF LoadPointer
  <2>2. thread \in [Clients -> [Threads -> Place]]
    BY <1>2, Typed
  <2> QED
    BY <1>1, <1>4, <2>1, <2>2
<1>7. PlaceRecent(y, req[c].began)
  <2>1. active # NoRelease => \A t : NamedSince(active, t)
    BY <1>3 DEF NamedSince
  <2> QED
    BY <1>1, <1>2, <1>5, <2>1 DEF PlaceRecent
<1>8. PointerRecent(pointer') /\ Cached /\ faults' \in 0..MaxFaults
      /\ pointer' \in [release : Releases \cup {NoRelease}, expires : 0..(MaxTime + Ttl)]
  BY <1>2 DEF RecentInv, PointerRecent, Cached, TypeOK
<1> QED
  BY <1>2, <1>5, <1>6, <1>7, <1>8, GoesKeeps DEF Goes

(* An older pointer may replace a newer one; it expires the earlier for that. *)
LEMMA StorePointerKeeps ==
  ASSUME RecentInv, NEW c \in Clients, NEW k \in Threads, StorePointer(c, k)
  PROVE  RecentInv'
<1>1. PICK x \in Place : /\ x = thread[c][k] /\ PlaceRecent(x, req[c].began)
                         /\ req[c].began \in Nat /\ req[c].began <= now
  BY AtPlace
<1>2. TypeOK /\ x.at = "store" /\ Quiet /\ UNCHANGED <<immutable, lost, faults>>
      /\ Step(c, k, "manifest") /\ pointer' = [release |-> x.release, expires |-> x.since + Ttl]
  BY <1>1 DEF RecentInv, StorePointer, Expiry
<1>3. PICK y : y = [x EXCEPT !.at = "manifest"]
  OBVIOUS
<1>4. y \in Place /\ y.at = "manifest" /\ y.release = x.release /\ y.since = x.since
  BY <1>3 DEF Place, Places
<1>5. thread' = [thread EXCEPT ![c][k] = y]
  BY <1>1, <1>2, <1>3 DEF Step
<1>6. PlaceRecent(y, req[c].began)
  BY <1>1, <1>2, <1>4 DEF PlaceRecent
<1>7. x.since \in Nat /\ x.since <= now /\ now \in Nat /\ now <= MaxTime /\ Ttl \in Nat /\ MaxTime \in Nat
      /\ x.release \in Releases \cup {NoRelease}
  BY <1>1, <1>2, Typed, Numbers DEF Place, PlaceRecent
<1>8. PICK e \in Nat : e = x.since + Ttl /\ e <= MaxTime + Ttl /\ e <= now + Ttl /\ e - Ttl = x.since
  BY <1>7
<1>9. pointer' = [release |-> x.release, expires |-> e]
  BY <1>2, <1>8
<1>10. pointer' \in [release : Releases \cup {NoRelease}, expires : 0..(MaxTime + Ttl)]
  BY <1>7, <1>8, <1>9
<1>11. PointerRecent(pointer')
  BY <1>1, <1>2, <1>8, <1>9 DEF PointerRecent, PlaceRecent
<1>12. Cached /\ faults' \in 0..MaxFaults
  BY <1>2 DEF Cached, TypeOK
<1> QED
  BY <1>2, <1>4, <1>5, <1>6, <1>10, <1>11, <1>12, GoesKeeps DEF Goes

(* From the manifest on, a thread keeps its release. *)
LEMMA FetchKeeps ==
  ASSUME RecentInv, NEW c \in Clients, NEW k \in Threads,
         ReadManifest(c, k) \/ ReadSurface(c, k) \/ ReadFails(c, k)
  PROVE  RecentInv'
<1>1. PICK x \in Place : /\ x = thread[c][k] /\ PlaceRecent(x, req[c].began)
                         /\ req[c].began \in Nat /\ req[c].began <= now
  BY AtPlace
<1>2. TypeOK /\ Quiet /\ pointer' = pointer /\ x.at \in {"load", "manifest", "surface"}
  BY <1>1 DEF RecentInv, ReadManifest, ReadSurface, ReadFails
<1>3. PICK at \in {"surface", "got", "none", "failed", "raised"} :
         Step(c, k, at) /\ (at \in {"surface", "got"} => x.at # "load")
  BY <1>1 DEF ReadManifest, ReadSurface, ReadFails, AfterManifest
<1>4. PICK y : y = [x EXCEPT !.at = at]
  OBVIOUS
<1>5. y \in Place /\ y.at = at /\ y.release = x.release /\ y.since = x.since
  BY <1>4 DEF Place, Places
<1>6. thread' = [thread EXCEPT ![c][k] = y]
  BY <1>1, <1>3, <1>4 DEF Step
<1>7. PlaceRecent(y, req[c].began)
  BY <1>1, <1>2, <1>3, <1>5 DEF PlaceRecent
<1>8. PointerRecent(pointer')
      /\ pointer' \in [release : Releases \cup {NoRelease}, expires : 0..(MaxTime + Ttl)]
  BY <1>2 DEF RecentInv, PointerRecent, TypeOK
<1>9. faults' \in 0..MaxFaults
  BY <1>2, Numbers DEF ReadManifest, ReadSurface, ReadFails, TypeOK
<1>10. Cached
  <2>1. CASE ReadFails(c, k)
    BY <2>1 DEF ReadFails, Cached
  <2>2. x.at # "load" => x.release \in Releases
    BY <1>1, <1>2 DEF Place, PlaceRecent
  <2>3. \A part \in Parts : x.at # "load" => <<x.release, part>> \in Releases \X Parts
    BY <2>2
  <2>4. CASE ReadManifest(c, k)
    BY <1>1, <2>3, <2>4 DEF ReadManifest, Cached, Parts
  <2>5. CASE ReadSurface(c, k)
    BY <1>1, <2>3, <2>5 DEF ReadSurface, Cached, Parts
  <2> QED
    BY <2>1, <2>4, <2>5
<1> QED
  BY <1>2, <1>5, <1>6, <1>7, <1>8, <1>9, <1>10, GoesKeeps DEF Goes

-----------------------------------------------------------------------------
(* Request c becomes q and its reads become places. *)
Turns(c, q, places) ==
    /\ req' = [req EXCEPT ![c] = q] /\ thread' = [thread EXCEPT ![c] = places]
    /\ Elsewhere

LEMMA TurnsTyped ==
  ASSUME TypeOK, NEW c \in Clients, NEW q \in Request, NEW places \in [Threads -> Place],
         Turns(c, q, places)
  PROVE  /\ req' \in [Clients -> Request] /\ thread' \in [Clients -> [Threads -> Place]]
         /\ req'[c] = q /\ thread'[c] = places
         /\ \A d \in Clients : d # c => req'[d] = req[d] /\ thread'[d] = thread[d]
         /\ UNCHANGED <<objects, active, now, pointer, immutable, moved, left, lost, faults>>
         /\ TypeOK'
<1>1. req \in [Clients -> Request] /\ thread \in [Clients -> [Threads -> Place]]
  BY Typed
<1>2. /\ req' \in [Clients -> Request] /\ thread' \in [Clients -> [Threads -> Place]]
      /\ req'[c] = q /\ thread'[c] = places
      /\ \A d \in Clients : d # c => req'[d] = req[d] /\ thread'[d] = thread[d]
      /\ UNCHANGED <<objects, active, now, pointer, immutable, moved, left, lost, faults>>
  BY <1>1 DEF Turns, Elsewhere, shelf
<1>3. TypeOK'
  BY <1>2 DEF TypeOK, Request, Place, Places
<1> QED
  BY <1>2, <1>3

LEMMA TurnsKeeps ==
  ASSUME RecentInv, NEW c \in Clients, NEW q \in Request, NEW places \in [Threads -> Place],
         Turns(c, q, places), RequestRecent(q), \A k \in Threads : PlaceRecent(places[k], q.began)
  PROVE  RecentInv'
<1>1. /\ TypeOK' /\ req'[c] = q /\ thread'[c] = places
      /\ \A d \in Clients : d # c => req'[d] = req[d] /\ thread'[d] = thread[d]
      /\ UNCHANGED <<objects, active, now, pointer, immutable, moved, left, lost, faults>>
  BY TurnsTyped DEF RecentInv
<1>2. PointerRecent(pointer)'
  BY <1>1 DEF RecentInv, PointerRecent, NamedSince
<1>3. ASSUME NEW d \in Clients
      PROVE  RequestRecent(req[d])' /\ \A j \in Threads : PlaceRecent(thread[d][j], req[d].began)'
  <2>1. RequestRecent(req'[d]) /\ \A j \in Threads : PlaceRecent(thread'[d][j], req'[d].began)
    BY <1>1 DEF RecentInv
  <2> QED
    BY <1>1, <2>1 DEF RequestRecent, PlaceRecent, NamedSince
<1> QED
  BY <1>1, <1>2, <1>3 DEF RecentInv

Checking == [Resting EXCEPT !.at = "check"]

LEMMA RestingPlaces ==
  /\ Resting \in Place /\ Resting.at = "rest" /\ Resting.release = NoRelease /\ Resting.since = 0
  /\ Checking \in Place /\ Checking.at = "check" /\ Checking.release = NoRelease /\ Checking.since = 0
  BY Numbers DEF Resting, Checking, Place, Places

LEMMA BeginsPlaces ==
  ASSUME TypeOK, NEW places \in [Threads -> Place], NEW running
  PROVE  /\ Begin(places, running) \in [Threads -> Place]
         /\ \A k \in Threads : Begin(places, running)[k] = IF k \in running THEN Checking ELSE places[k]
         /\ \A b : PlaceRecent(Resting, b) /\ PlaceRecent(Checking, b)
<1>1. now >= 0
  BY Typed
<1> QED
  BY <1>1, RestingPlaces DEF Begin, Checking, PlaceRecent

LEMMA ResettingPlaces ==
  ASSUME TypeOK
  PROVE  /\ [k \in Threads |-> Resting] \in [Threads -> Place]
         /\ \A b : \A k \in Threads : PlaceRecent([j \in Threads |-> Resting][k], b)
<1>1. now >= 0
  BY Typed
<1> QED
  BY <1>1, RestingPlaces DEF PlaceRecent

LEMMA StartShape ==
  ASSUME TypeOK, NEW c \in Clients, StartQuery(c) \/ StartOther(c)
  PROVE  \E q \in Request, running \in SUBSET Threads :
            /\ Turns(c, q, Begin([k \in Threads |-> Resting], running))
            /\ q.began = now /\ q.values = {} /\ ~Active(c)
            /\ q.stage \in {"context", "validate", "select"} /\ q.served = (active # NoRelease)
            /\ q.stage = "select" => q.kind = "timeline"
            /\ running = IF q.stage = "select" THEN q.wanted ELSE {"main"}
            /\ q.exact = FALSE /\ q.unread = FALSE /\ q.wanted \subseteq Parameters
<1>1. now \in 0..MaxTime /\ (active # NoRelease) \in BOOLEAN
  BY DEF TypeOK
<1>2. CASE StartQuery(c)
  <2>1. PICK wanted \in SUBSET Parameters \ {{}}, time \in Times, snapshot \in Snapshots :
          req' = [req EXCEPT ![c] =
            [NoRequest EXCEPT !.stage = IF snapshot = {} THEN "context" ELSE "validate",
                              !.kind = "query", !.wanted = wanted, !.time = time,
                              !.snapshot = snapshot, !.began = now,
                              !.served = active # NoRelease]]
    BY <1>2 DEF StartQuery
  <2>2. PICK q : q = [NoRequest EXCEPT !.stage = IF snapshot = {} THEN "context" ELSE "validate",
                              !.kind = "query", !.wanted = wanted, !.time = time,
                              !.snapshot = snapshot, !.began = now,
                              !.served = active # NoRelease]
    OBVIOUS
  <2>3. q \in Request /\ q.began = now /\ q.values = {} /\ q.stage \in {"context", "validate"}
        /\ q.served = (active # NoRelease) /\ q.exact = FALSE /\ q.unread = FALSE
        /\ q.wanted \subseteq Parameters
    BY <1>1, <2>2 DEF NoRequest, Request
  <2>4. Turns(c, q, Begin([k \in Threads |-> Resting], {"main"})) /\ ~Active(c)
    BY <1>2, <2>1, <2>2 DEF StartQuery, Turns
  <2>5. {"main"} \in SUBSET Threads
    BY DEF Threads
  <2> QED
    BY <2>3, <2>4, <2>5
<1>3. CASE StartOther(c)
  <2>1. PICK kind \in {"timeline", "surface"}, parameter \in Parameters, time \in Times :
          /\ req' = [req EXCEPT ![c] =
              [NoRequest EXCEPT !.stage = IF kind = "surface" THEN "validate" ELSE "select",
                                !.kind = kind, !.wanted = {parameter}, !.time = time,
                                !.began = now, !.served = active # NoRelease]]
          /\ thread' = [thread EXCEPT ![c] = Begin([k \in Threads |-> Resting],
                          IF kind = "surface" THEN {"main"} ELSE {parameter})]
    BY <1>3 DEF StartOther
  <2>2. PICK q : q = [NoRequest EXCEPT !.stage = IF kind = "surface" THEN "validate" ELSE "select",
                                !.kind = kind, !.wanted = {parameter}, !.time = time,
                                !.began = now, !.served = active # NoRelease]
    OBVIOUS
  <2>3. q \in Request /\ q.began = now /\ q.values = {} /\ q.wanted = {parameter} /\ q.kind = kind
        /\ q.stage = (IF kind = "surface" THEN "validate" ELSE "select")
        /\ q.served = (active # NoRelease) /\ q.exact = FALSE /\ q.unread = FALSE
    BY <1>1, <2>2 DEF NoRequest, Request
  <2>4. PICK running \in SUBSET Threads : running = IF kind = "surface" THEN {"main"} ELSE {parameter}
    BY DEF Threads
  <2>5. Turns(c, q, Begin([k \in Threads |-> Resting], running)) /\ ~Active(c)
    BY <1>3, <2>1, <2>2, <2>4 DEF StartOther, Turns
  <2> QED
    BY <2>3, <2>4, <2>5
<1> QED
  BY <1>2, <1>3

LEMMA StartKeeps ==
  ASSUME RecentInv, NEW c \in Clients, StartQuery(c) \/ StartOther(c)
  PROVE  RecentInv'
<1>1. TypeOK
  BY DEF RecentInv
<1>2. PICK q \in Request, running \in SUBSET Threads :
         /\ Turns(c, q, Begin([k \in Threads |-> Resting], running))
         /\ q.began = now /\ q.values = {}
  BY <1>1, StartShape
<1>3. PICK places \in [Threads -> Place] :
         /\ places = Begin([k \in Threads |-> Resting], running)
         /\ \A k \in Threads : PlaceRecent(places[k], q.began)
  <2>1. [k \in Threads |-> Resting] \in [Threads -> Place]
    BY <1>1, ResettingPlaces
  <2> QED
    BY <1>1, <2>1, BeginsPlaces
<1>4. RequestRecent(q)
  BY <1>1, <1>2, Typed DEF RequestRecent
<1> QED
  BY <1>2, <1>3, <1>4, TurnsKeeps

LEMMA GoOnShape ==
  ASSUME TypeOK, NEW c \in Clients, ContextRead(c) \/ Validated(c)
  PROVE  \E q \in Request, places \in [Threads -> Place] :
            /\ Turns(c, q, places)
            /\ \A k \in Threads : places[k] \in {thread[c][k], Checking}
            /\ q.began = req[c].began /\ q.values = req[c].values /\ q.served = req[c].served
            /\ q.kind = req[c].kind /\ q.time = req[c].time /\ q.wanted = req[c].wanted
            /\ \/ /\ ContextRead(c) /\ q.stage = "validate"
                  /\ req[c].stage = "context"
                  /\ places = Begin(thread[c], {"main"})
               \/ /\ ContextRead(c) /\ q.stage = "failed"
                  /\ req[c].stage = "context" /\ places = thread[c]
                  /\ thread[c]["main"].at \in {"none", "failed", "raised"}
               \/ /\ Validated(c) /\ q.stage = "select" /\ req[c].stage = "validate"
                  /\ q.exact = (thread[c]["main"].at = "got")
                  /\ q.unread = (thread[c]["main"].at = "failed")
                  /\ thread[c]["main"].at \in {"got", "none", "failed"}
                  /\ places = Begin(thread[c], req[c].wanted)
<1>1. PICK p \in Request, places \in [Threads -> Place] : p = req[c] /\ places = thread[c]
  BY Typed
<1>2. \A running : /\ Begin(places, running) \in [Threads -> Place]
                   /\ \A k \in Threads : Begin(places, running)[k] \in {places[k], Checking}
  BY BeginsPlaces
<1>3. req \in [Clients -> Request] /\ thread \in [Clients -> [Threads -> Place]]
  BY Typed
<1>4. CASE ContextRead(c) /\ thread[c]["main"].at = "got"
  <2>1. PICK q : q = [p EXCEPT !.stage = "validate"]
    OBVIOUS
  <2>2. q \in Request /\ q.stage = "validate"
        /\ q.began = p.began /\ q.values = p.values /\ q.served = p.served
        /\ q.kind = p.kind /\ q.time = p.time /\ q.wanted = p.wanted
    BY <2>1 DEF Request
  <2>3. Turns(c, q, Begin(places, {"main"})) /\ p.stage = "context"
    BY <1>1, <1>3, <1>4, <2>1 DEF ContextRead, Turns
  <2> QED
    BY <1>1, <1>2, <1>4, <2>2, <2>3
<1>5. CASE ContextRead(c) /\ thread[c]["main"].at # "got"
  <2>1. PICK q : q = [p EXCEPT !.stage = "failed"]
    OBVIOUS
  <2>2. q \in Request /\ q.stage = "failed"
        /\ q.began = p.began /\ q.values = p.values /\ q.served = p.served
        /\ q.kind = p.kind /\ q.time = p.time /\ q.wanted = p.wanted
    BY <2>1 DEF Request
  <2>3. thread' = [thread EXCEPT ![c] = places]
    BY <1>1, <1>3, <1>5 DEF ContextRead
  <2>4. Turns(c, q, places) /\ p.stage = "context" /\ thread[c]["main"].at \in {"none", "failed", "raised"}
    BY <1>1, <1>3, <1>5, <2>1, <2>3 DEF ContextRead, Turns
  <2> QED
    BY <1>1, <1>5, <2>2, <2>4
<1>6. CASE Validated(c)
  <2>1. PICK exact \in BOOLEAN, unread \in BOOLEAN :
          exact = (thread[c]["main"].at = "got") /\ unread = (thread[c]["main"].at = "failed")
    OBVIOUS
  <2>2. PICK q : q = [p EXCEPT !.stage = "select", !.exact = exact, !.unread = unread]
    OBVIOUS
  <2>3. q \in Request /\ q.stage = "select" /\ q.exact = exact /\ q.unread = unread
        /\ q.began = p.began /\ q.values = p.values /\ q.served = p.served
        /\ q.kind = p.kind /\ q.time = p.time /\ q.wanted = p.wanted
    BY <2>2 DEF Request
  <2>4. req' = [req EXCEPT ![c] = q]
    <3>1. req' = [req EXCEPT ![c].stage = "select", ![c].exact = exact, ![c].unread = unread]
      BY <1>6, <2>1 DEF Validated
    <3> QED
      BY <1>1, <1>3, <2>2, <3>1
  <2>5. Turns(c, q, Begin(places, p.wanted)) /\ p.stage = "validate"
        /\ thread[c]["main"].at \in {"got", "none", "failed"}
    BY <1>1, <1>3, <1>6, <2>4 DEF Validated, Turns
  <2> QED
    BY <1>1, <1>2, <1>6, <2>1, <2>3, <2>5
<1> QED
  BY <1>4, <1>5, <1>6

LEMMA GoOnKeeps ==
  ASSUME RecentInv, NEW c \in Clients, ContextRead(c) \/ Validated(c)
  PROVE  RecentInv'
<1>1. TypeOK
  BY DEF RecentInv
<1>2. PICK q \in Request, places \in [Threads -> Place] :
         /\ Turns(c, q, places)
         /\ \A k \in Threads : places[k] \in {thread[c][k], Checking}
         /\ q.began = req[c].began /\ q.values = req[c].values
  BY <1>1, GoOnShape
<1>3. RequestRecent(q)
  BY <1>2 DEF RecentInv, RequestRecent
<1>4. PlaceRecent(Checking, q.began)
  <2>1. now >= 0
    BY <1>1, Typed
  <2> QED
    BY <2>1, RestingPlaces DEF PlaceRecent
<1>5. \A k \in Threads : PlaceRecent(places[k], q.began)
  BY <1>2, <1>4 DEF RecentInv
<1> QED
  BY <1>2, <1>3, <1>5, TurnsKeeps

(* A value is a surface of the thread's release, or a station forecast. *)
LEMMA ValuesShape ==
  ASSUME TypeOK, NEW c \in Clients, NEW k \in Threads, NEW v \in ValuesOf(c, k)
  PROVE  /\ v \in [release : Releases \cup {NoRelease}, exact : BOOLEAN]
         /\ \/ /\ thread[c][k].at = "got" /\ v.release = thread[c][k].release
               /\ v.exact = Covers(thread[c][k].release, req[c].time)
            \/ /\ thread[c][k].at # "got" /\ req[c].kind = "query" /\ v.release = NoRelease
               /\ req[c].exact => v.exact
<1>1. PICK x \in Place : x = thread[c][k]
  BY Typed
<1>2. x.release \in Releases \cup {NoRelease}
  BY <1>1 DEF Place
<1>3. CASE x.at = "got"
  <2>1. v = Value(x.release, Covers(x.release, req[c].time))
    BY <1>1, <1>3 DEF ValuesOf
  <2>2. Covers(x.release, req[c].time) \in BOOLEAN
    BY DEF Covers
  <2> QED
    BY <1>1, <1>2, <1>3, <2>1, <2>2 DEF Value
<1>4. CASE x.at # "got"
  <2>1. req[c].kind = "query" /\ v \in StationValues(c)
    BY <1>1, <1>4 DEF ValuesOf
  <2>2. v = Value(NoRelease, TRUE) \/ (v = Value(NoRelease, FALSE) /\ ~req[c].exact)
    BY <2>1 DEF StationValues
  <2>3. v \in [release : Releases \cup {NoRelease}, exact : BOOLEAN] /\ v.release = NoRelease
    <3>1. PICK exact \in BOOLEAN : v = Value(NoRelease, exact)
      BY <2>2
    <3> QED
      BY <3>1 DEF Value
  <2>4. ASSUME req[c].exact PROVE v.exact
    <3>1. v = Value(NoRelease, TRUE)
      BY <2>2, <2>4
    <3> QED
      BY <3>1 DEF Value
  <2> QED
    BY <1>1, <1>4, <2>1, <2>3, <2>4
<1> QED
  BY <1>3, <1>4

LEMMA RespondShape ==
  ASSUME TypeOK, NEW c \in Clients, Respond(c)
  PROVE  /\ req[c].stage = "select"
         /\ \E q \in Request :
            /\ Turns(c, q, [k \in Threads |-> Resting])
            /\ q.began = req[c].began /\ q.served = req[c].served
            /\ q.exact = req[c].exact /\ q.unread = req[c].unread
            /\ q.kind = req[c].kind /\ q.wanted = req[c].wanted /\ q.time = req[c].time
            /\ q.stage \in {"done", "failed"}
            /\ \A v \in q.values : \/ v \in req[c].values
                                  \/ \E k \in req[c].wanted : v \in ValuesOf(c, k)
<1>1. PICK p \in Request : p = req[c] /\ p.stage = "select"
  BY Typed DEF Respond
<1>2. req \in [Clients -> Request] /\ thread \in [Clients -> [Threads -> Place]]
  BY Typed
<1>3. p.wanted \subseteq Threads
  BY DEF Request, Threads
<1>4. PICK V : V = UNION {ValuesOf(c, k) : k \in p.wanted}
  OBVIOUS
<1>5. V \subseteq [release : Releases \cup {NoRelease}, exact : BOOLEAN]
  BY <1>3, <1>4, ValuesShape
<1>6. CASE req' = [req EXCEPT ![c].stage = "failed"]
  <2>1. PICK q : q = [p EXCEPT !.stage = "failed"]
    OBVIOUS
  <2>2. q \in Request /\ q.began = p.began /\ q.served = p.served
        /\ q.exact = p.exact /\ q.unread = p.unread
        /\ q.kind = p.kind /\ q.wanted = p.wanted /\ q.time = p.time
        /\ q.stage = "failed" /\ q.values = p.values
    BY <2>1 DEF Request
  <2>3. Turns(c, q, [k \in Threads |-> Resting])
    BY <1>1, <1>2, <1>6, <2>1 DEF Respond, Turns
  <2> QED
    BY <1>1, <2>2, <2>3
<1>7. CASE req' = [req EXCEPT ![c].stage = "done",
                               ![c].values = UNION {ValuesOf(c, k) : k \in req[c].wanted}]
  <2>1. PICK q : q = [p EXCEPT !.stage = "done", !.values = V]
    OBVIOUS
  <2>2. q \in Request /\ q.began = p.began /\ q.served = p.served
        /\ q.exact = p.exact /\ q.unread = p.unread
        /\ q.kind = p.kind /\ q.wanted = p.wanted /\ q.time = p.time
        /\ q.stage = "done" /\ q.values = V
    BY <1>5, <2>1 DEF Request
  <2>3. req' = [req EXCEPT ![c] = q]
    <3>1. req' = [req EXCEPT ![c].stage = "done", ![c].values = V]
      BY <1>1, <1>4, <1>7
    <3> QED
      BY <1>1, <1>2, <2>1, <3>1
  <2>4. Turns(c, q, [k \in Threads |-> Resting])
    BY <2>3 DEF Respond, Turns
  <2>5. \A v \in q.values : \E k \in p.wanted : v \in ValuesOf(c, k)
    BY <1>4, <2>2
  <2> QED
    BY <1>1, <2>2, <2>4, <2>5
<1> QED
  BY <1>6, <1>7 DEF Respond

LEMMA RespondKeeps ==
  ASSUME RecentInv, NEW c \in Clients, Respond(c)
  PROVE  RecentInv'
<1>1. TypeOK
  BY DEF RecentInv
<1>2. PICK q \in Request :
         /\ Turns(c, q, [k \in Threads |-> Resting])
         /\ q.began = req[c].began
         /\ \A v \in q.values : v \in req[c].values \/ \E k \in req[c].wanted : v \in ValuesOf(c, k)
  BY <1>1, RespondShape
<1>3. PICK places \in [Threads -> Place] : /\ places = [k \in Threads |-> Resting]
                                           /\ \A k \in Threads : PlaceRecent(places[k], q.began)
  BY <1>1, ResettingPlaces
<1>4. req[c].wanted \subseteq Threads
  BY <1>1, Typed DEF Request, Threads
<1>5. ASSUME NEW v \in q.values, v.release # NoRelease
      PROVE  NamedSince(v.release, q.began - Ttl)
  <2>1. CASE v \in req[c].values
    BY <1>2, <1>5, <2>1 DEF RecentInv, RequestRecent
  <2>2. CASE \E k \in req[c].wanted : v \in ValuesOf(c, k)
    <3>1. PICK k \in Threads : v \in ValuesOf(c, k)
      BY <1>4, <2>2
    <3>2. v.release = thread[c][k].release
      BY <1>1, <1>5, <3>1, ValuesShape
    <3>3. PlaceRecent(thread[c][k], req[c].began)
      BY <3>1 DEF RecentInv
    <3> QED
      BY <1>2, <1>5, <3>2, <3>3 DEF PlaceRecent
  <2> QED
    BY <1>2, <2>1, <2>2
<1>6. RequestRecent(q)
  BY <1>2, <1>5 DEF RecentInv, RequestRecent
<1> QED
  BY <1>2, <1>3, <1>6, TurnsKeeps

LEMMA RecentInit ==
  Init => RecentInv
<1> SUFFICES ASSUME Init PROVE RecentInv
  OBVIOUS
<1>1. /\ objects = {} /\ active = NoRelease /\ now = 0 /\ pointer = [release |-> NoRelease, expires |-> 0]
      /\ immutable = << >> /\ moved = 0 /\ left = [r \in Releases |-> 0] /\ lost = {} /\ faults = 0
      /\ req = [c \in Clients |-> NoRequest]
      /\ thread = [c \in Clients |-> [k \in Threads |-> Resting]]
  BY DEF Init, EmptyShelf, Nothing
<1>2. NoRequest \in Request /\ NoRequest.began = 0 /\ NoRequest.values = {}
  BY Numbers DEF NoRequest, Request
<1>3. MaxTime \in Nat /\ Ttl \in Nat /\ MaxFaults \in Nat /\ CacheItems \in Nat /\ MaxTime + Ttl \in Nat
  BY ServingAnswersAssumption, Numbers
<1>4. TypeOK
  <2>1. thread \in [Clients -> [Threads -> Place]] /\ req \in [Clients -> Request]
    BY <1>1, <1>2, RestingPlaces
  <2>2. immutable \in Seq(Releases \X Parts) /\ Len(immutable) <= CacheItems /\ IsInjective(immutable)
    BY <1>1, <1>3 DEF IsInjective
  <2>3. pointer \in [release : Releases \cup {NoRelease}, expires : 0..(MaxTime + Ttl)]
    BY <1>1, <1>3
  <2>4. now \in 0..MaxTime /\ moved \in 0..MaxTime /\ left \in [Releases -> 0..MaxTime] /\ faults \in 0..MaxFaults
    BY <1>1, <1>3
  <2>5. objects \subseteq Releases \X Parts /\ active \in Releases \cup {NoRelease} /\ lost \subseteq Releases \X Parts
    BY <1>1
  <2> QED
    BY <2>1, <2>2, <2>3, <2>4, <2>5 DEF TypeOK, Request, Place, Places
<1>5. PointerRecent(pointer) /\ \A c \in Clients : RequestRecent(req[c])
  BY <1>1, <1>2 DEF PointerRecent, RequestRecent
<1>6. \A b : PlaceRecent(Resting, b)
  BY <1>1, RestingPlaces DEF PlaceRecent
<1> QED
  BY <1>1, <1>4, <1>5, <1>6 DEF RecentInv

LEMMA RecentStays ==
  ASSUME RecentInv, UNCHANGED vars
  PROVE  RecentInv'
<1>1. UNCHANGED <<objects, active, now, pointer, immutable, req, thread, moved, left, lost, faults>>
  BY DEF vars, shelf, answers
<1>2. TypeOK'
  BY <1>1 DEF RecentInv, TypeOK
<1>3. PointerRecent(pointer)'
  BY <1>1 DEF RecentInv, PointerRecent, NamedSince
<1>4. \A c \in Clients : RequestRecent(req[c])' /\ \A k \in Threads : PlaceRecent(thread[c][k], req[c].began)'
  BY <1>1 DEF RecentInv, RequestRecent, PlaceRecent, NamedSince
<1> QED
  BY <1>2, <1>3, <1>4 DEF RecentInv

LEMMA RecentSteps ==
  ASSUME RecentInv, [Next]_vars
  PROVE  RecentInv'
<1>1. CASE UploadNext \/ MovePointer \/ Retire \/ Tick
  BY <1>1, AroundKeeps
<1>2. ASSUME NEW c \in Clients, StartQuery(c) \/ StartOther(c) \/ ContextRead(c) \/ Validated(c) \/ Respond(c)
      PROVE  RecentInv'
  BY <1>2, StartKeeps, GoOnKeeps, RespondKeeps
<1>3. ASSUME NEW c \in Clients, NEW k \in Threads, Read(c, k) \/ ReadFails(c, k)
      PROVE  RecentInv'
  BY <1>3, CheckPointerKeeps, LoadPointerKeeps, StorePointerKeeps, FetchKeeps DEF Read
<1>4. CASE UNCHANGED vars
  BY <1>4, RecentStays
<1> QED
  BY <1>1, <1>2, <1>3, <1>4 DEF Next

-----------------------------------------------------------------------------
(* Whatever releases come and go and reads fail: every value of an answer    *)
(* comes from a release that serving/latest.json still named no longer than  *)
(* Ttl before the request began (_cached_pointer), even when a thread stores *)
(* an older pointer over a newer one.                                        *)
THEOREM AnswersRecent == Spec => []AnswerIsRecent
<1>1. RecentInv => AnswerIsRecent
  BY DEF RecentInv, RequestRecent, NamedSince, AnswerIsRecent
<1>2. RecentInv /\ [Next]_vars => RecentInv'
  BY RecentSteps
<1> QED
  BY <1>1, <1>2, RecentInit, PTL DEF Spec

-----------------------------------------------------------------------------
(* What a reader is sent to: a release is complete while the pointer names it *)
(* and until Gap has passed since then.                                       *)
Stays(r) == Complete(r) \/ (r # active /\ left[r] + Gap <= now)

(* Of what is stored, one release at most is newer than the pointer, and the  *)
(* older ones have been active, one after the other, for Gap each.            *)
ShelfInv ==
    /\ active # NoRelease => Complete(active)
    /\ \A q, w \in Listed : q > active /\ w > active => q = w
    /\ \A q, w \in Listed : q < w /\ w < active => left[q] + Gap <= left[w]
    /\ \A q \in Listed : q < active => left[q] <= moved
    /\ moved <= now

Holds(x) == x.release # NoRelease => Stays(x.release)

(* Who reads when: the thread of the request first, then those of its parameters. *)
Where(k, x, q) ==
    /\ k = "main" /\ x.at \in {"check", "load", "store", "manifest", "surface"} =>
          q.stage \in {"context", "validate"}
    /\ k # "main" /\ x.at # "rest" => q.stage = "select" /\ k \in q.wanted

(* A surface that is read is of the wrong hour only when that was not excluded. *)
Chosen(k, x, q) ==
    k # "main" /\ x.at \in {"surface", "got"} =>
        Covers(x.release, q.time) \/ (q.kind = "surface" /\ ~q.exact) \/ q.kind = "timeline"

(* A request that came after the first release finds a manifest if the store answers. *)
Reached(k, x, q) == k = "main" /\ q.served => x.at # "none"

Known(q) ==
    /\ q.stage \in {"context", "validate", "select"} => now <= q.began + MaxRequest
    /\ q.served => active # NoRelease
    /\ q.stage \in {"context", "validate"} => q.values = {}
    /\ q.stage = "select" /\ q.served => q.kind = "timeline" \/ q.exact \/ q.unread
    /\ q.served /\ q.kind # "timeline" /\ ~q.unread => \A v \in q.values : v.exact

FoundInv ==
    /\ ShelfInv /\ lost = {} /\ Holds(pointer)
    /\ \A c \in Clients :
        /\ Known(req[c])
        /\ \A k \in Threads : /\ Holds(thread[c][k])
                              /\ Where(k, thread[c][k], req[c])
                              /\ Chosen(k, thread[c][k], req[c])
                              /\ Reached(k, thread[c][k], req[c])

(* Retention and time against the readers' needs. *)
LEMMA ListedTyped ==
  ASSUME TypeOK
  PROVE  /\ Listed \subseteq Releases
         /\ \A q \in Releases : q \in Nat /\ left[q] \in Nat
         /\ active \in Nat /\ now \in Nat /\ moved \in Nat /\ Gap \in Nat
         /\ \A r : Complete(r) => r \in Listed
<1>1. \A object \in objects : object[1] \in Releases
  BY DEF TypeOK
<1>2. \A r : Complete(r) => <<r, "manifest">> \in objects
  BY DEF Complete, Parts
<1>3. Listed \subseteq Releases
  BY <1>1 DEF Listed
<1>4. ASSUME NEW r, Complete(r) PROVE r \in Listed
  <2>1. <<r, "manifest">> \in objects /\ <<r, "manifest">>[1] = r
    BY <1>2, <1>4
  <2> QED
    BY <2>1 DEF Listed
<1>5. \A q \in Releases : q \in Nat /\ left[q] \in Nat
  BY Typed, Numbers
<1> QED
  BY <1>3, <1>4, <1>5, Typed, Numbers

(* An object is deleted only when its release has not been active for Gap. *)
LEMMA DeletedIsOld ==
  ASSUME TypeOK, ShelfInv, Keep >= 2, ~CutShort, WholeBut(active),
         NEW object \in objects, Delete(object)
  PROVE  object[1] # active /\ left[object[1]] + Gap <= now
<1>1. PICK r \in Releases : r = object[1] /\ r \in Listed /\ r # active
  BY ListedTyped DEF Listed, Delete
<1>2. PICK later : later = {q \in Listed : q > r}
  OBVIOUS
<1>3. Cardinality(later) >= Keep
  BY <1>1, <1>2 DEF Delete
<1>4. \A q \in later : q \in Nat /\ q <= active
  BY <1>2, ListedTyped DEF WholeBut
<1>5. PICK w \in later : w # active
  <2>1. SUFFICES ASSUME later \subseteq {active} PROVE FALSE
    OBVIOUS
  <2>2. IsFiniteSet({active}) /\ Cardinality({active}) = 1
    BY FS_Singleton
  <2>3. Cardinality(later) <= 1 /\ Cardinality(later) \in Nat
    BY <2>1, <2>2, FS_Subset, FS_CardinalityType
  <2>4. Keep \in Nat
    BY ServingAnswersAssumption
  <2> QED
    BY <1>3, <2>3, <2>4
<1>6. w \in Listed /\ r < w /\ w < active
  BY <1>1, <1>2, <1>4, <1>5, ListedTyped
<1>7. left[r] + Gap <= left[w] /\ left[w] <= moved /\ moved <= now
  BY <1>1, <1>6 DEF ShelfInv
<1>8. left[r] \in Nat /\ left[w] \in Nat /\ moved \in Nat /\ now \in Nat /\ Gap \in Nat
  BY <1>1, <1>6, ListedTyped
<1> QED
  BY <1>1, <1>7, <1>8

LEMMA UploadOnShelf ==
  ASSUME TypeOK, ShelfInv, ~CutShort, UploadNext
  PROVE  ShelfInv' /\ \A r \in Releases : r <= active /\ Stays(r) => Stays(r)'
<1>1. PICK r \in Releases, part \in Parts : r > active /\ WholeBut(r) /\ Upload(r, part)
  BY DEF UploadNext
<1>2. objects' = objects \cup {<<r, part>>} /\ UNCHANGED <<active, now, moved, left>>
  BY <1>1 DEF UploadNext, Upload, answers
<1>3. Listed' \subseteq Listed \cup {r}
  BY <1>2 DEF Listed
<1>4. \A q \in Listed : q <= active \/ q = r
  BY <1>1 DEF WholeBut
<1>5. \A q : Complete(q) => Complete(q)'
  BY <1>2 DEF Complete
<1>6. \A q \in Listed : q \in Nat
  BY ListedTyped
<1>7. r \in Nat /\ active \in Nat
  BY ListedTyped
<1>8. \A q, w \in Listed' : q > active /\ w > active => q = w
  BY <1>3, <1>4, <1>6, <1>7
<1>9. \A q \in Listed' : q < active => q \in Listed
  BY <1>1, <1>3, <1>7
<1>10. \A q, w \in Listed' : q < w /\ w < active => q \in Listed /\ w \in Listed
  BY <1>1, <1>3, <1>6, <1>7
<1> QED
  BY <1>2, <1>5, <1>8, <1>9, <1>10 DEF ShelfInv, Stays

LEMMA MoveOnShelf ==
  ASSUME TypeOK, ShelfInv, MovePointer
  PROVE  ShelfInv' /\ \A r \in Releases : r <= active /\ Stays(r) => Stays(r)'
<1>1. PICK r \in Releases : r > active /\ Point(r)
  BY DEF MovePointer
<1>2. /\ active' = r /\ Complete(r) /\ objects' = objects /\ now' = now /\ moved' = now
      /\ active # NoRelease => now >= moved + Gap
      /\ left' = [q \in Releases |-> IF q = active THEN now ELSE left[q]]
  BY <1>1 DEF MovePointer, Point
<1>3. /\ Listed' = Listed /\ \A q : Complete(q)' <=> Complete(q)
  BY <1>2 DEF Listed, Complete
<1>4. /\ r \in Listed /\ r \in Nat /\ active \in Nat /\ now \in Nat /\ moved \in Nat /\ Gap \in Nat
      /\ \A q \in Releases : q \in Nat /\ left[q] \in Nat
      /\ Listed \subseteq Releases
  BY <1>2, ListedTyped
<1>5. \A q \in Listed : q <= active \/ q = r
  BY <1>1, <1>4 DEF ShelfInv
<1>6. \A q \in Releases : left'[q] = IF q = active THEN now ELSE left[q]
  BY <1>2
<1>7. \A q, w \in Listed : q > r /\ w > r => q = w
  BY <1>1, <1>4, <1>5
<1>8. ASSUME NEW q \in Listed, NEW w \in Listed, q < w, w < r PROVE left'[q] + Gap <= left'[w]
  <2>1. q \in Nat /\ w \in Nat /\ w <= active /\ q < active /\ left[q] \in Nat /\ left[w] \in Nat
        /\ left'[q] = left[q]
    BY <1>4, <1>5, <1>6, <1>8
  <2>2. CASE w = active
    <3>1. left'[w] = now /\ w # NoRelease /\ left[q] <= moved
      BY <1>4, <1>6, <2>1, <2>2, Numbers DEF ShelfInv
    <3> QED
      BY <1>2, <1>4, <2>1, <2>2, <3>1
  <2>3. CASE w # active
    <3>1. left'[w] = left[w] /\ w < active
      BY <1>4, <1>6, <2>1, <2>3
    <3> QED
      BY <1>8, <2>1, <3>1 DEF ShelfInv
  <2> QED
    BY <2>2, <2>3
<1>9. ASSUME NEW q \in Listed, q < r PROVE left'[q] <= now
  <2>1. q \in Nat /\ q <= active /\ left[q] \in Nat
    BY <1>4, <1>5, <1>9
  <2>2. CASE q = active
    BY <1>4, <1>6, <2>2
  <2>3. CASE q # active
    <3>1. left'[q] = left[q] /\ left[q] <= moved /\ moved <= now
      BY <1>4, <1>6, <2>1, <2>3 DEF ShelfInv
    <3> QED
      BY <1>4, <2>1, <3>1
  <2> QED
    BY <2>2, <2>3
<1>10. ShelfInv'
  <2>1. Complete(active)'
    BY <1>2 DEF Complete
  <2>2. \A q, w \in Listed' : q > active' /\ w > active' => q = w
    BY <1>2, <1>3, <1>7
  <2>3. \A q, w \in Listed' : q < w /\ w < active' => left'[q] + Gap <= left'[w]
    BY <1>2, <1>3, <1>8
  <2>4. \A q \in Listed' : q < active' => left'[q] <= moved'
    BY <1>2, <1>3, <1>9
  <2>5. moved' <= now'
    BY <1>2, <1>4
  <2> QED
    BY <2>1, <2>2, <2>3, <2>4, <2>5 DEF ShelfInv
<1>11. ASSUME NEW q \in Releases, q <= active, Stays(q) PROVE Stays(q)'
  <2>1. CASE Complete(q)
    BY <1>3, <2>1 DEF Stays
  <2>2. CASE q # active /\ left[q] + Gap <= now
    <3>1. q # r /\ left'[q] = left[q]
      BY <1>1, <1>4, <1>6, <1>11, <2>2
    <3> QED
      BY <1>2, <2>2, <3>1 DEF Stays
  <2> QED
    BY <1>11, <2>1, <2>2 DEF Stays
<1> QED
  BY <1>10, <1>11

LEMMA RetireOnShelf ==
  ASSUME TypeOK, ShelfInv, Keep >= 2, ~CutShort, Retire
  PROVE  ShelfInv' /\ \A r \in Releases : r <= active /\ Stays(r) => Stays(r)'
<1>1. PICK object \in objects : WholeBut(active) /\ Delete(object)
  BY DEF Retire
<1>2. objects' = objects \ {object} /\ UNCHANGED <<active, now, moved, left>>
  BY <1>1 DEF Retire, Delete, answers
<1>3. object[1] # active /\ left[object[1]] + Gap <= now
  BY <1>1, DeletedIsOld
<1>4. Listed' \subseteq Listed
  BY <1>2 DEF Listed
<1>5. \A q : q # object[1] /\ Complete(q) => Complete(q)'
  BY <1>2 DEF Complete
<1>6. ShelfInv'
  BY <1>2, <1>3, <1>4, <1>5 DEF ShelfInv
<1>7. \A q \in Releases : Stays(q) => Stays(q)'
  BY <1>2, <1>3, <1>5 DEF Stays
<1> QED
  BY <1>6, <1>7

LEMMA TickOnShelf ==
  ASSUME TypeOK, ShelfInv, Tick
  PROVE  ShelfInv' /\ \A r \in Releases : r <= active /\ Stays(r) => Stays(r)'
<1>1. now' = now + 1 /\ UNCHANGED <<objects, active, moved, left>>
  BY DEF Tick, shelf
<1>2. Listed' = Listed /\ \A q : Complete(q)' <=> Complete(q)
  BY <1>1 DEF Listed, Complete
<1>3. now \in Nat /\ moved \in Nat /\ Gap \in Nat /\ \A q \in Releases : left[q] \in Nat
  BY ListedTyped
<1>4. moved <= now'
  BY <1>1, <1>3 DEF ShelfInv
<1>5. ShelfInv'
  BY <1>1, <1>2, <1>4 DEF ShelfInv
<1>6. \A q \in Releases : Stays(q) => Stays(q)'
  BY <1>1, <1>2, <1>3 DEF Stays
<1> QED
  BY <1>5, <1>6

LEMMA AroundFound ==
  ASSUME RecentInv, FoundInv, Keep >= 2, ~CutShort, UploadNext \/ MovePointer \/ Retire \/ Tick
  PROVE  FoundInv'
<1>1. TypeOK /\ ShelfInv /\ UNCHANGED <<pointer, req, thread, lost, faults>>
      /\ active' \in Releases \cup {NoRelease} /\ Onward
  BY AroundShape DEF RecentInv, FoundInv
<1>2. ShelfInv' /\ \A r \in Releases : r <= active /\ Stays(r) => Stays(r)'
  BY <1>1, UploadOnShelf, MoveOnShelf, RetireOnShelf, TickOnShelf
<1>3. Holds(pointer)'
  BY <1>1, <1>2 DEF RecentInv, FoundInv, Holds, PointerRecent, NamedSince
<1>4. active # NoRelease => active' # NoRelease
  BY <1>1, Numbers DEF Onward
<1>5. ASSUME NEW c \in Clients, NEW k \in Threads
      PROVE  /\ Holds(thread[c][k])' /\ Where(k, thread[c][k], req[c])'
             /\ Chosen(k, thread[c][k], req[c])' /\ Reached(k, thread[c][k], req[c])'
  <2>1. PICK x : x = thread[c][k] /\ PlaceRecent(x, req[c].began) /\ Holds(x) /\ Where(k, x, req[c])
                 /\ Chosen(k, x, req[c]) /\ Reached(k, x, req[c])
    BY DEF RecentInv, FoundInv
  <2>2. Holds(x)'
    BY <1>2, <2>1 DEF Holds, PlaceRecent, NamedSince
  <2>3. Where(k, x, req[c])' /\ Chosen(k, x, req[c])' /\ Reached(k, x, req[c])'
    BY <1>1, <2>1 DEF Where, Chosen, Reached, Covers
  <2> QED
    BY <1>1, <2>1, <2>2, <2>3 DEF Holds, Where, Chosen, Reached
<1>6. ASSUME NEW c \in Clients PROVE Known(req[c])'
  <2>1. PICK q \in Request : q = req[c] /\ Known(q) /\ q.began \in Nat
    BY <1>1, Typed DEF FoundInv, Request
  <2>2. q.stage \in {"context", "validate", "select"} => now' <= q.began + MaxRequest
    <3>1. CASE Tick
      <4>1. Active(c) <=> q.stage \in {"context", "validate", "select"}
        BY <2>1 DEF Active
      <4>2. Active(c) => now < q.began + MaxRequest /\ now' = now + 1
        BY <2>1, <3>1 DEF Tick
      <4>3. now \in Nat /\ MaxRequest \in Nat
        BY <1>1, Typed, Numbers
      <4> QED
        BY <2>1, <4>1, <4>2, <4>3
    <3>2. CASE ~Tick
      <4>1. now' = now
        BY <3>2 DEF UploadNext, MovePointer, Retire, answers
      <4> QED
        BY <2>1, <4>1 DEF Known
    <3> QED
      BY <3>1, <3>2
  <2>3. Known(q)'
    BY <1>1, <1>4, <2>1, <2>2 DEF Known
  <2> QED
    BY <1>1, <2>1, <2>3 DEF Known
<1> QED
  BY <1>1, <1>2, <1>3, <1>5, <1>6 DEF FoundInv

(* No read of a release misses its object. *)
LEMMA ObjectsFound ==
  ASSUME RecentInv, FoundInv, Gap > Ttl + MaxRequest, NEW c \in Clients, NEW k \in Threads,
         thread[c][k].at \in {"manifest", "surface"}, NEW part \in Parts
  PROVE  Held(<<thread[c][k].release, part>>)
<1>1. PICK x \in Place : /\ x = thread[c][k] /\ PlaceRecent(x, req[c].began)
                         /\ req[c].began \in Nat /\ req[c].began <= now
  BY AtPlace
<1>2. Holds(x) /\ Where(k, x, req[c]) /\ Known(req[c]) /\ ShelfInv
  BY <1>1 DEF FoundInv
<1>3. now <= req[c].began + MaxRequest
  BY <1>1, <1>2 DEF Where, Known
<1>4. NamedSince(x.release, req[c].began - Ttl) /\ Stays(x.release) /\ x.release # NoRelease
  BY <1>1, <1>2 DEF PlaceRecent, Holds
<1>5. Complete(x.release)
  <2>1. CASE x.release = active
    BY <1>2, <1>4, <2>1 DEF ShelfInv
  <2>2. CASE x.release # active
    <3>1. left[x.release] \in Nat /\ left[x.release] >= req[c].began - Ttl
      BY <1>4, <2>2, Typed DEF NamedSince, RecentInv
    <3>2. Ttl \in Nat /\ Gap \in Nat /\ MaxRequest \in Nat /\ now \in Nat
      BY Numbers, Typed DEF RecentInv
    <3>3. ~(left[x.release] + Gap <= now)
      BY <1>1, <1>3, <3>1, <3>2
    <3> QED
      BY <1>4, <3>3 DEF Stays
  <2> QED
    BY <2>1, <2>2
<1> QED
  BY <1>1, <1>5 DEF Held, Complete

LEMMA GoesFound ==
  ASSUME RecentInv, FoundInv, NEW c \in Clients, NEW k \in Threads, NEW x \in Place, Goes(c, k, x),
         Holds(pointer'), lost' = {}, faults' \in Nat, faults <= faults',
         Holds(x), Where(k, x, req[c]), Chosen(k, x, req[c]), Reached(k, x, req[c])'
  PROVE  FoundInv'
<1>1. thread'[c][k] = x
      /\ (\A d \in Clients : \A j \in Threads : (d = c /\ j = k) \/ thread'[d][j] = thread[d][j])
      /\ UNCHANGED <<objects, active, now, req, moved, left>>
  BY OneGoes DEF RecentInv
<1>2. \A r : Stays(r)' <=> Stays(r)
  BY <1>1 DEF Stays, Complete
<1>3. ShelfInv' /\ Holds(pointer)'
  BY <1>1, <1>2 DEF FoundInv, ShelfInv, Complete, Listed, Holds
<1>4. faults \in Nat /\ (faults' = 0 => faults = 0)
  BY Typed DEF RecentInv
<1>5. \A d \in Clients : Known(req[d])'
  BY <1>1, <1>4 DEF FoundInv, Known
<1>6. ASSUME NEW d \in Clients, NEW j \in Threads
      PROVE  /\ Holds(thread[d][j])' /\ Where(j, thread[d][j], req[d])'
             /\ Chosen(j, thread[d][j], req[d])' /\ Reached(j, thread[d][j], req[d])'
  <2>1. CASE d = c /\ j = k
    BY <1>1, <1>2, <2>1 DEF Holds, Where, Chosen, Reached, Covers
  <2>2. CASE ~(d = c /\ j = k)
    <3>1. thread'[d][j] = thread[d][j]
      BY <1>1, <2>2
    <3> QED
      BY <1>1, <1>2, <1>4, <3>1 DEF FoundInv, Holds, Where, Chosen, Reached, Covers
  <2> QED
    BY <2>1, <2>2
<1> QED
  BY <1>3, <1>5, <1>6 DEF FoundInv

LEMMA TurnsFound ==
  ASSUME RecentInv, FoundInv, NEW c \in Clients, NEW q \in Request, NEW places \in [Threads -> Place],
         Turns(c, q, places), Known(q),
         \A k \in Threads : /\ Holds(places[k]) /\ Where(k, places[k], q)
                            /\ Chosen(k, places[k], q) /\ Reached(k, places[k], q)
  PROVE  FoundInv'
<1>1. /\ req'[c] = q /\ thread'[c] = places
      /\ \A d \in Clients : d # c => req'[d] = req[d] /\ thread'[d] = thread[d]
      /\ UNCHANGED <<objects, active, now, pointer, immutable, moved, left, lost, faults>>
  BY TurnsTyped DEF RecentInv
<1>2. \A r : Stays(r)' <=> Stays(r)
  BY <1>1 DEF Stays, Complete
<1>3. ShelfInv' /\ Holds(pointer)' /\ lost' = {}
  BY <1>1, <1>2 DEF FoundInv, ShelfInv, Complete, Listed, Holds
<1>4. ASSUME NEW d \in Clients
      PROVE  /\ Known(req[d])'
             /\ \A j \in Threads : /\ Holds(thread[d][j])' /\ Where(j, thread[d][j], req[d])'
                                   /\ Chosen(j, thread[d][j], req[d])' /\ Reached(j, thread[d][j], req[d])'
  <2>1. CASE d = c
    BY <1>1, <1>2, <2>1 DEF Known, Holds, Where, Chosen, Reached, Covers
  <2>2. CASE d # c
    BY <1>1, <1>2, <2>2 DEF FoundInv, Known, Holds, Where, Chosen, Reached, Covers
  <2> QED
    BY <2>1, <2>2
<1> QED
  BY <1>3, <1>4 DEF FoundInv

(* What is known of the read that is under way. *)
LEMMA AtFound ==
  ASSUME RecentInv, FoundInv, NEW c \in Clients, NEW k \in Threads
  PROVE  /\ thread[c][k] \in Place /\ thread \in [Clients -> [Threads -> Place]]
         /\ PlaceRecent(thread[c][k], req[c].began)
         /\ Holds(thread[c][k]) /\ Where(k, thread[c][k], req[c])
         /\ Chosen(k, thread[c][k], req[c]) /\ Reached(k, thread[c][k], req[c])
         /\ Known(req[c]) /\ ShelfInv /\ Holds(pointer) /\ lost = {}
         /\ faults \in Nat /\ active \in Nat
  BY Typed DEF RecentInv, FoundInv

LEMMA CheckPointerFound ==
  ASSUME RecentInv, FoundInv, NEW c \in Clients, NEW k \in Threads, CheckPointer(c, k)
  PROVE  FoundInv'
<1>1. PICK x \in Place : /\ x = thread[c][k] /\ x.at = "check" /\ x.release = NoRelease
                         /\ Where(k, x, req[c])
  BY AtFound DEF PlaceRecent, CheckPointer
<1>2. Quiet /\ UNCHANGED <<pointer, immutable, lost, faults>>
  BY DEF CheckPointer
<1>3. now \in 0..MaxTime
  BY DEF RecentInv, TypeOK
<1>4. PICK y \in Place : /\ thread' = [thread EXCEPT ![c][k] = y] /\ Holds(y)
                         /\ y.at \in {"manifest", "load"}
  <2>1. CASE pointer.release # NoRelease /\ pointer.expires >= now
    <3>1. PICK y : y = [at |-> "manifest", since |-> now, release |-> pointer.release]
      OBVIOUS
    <3>2. pointer.release \in Releases \cup {NoRelease}
      BY DEF RecentInv, TypeOK
    <3>3. y \in Place /\ y.at = "manifest" /\ y.release = pointer.release
      BY <1>3, <3>1, <3>2 DEF Place, Places
    <3>4. thread' = [thread EXCEPT ![c][k] = y]
      BY <2>1, <3>1 DEF CheckPointer
    <3>5. Holds(y)
      BY <3>3, AtFound DEF Holds
    <3> QED
      BY <3>3, <3>4, <3>5
  <2>2. CASE ~(pointer.release # NoRelease /\ pointer.expires >= now)
    <3>1. PICK y : y = [x EXCEPT !.at = "load", !.since = now]
      OBVIOUS
    <3>2. y \in Place /\ y.at = "load" /\ y.release = NoRelease
      BY <1>1, <1>3, <3>1 DEF Place, Places
    <3>3. thread' = [thread EXCEPT ![c][k] = y]
      <4>1. thread' = [thread EXCEPT ![c][k].at = "load", ![c][k].since = now]
        BY <2>2 DEF CheckPointer
      <4> QED
        BY <1>1, <3>1, <4>1, AtFound
    <3> QED
      BY <3>2, <3>3 DEF Holds
  <2> QED
    BY <2>1, <2>2
<1>5. Where(k, y, req[c]) /\ Chosen(k, y, req[c]) /\ Reached(k, y, req[c])'
  BY <1>1, <1>4 DEF Where, Chosen, Reached
<1>6. Holds(pointer') /\ lost' = {} /\ faults' \in Nat /\ faults <= faults'
  BY <1>2, AtFound
<1> QED
  BY <1>2, <1>4, <1>5, <1>6, GoesFound DEF Goes

LEMMA LoadPointerFound ==
  ASSUME RecentInv, FoundInv, NEW c \in Clients, NEW k \in Threads, LoadPointer(c, k)
  PROVE  FoundInv'
<1>1. PICK x \in Place : x = thread[c][k] /\ x.at = "load" /\ Where(k, x, req[c])
  BY AtFound DEF LoadPointer
<1>2. Quiet /\ UNCHANGED <<pointer, immutable, lost, faults>>
  BY DEF LoadPointer
<1>3. active \in Releases \cup {NoRelease}
  BY DEF RecentInv, TypeOK
<1>4. PICK y : y = [x EXCEPT !.at = IF active = NoRelease THEN "none" ELSE "store", !.release = active]
  OBVIOUS
<1>5. /\ y \in Place /\ y.at = IF active = NoRelease THEN "none" ELSE "store"
      /\ y.release = active
  BY <1>3, <1>4 DEF Place, Places
<1>6. thread' = [thread EXCEPT ![c][k] = y]
  <2>1. thread' = [thread EXCEPT ![c][k].at = IF active = NoRelease THEN "none" ELSE "store",
                                 ![c][k].release = active]
    BY DEF LoadPointer
  <2> QED
    BY <1>1, <1>4, <2>1, AtFound
<1>7. Holds(y)
  BY <1>5, AtFound DEF Holds, Stays, ShelfInv
<1>8. Where(k, y, req[c]) /\ Chosen(k, y, req[c])
  BY <1>1, <1>5 DEF Where, Chosen
<1>9. Reached(k, y, req[c])'
  <2>1. req'[c].served => active # NoRelease
    BY <1>2, AtFound DEF Known, Quiet
  <2> QED
    BY <1>5, <2>1 DEF Reached
<1>10. Holds(pointer') /\ lost' = {} /\ faults' \in Nat /\ faults <= faults'
  BY <1>2, AtFound
<1> QED
  BY <1>2, <1>5, <1>6, <1>7, <1>8, <1>9, <1>10, GoesFound DEF Goes

LEMMA StorePointerFound ==
  ASSUME RecentInv, FoundInv, NEW c \in Clients, NEW k \in Threads, StorePointer(c, k)
  PROVE  FoundInv'
<1>1. PICK x \in Place : /\ x = thread[c][k] /\ x.at = "store" /\ Holds(x) /\ Where(k, x, req[c])
  BY AtFound DEF StorePointer
<1>2. Quiet /\ UNCHANGED <<immutable, lost, faults>> /\ Step(c, k, "manifest")
      /\ pointer'.release = x.release
  BY <1>1 DEF StorePointer
<1>3. PICK y : y = [x EXCEPT !.at = "manifest"]
  OBVIOUS
<1>4. y \in Place /\ y.at = "manifest" /\ y.release = x.release
  BY <1>3 DEF Place, Places
<1>5. thread' = [thread EXCEPT ![c][k] = y]
  BY <1>1, <1>2, <1>3 DEF Step
<1>6. Holds(y) /\ Holds(pointer') /\ Where(k, y, req[c]) /\ Chosen(k, y, req[c]) /\ Reached(k, y, req[c])'
  BY <1>1, <1>2, <1>4 DEF Holds, Where, Chosen, Reached
<1>7. lost' = {} /\ faults' \in Nat /\ faults <= faults'
  BY <1>2, AtFound
<1> QED
  BY <1>2, <1>4, <1>5, <1>6, <1>7, GoesFound DEF Goes

LEMMA ReadManifestFound ==
  ASSUME RecentInv, FoundInv, Gap > Ttl + MaxRequest, NEW c \in Clients, NEW k \in Threads,
         ReadManifest(c, k)
  PROVE  FoundInv'
<1>1. PICK x \in Place : /\ x = thread[c][k] /\ x.at = "manifest" /\ Holds(x) /\ Where(k, x, req[c])
  BY AtFound DEF ReadManifest
<1>2. Held(<<x.release, "manifest">>)
  BY <1>1, ObjectsFound DEF Parts
<1>3. Quiet /\ UNCHANGED <<pointer, faults>> /\ lost' = lost
      /\ Step(c, k, AfterManifest(c, k, x.release))
  BY <1>1, <1>2 DEF ReadManifest, Fetch
<1>4. PICK at \in {"surface", "got", "none"} :
        /\ at = AfterManifest(c, k, x.release)
        /\ k = "main" => at # "none"
        /\ k # "main" /\ at \in {"surface", "got"} => Selects(c, x.release)
        /\ k = "main" /\ at = "surface" => req[c].stage = "context"
  BY DEF AfterManifest
<1>5. PICK y : y = [x EXCEPT !.at = at]
  OBVIOUS
<1>6. y \in Place /\ y.at = at /\ y.release = x.release
  BY <1>5 DEF Place, Places
<1>7. thread' = [thread EXCEPT ![c][k] = y]
  BY <1>1, <1>3, <1>4, <1>5 DEF Step
<1>8. Holds(y) /\ Where(k, y, req[c])
  BY <1>1, <1>4, <1>6 DEF Holds, Where
<1>9. Chosen(k, y, req[c])
  BY <1>4, <1>6 DEF Chosen, Selects
<1>10. Reached(k, y, req[c])'
  BY <1>4, <1>6 DEF Reached
<1>11. Holds(pointer') /\ lost' = {} /\ faults' \in Nat /\ faults <= faults'
  BY <1>3, AtFound
<1> QED
  BY <1>3, <1>6, <1>7, <1>8, <1>9, <1>10, <1>11, GoesFound DEF Goes

LEMMA ReadSurfaceFound ==
  ASSUME RecentInv, FoundInv, Gap > Ttl + MaxRequest, NEW c \in Clients, NEW k \in Threads,
         ReadSurface(c, k)
  PROVE  FoundInv'
<1>1. PICK x \in Place : /\ x = thread[c][k] /\ x.at = "surface" /\ Holds(x) /\ Where(k, x, req[c])
                         /\ Chosen(k, x, req[c])
  BY AtFound DEF ReadSurface
<1>2. Held(<<x.release, "surface">>)
  BY <1>1, ObjectsFound DEF Parts
<1>3. Quiet /\ UNCHANGED <<pointer, faults>> /\ lost' = lost /\ Step(c, k, "got")
  BY <1>1, <1>2 DEF ReadSurface, Fetch
<1>4. PICK y : y = [x EXCEPT !.at = "got"]
  OBVIOUS
<1>5. y \in Place /\ y.at = "got" /\ y.release = x.release
  BY <1>4 DEF Place, Places
<1>6. thread' = [thread EXCEPT ![c][k] = y]
  BY <1>1, <1>3, <1>4 DEF Step
<1>7. Holds(y) /\ Where(k, y, req[c]) /\ Chosen(k, y, req[c])
  BY <1>1, <1>5 DEF Holds, Where, Chosen
<1>8. Reached(k, y, req[c])'
  BY <1>5 DEF Reached
<1>9. Holds(pointer') /\ lost' = {} /\ faults' \in Nat /\ faults <= faults'
  BY <1>3, AtFound
<1> QED
  BY <1>3, <1>5, <1>6, <1>7, <1>8, <1>9, GoesFound DEF Goes

(* A read that fails is told from an object that is not there. *)
LEMMA ReadFailsFound ==
  ASSUME RecentInv, FoundInv, NEW c \in Clients, NEW k \in Threads, ReadFails(c, k)
  PROVE  FoundInv'
<1>1. PICK x \in Place : /\ x = thread[c][k] /\ x.at \in {"load", "manifest", "surface"}
                         /\ Holds(x) /\ Where(k, x, req[c])
  BY AtFound DEF ReadFails
<1>2. Quiet /\ UNCHANGED <<pointer, immutable, lost>> /\ faults' = faults + 1
      /\ Step(c, k, IF x.at = "surface" THEN "raised" ELSE "failed")
  BY <1>1 DEF ReadFails
<1>3. PICK at \in {"raised", "failed"} : at = IF x.at = "surface" THEN "raised" ELSE "failed"
  OBVIOUS
<1>4. PICK y : y = [x EXCEPT !.at = at]
  OBVIOUS
<1>5. y \in Place /\ y.at = at /\ y.release = x.release
  BY <1>4 DEF Place, Places
<1>6. thread' = [thread EXCEPT ![c][k] = y]
  BY <1>1, <1>2, <1>3, <1>4 DEF Step
<1>7. Holds(y) /\ Where(k, y, req[c]) /\ Chosen(k, y, req[c])
  BY <1>1, <1>3, <1>5 DEF Holds, Where, Chosen
<1>8. Holds(pointer') /\ lost' = {} /\ faults' \in Nat /\ faults <= faults'
  BY <1>2, AtFound
<1>9. Reached(k, y, req[c])'
  BY <1>3, <1>5 DEF Reached
<1> QED
  BY <1>2, <1>5, <1>6, <1>7, <1>8, <1>9, GoesFound DEF Goes

LEMMA StartFound ==
  ASSUME RecentInv, FoundInv, NEW c \in Clients, StartQuery(c) \/ StartOther(c)
  PROVE  FoundInv'
<1>1. TypeOK /\ now \in Nat /\ MaxRequest \in Nat
  BY Typed, Numbers DEF RecentInv
<1>2. PICK q \in Request, running \in SUBSET Threads :
         /\ Turns(c, q, Begin([k \in Threads |-> Resting], running))
         /\ q.began = now /\ q.values = {}
         /\ q.stage \in {"context", "validate", "select"} /\ q.served = (active # NoRelease)
         /\ q.stage = "select" => q.kind = "timeline"
         /\ running = IF q.stage = "select" THEN q.wanted ELSE {"main"}
         /\ q.wanted \subseteq Parameters
  BY <1>1, StartShape
<1>3. PICK places \in [Threads -> Place] :
         /\ places = Begin([k \in Threads |-> Resting], running)
         /\ \A k \in Threads : places[k] = IF k \in running THEN Checking ELSE Resting
  <2>1. [k \in Threads |-> Resting] \in [Threads -> Place]
    BY <1>1, ResettingPlaces
  <2> QED
    BY <1>1, <2>1, BeginsPlaces
<1>4. Known(q)
  <2>1. now <= q.began + MaxRequest
    BY <1>1, <1>2
  <2>2. q.served => active # NoRelease
    BY <1>2
  <2>3. q.stage = "select" => q.kind = "timeline"
    BY <1>2
  <2>4. q.values = {}
    BY <1>2
  <2> QED
    BY <2>1, <2>2, <2>3, <2>4 DEF Known
<1>5. "main" \notin q.wanted
  BY <1>2, ServingAnswersAssumption
<1>6. ASSUME NEW k \in Threads
      PROVE  Holds(places[k]) /\ Where(k, places[k], q) /\ Chosen(k, places[k], q) /\ Reached(k, places[k], q)
  <2>1. places[k].release = NoRelease /\ places[k].at \in {"check", "rest"}
        /\ (places[k].at = "check" => k \in running)
    BY <1>3, RestingPlaces
  <2> QED
    BY <1>2, <1>5, <2>1 DEF Holds, Where, Chosen, Reached
<1> QED
  BY <1>2, <1>3, <1>4, <1>6, TurnsFound

(* On Validated, a request that came after the first release has its manifest *)
(* and requires the exact hour, or the store did not answer it.               *)
LEMMA GoOnFound ==
  ASSUME RecentInv, FoundInv, NEW c \in Clients, ContextRead(c) \/ Validated(c)
  PROVE  FoundInv'
<1>1. TypeOK
  BY DEF RecentInv
<1>2. PICK q \in Request, places \in [Threads -> Place] :
            /\ Turns(c, q, places)
            /\ \A k \in Threads : places[k] \in {thread[c][k], Checking}
            /\ q.began = req[c].began /\ q.values = req[c].values /\ q.served = req[c].served
            /\ q.kind = req[c].kind /\ q.time = req[c].time /\ q.wanted = req[c].wanted
            /\ \/ /\ ContextRead(c) /\ q.stage = "validate"
                  /\ req[c].stage = "context"
                  /\ places = Begin(thread[c], {"main"})
               \/ /\ ContextRead(c) /\ q.stage = "failed"
                  /\ req[c].stage = "context" /\ places = thread[c]
                  /\ thread[c]["main"].at \in {"none", "failed", "raised"}
               \/ /\ Validated(c) /\ q.stage = "select" /\ req[c].stage = "validate"
                  /\ q.exact = (thread[c]["main"].at = "got")
                  /\ q.unread = (thread[c]["main"].at = "failed")
                  /\ thread[c]["main"].at \in {"got", "none", "failed"}
                  /\ places = Begin(thread[c], req[c].wanted)
  BY <1>1, GoOnShape
<1>3. PICK old \in [Threads -> Place] : old = thread[c]
  BY <1>1, Typed
<1>4. "main" \in Threads /\ "main" \notin q.wanted
  BY ServingAnswersAssumption DEF Threads, Request
<1>5. \A k \in Threads : /\ Holds(old[k]) /\ Where(k, old[k], req[c])
                         /\ Chosen(k, old[k], req[c]) /\ Reached(k, old[k], req[c])
  BY <1>3, AtFound
<1>6. Known(req[c]) /\ req[c].stage \in {"context", "validate"}
  BY <1>2, <1>4, AtFound
<1>7. \A k \in Threads : k # "main" => old[k].at = "rest"
  BY <1>5, <1>6 DEF Where
<1>8. q.stage = "select" /\ q.served => q.exact \/ q.unread
  <2>1. CASE q.stage = "select" /\ q.served
    <3>1. /\ old["main"].at \in {"got", "none", "failed"} /\ q.exact = (old["main"].at = "got")
          /\ q.unread = (old["main"].at = "failed")
      BY <1>2, <1>3, <2>1
    <3>2. old["main"].at # "none"
      BY <1>2, <1>4, <1>5, <2>1 DEF Reached
    <3> QED
      BY <3>1, <3>2
  <2> QED
    BY <2>1
<1>9. Known(q)
  <2>1. q.values = {}
    BY <1>2, <1>6 DEF Known
  <2>2. now <= q.began + MaxRequest /\ (q.served => active # NoRelease)
    BY <1>2, <1>6 DEF Known
  <2> QED
    BY <1>8, <2>1, <2>2 DEF Known
<1>10. /\ "main" \in Threads
       /\ \A k \in Threads : places[k] \in {old[k], Checking}
       /\ \A k \in Threads : k # "main" /\ places[k] # old[k] => q.stage = "select" /\ k \in q.wanted
       /\ q.stage \in {"select", "failed"} => places["main"] = old["main"]
       /\ q.stage = "failed" => old["main"].at \in {"none", "failed", "raised"}
       /\ q.stage = "select" => old["main"].at \in {"got", "none", "failed"}
       /\ q.stage \in {"validate", "select", "failed"}
  BY <1>1, <1>2, <1>3, <1>4, BeginsPlaces
<1>11. ASSUME NEW k \in Threads
       PROVE  Holds(places[k]) /\ Where(k, places[k], q) /\ Chosen(k, places[k], q) /\ Reached(k, places[k], q)
  <2>1. CASE places[k] = Checking
    <3>1. places[k].release = NoRelease /\ places[k].at = "check"
      BY <2>1, RestingPlaces
    <3>2. Holds(places[k]) /\ Chosen(k, places[k], q) /\ Reached(k, places[k], q)
      BY <3>1 DEF Holds, Chosen, Reached
    <3>3. k = "main" => q.stage = "validate"
      <4>1. ASSUME q.stage \in {"select", "failed"} PROVE k # "main"
        BY <1>10, <3>1, <4>1
      <4> QED
        BY <1>10, <4>1
    <3>4. k # "main" => q.stage = "select" /\ k \in q.wanted
      <4>1. k # "main" => places[k] # old[k]
        BY <1>7, <3>1
      <4> QED
        BY <1>10, <4>1
    <3> QED
      BY <3>1, <3>2, <3>3, <3>4 DEF Where
  <2>2. CASE places[k] = old[k]
    <3>1. Holds(old[k]) /\ Reached(k, old[k], q)
      BY <1>2, <1>5 DEF Reached
    <3>2. Chosen(k, old[k], q)
      BY <1>7 DEF Chosen
    <3>3. Where(k, old[k], q)
      BY <1>7, <1>10 DEF Where
    <3> QED
      BY <2>2, <3>1, <3>2, <3>3
  <2> QED
    BY <1>10, <2>1, <2>2
<1> QED
  BY <1>2, <1>9, <1>11, TurnsFound

LEMMA RespondFound ==
  ASSUME RecentInv, FoundInv, NEW c \in Clients, Respond(c)
  PROVE  FoundInv'
<1>1. TypeOK
  BY DEF RecentInv
<1>2. PICK q \in Request :
            /\ Turns(c, q, [k \in Threads |-> Resting])
            /\ q.served = req[c].served
            /\ q.exact = req[c].exact /\ q.unread = req[c].unread
            /\ q.kind = req[c].kind /\ q.wanted = req[c].wanted /\ q.time = req[c].time
            /\ q.stage \in {"done", "failed"}
            /\ \A v \in q.values : \/ v \in req[c].values
                                  \/ \E k \in req[c].wanted : v \in ValuesOf(c, k)
  BY <1>1, RespondShape
<1>3. req[c].stage = "select" /\ Known(req[c])
  BY <1>1, RespondShape, AtFound, ServingAnswersAssumption DEF FoundInv
<1>4. ASSUME q.served, q.kind # "timeline", ~q.unread, NEW v \in q.values PROVE v.exact
  <2>1. CASE v \in req[c].values
    BY <1>2, <1>3, <1>4, <2>1 DEF Known
  <2>2. CASE \E k \in req[c].wanted : v \in ValuesOf(c, k)
    <3>1. PICK k \in Threads : k \in req[c].wanted /\ k # "main" /\ v \in ValuesOf(c, k)
      BY <1>2, <2>2, ServingAnswersAssumption DEF Request, Threads
    <3>2. req[c].exact /\ req[c].kind # "timeline"
      BY <1>2, <1>3, <1>4 DEF Known
    <3>3. CASE thread[c][k].at = "got"
      <4>1. v.exact = Covers(thread[c][k].release, req[c].time)
        BY <1>1, <3>1, <3>3, ValuesShape
      <4>2. Chosen(k, thread[c][k], req[c])
        BY <3>1, AtFound
      <4>3. Covers(thread[c][k].release, req[c].time)
        BY <3>1, <3>2, <3>3, <4>2 DEF Chosen
      <4> QED
        BY <4>1, <4>3
    <3>4. CASE thread[c][k].at # "got"
      <4>1. req[c].kind = "query" /\ (req[c].exact => v.exact)
        BY <1>1, <3>1, <3>4, ValuesShape
      <4> QED
        BY <3>2, <4>1
    <3> QED
      BY <3>3, <3>4
  <2> QED
    BY <1>2, <2>1, <2>2
<1>5. Known(q)
  BY <1>2, <1>3, <1>4 DEF Known
<1>6. PICK places \in [Threads -> Place] : /\ places = [k \in Threads |-> Resting]
                                           /\ \A k \in Threads : places[k] = Resting
  BY <1>1, ResettingPlaces
<1>7. \A k \in Threads : /\ Holds(places[k]) /\ Where(k, places[k], q)
                         /\ Chosen(k, places[k], q) /\ Reached(k, places[k], q)
  BY <1>6, RestingPlaces DEF Holds, Where, Chosen, Reached
<1> QED
  BY <1>2, <1>5, <1>6, <1>7, TurnsFound

LEMMA FoundInit ==
  Init => FoundInv
<1> SUFFICES ASSUME Init PROVE FoundInv
  OBVIOUS
<1>1. /\ objects = {} /\ active = NoRelease /\ now = 0 /\ pointer = [release |-> NoRelease, expires |-> 0]
      /\ moved = 0 /\ lost = {} /\ faults = 0
      /\ req = [c \in Clients |-> NoRequest]
      /\ thread = [c \in Clients |-> [k \in Threads |-> Resting]]
  BY DEF Init, EmptyShelf, Nothing
<1>2. ShelfInv
  BY <1>1 DEF ShelfInv, Listed
<1>3. /\ NoRequest.stage = "idle" /\ NoRequest.served = FALSE /\ NoRequest.values = {}
  BY DEF NoRequest
<1>4. Known(NoRequest)
  BY <1>3 DEF Known
<1>5. \A k \in Threads : /\ Holds(Resting) /\ Where(k, Resting, NoRequest)
                         /\ Chosen(k, Resting, NoRequest) /\ Reached(k, Resting, NoRequest)
  BY RestingPlaces DEF Holds, Where, Chosen, Reached
<1>6. Holds(pointer)
  BY <1>1 DEF Holds
<1> QED
  BY <1>1, <1>2, <1>4, <1>5, <1>6 DEF FoundInv

LEMMA FoundStays ==
  ASSUME FoundInv, UNCHANGED vars
  PROVE  FoundInv'
<1>1. UNCHANGED <<objects, active, now, pointer, immutable, req, thread, moved, left, lost, faults>>
  BY DEF vars, shelf, answers
<1>2. ShelfInv' /\ Holds(pointer)' /\ lost' = {}
  BY <1>1 DEF FoundInv, ShelfInv, Listed, Complete, Holds, Stays
<1>3. ASSUME NEW c \in Clients
      PROVE  /\ Known(req[c])'
             /\ \A k \in Threads : /\ Holds(thread[c][k])' /\ Where(k, thread[c][k], req[c])'
                                   /\ Chosen(k, thread[c][k], req[c])' /\ Reached(k, thread[c][k], req[c])'
  BY <1>1 DEF FoundInv, Known, Holds, Stays, Complete, Where, Chosen, Covers, Reached
<1> QED
  BY <1>2, <1>3 DEF FoundInv

LEMMA FoundSteps ==
  ASSUME RecentInv, FoundInv, Keep >= 2, ~CutShort, Gap > Ttl + MaxRequest, [Next]_vars
  PROVE  FoundInv'
<1>1. CASE UploadNext \/ MovePointer \/ Retire \/ Tick
  BY <1>1, AroundFound
<1>2. ASSUME NEW c \in Clients, StartQuery(c) \/ StartOther(c) \/ ContextRead(c) \/ Validated(c) \/ Respond(c)
      PROVE  FoundInv'
  BY <1>2, StartFound, GoOnFound, RespondFound
<1>3. ASSUME NEW c \in Clients, NEW k \in Threads, Read(c, k) \/ ReadFails(c, k)
      PROVE  FoundInv'
  BY <1>3, CheckPointerFound, LoadPointerFound, StorePointerFound, ReadManifestFound,
     ReadSurfaceFound, ReadFailsFound DEF Read
<1>4. CASE UNCHANGED vars
  BY <1>4, FoundStays
<1> QED
  BY <1>1, <1>2, <1>3, <1>4 DEF Next

LEMMA FoundAlways ==
  ASSUME Keep >= 2, ~CutShort, Gap > Ttl + MaxRequest
  PROVE  Spec => [](RecentInv /\ FoundInv)
<1>1. Init => RecentInv /\ FoundInv
  BY RecentInit, FoundInit
<1>2. RecentInv /\ FoundInv /\ [Next]_vars => RecentInv' /\ FoundInv'
  BY RecentSteps, FoundSteps
<1> QED
  BY <1>1, <1>2, PTL DEF Spec

-----------------------------------------------------------------------------
(* With two releases kept (retain_releases, three by default), none left half *)
(* uploaded, and a pointer that moves less often than a cached pointer and a  *)
(* request last together: no reader is sent to an object that retention has   *)
(* deleted, whatever it took from the caches of ObjectStoreSpatialSource.         *)
THEOREM ReadersSafeHolds ==
  ASSUME Keep >= 2, ~CutShort, Gap > Ttl + MaxRequest
  PROVE  Spec => []Safe
<1>1. RecentInv /\ FoundInv => Safe
  BY DEF RecentInv, FoundInv, Safe, ReadersFindObjects
<1> QED
  BY <1>1, FoundAlways, PTL

(* Under the same conditions no query and no surface that came after the first  *)
(* release is answered with the value of another hour, unless the store did not *)
(* answer that request when it read what it requires: not through releases that *)
(* change between its reads, nor surfaces that cannot be read (query.py:1552,   *)
(* main.py:586, _select_station_forecast and _choose_entry).                    *)
THEOREM RequiredHourHolds ==
  ASSUME Keep >= 2, ~CutShort, Gap > Ttl + MaxRequest
  PROVE  Spec => []RequiredHourKept
<1>1. FoundInv => RequiredHourKept
  BY DEF FoundInv, Known, RequiredHourKept
<1> QED
  BY <1>1, FoundAlways, PTL
===============================================================================
