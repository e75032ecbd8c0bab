-------------------------- MODULE DataProofs --------------------------
(***************************************************************************)
(* Two components that fill and cut the data of the trainings.                *)
(*                                                                         *)
(* The imports (HistoryImport).  For any hours, pages, requests and bounds,   *)
(* when the year is over before an import begins: a unit that only the year's *)
(* own importer has marked is in the database; and with fewer failing calls   *)
(* than attempts, what the filling of ranges gives up is not in the archive.   *)
(* What the prover needs to know of the importer is how far it is: everything  *)
(* before its page is stored, what it carries is its page and the page is the  *)
(* archive's, because nothing is cached before the archive is complete.       *)
(*                                                                         *)
(* The training data (TrainingDatasets).  For any keys, writes, copies, deltas *)
(* and retention, with one process that builds and compacts: the layered view  *)
(* says of a settled row what the live table says, and neither a compaction    *)
(* nor its rollback changes it.  Without that condition: a compaction computes *)
(* the layered view, for any table and any deltas.                            *)
(***************************************************************************)
EXTENDS HistoryImport, TrainingDatasets, FiniteSetTheorems, SequenceTheorems,
        WellFoundedInduction, TLAPS

Finished == published = MaxHours

Covered(w) == w \intersect Available \subseteq db

(* Nothing is begun, cached, marked or tried before the archive is complete. *)
NothingYet ==
    /\ marks # {} => Finished
    /\ DOMAIN pages # {} => Finished
    /\ \A w \in SUBSET Hours : attempts[w] # 0 => Finished

PagesSound == \A k \in DOMAIN pages : pages[k] = SourcePage(k)

MarksSound == ~narrowed /\ marks # {} => Covered(Hours)

(* What command c knows, when its job is j. *)
Fits(c, j) ==
    /\ j.step = "idle" => j = NoJob
    /\ j.step # "idle" => Finished
    /\ c = "history" /\ j.step # "idle" => j.want = Hours
    /\ c = "range" => ~j.resume
    /\ j.step \in {"audit", "unpack", "writing", "parse"} => j.page = 1
    /\ j.step \in {"read", "store"} =>
          \A h \in j.want \intersect Available : PageOf(h) < j.page => h \in db
    /\ j.step = "store" => /\ j.rows = SourcePage(j.page).rows \intersect j.want
                           /\ j.last = SourcePage(j.page).last
    /\ j.step \in {"file", "unit"} => Covered(j.want) \/ (c = "history" /\ narrowed)
    /\ source = "api" => j.step \notin {"unpack", "writing", "parse", "file"}
    /\ c = "history" /\ ~narrowed /\ j.keys # {} => Covered(Hours)

(* Of a set of hours that is not covered, every attempt took a fault. *)
Tried(w, j) ==
    source = "api" /\ ~Covered(w) =>
        /\ attempts[w] <= faults
        /\ j.step = "end" /\ j.want = w => attempts[w] < faults

StillTrying(j) == j.step \notin {"idle", "audit"} => attempts[j.want] < MaxAttempts

ImportInv ==
    /\ TypeOK /\ NothingYet /\ PagesSound /\ MarksSound
    /\ \A c \in Commands : Fits(c, job[c])
    /\ \A w \in SUBSET Hours : Tried(w, job["range"])
    /\ StillTrying(job["range"])

-----------------------------------------------------------------------------
LEMMA Numbers ==
  /\ MaxHours \in Nat /\ PageRows \in Nat /\ PageRows > 0
  /\ \A h \in Hours : PageOf(h) \in Pages
  /\ \A k \in Pages : k \in Nat /\ k >= 1 /\ k <= PageOf(MaxHours)
  /\ PageOf(MaxHours) \in Nat /\ PageOf(MaxHours) >= 1 /\ 1 \in Pages
<1>1. MaxHours \in Nat \ {0} /\ PageRows \in Nat \ {0}
  BY HistoryAssumption
<1>2. ASSUME NEW a \in Nat, NEW b \in Nat, a <= b
      PROVE  a \div PageRows \in Nat /\ b \div PageRows \in Nat /\ a \div PageRows <= b \div PageRows
  <2>1. PICK n \in Nat \ {0} : n = PageRows
    BY <1>1
  <2>2. a \div n \in Nat /\ b \div n \in Nat
    OBVIOUS
  <2>3. a \div n <= b \div n
    BY <1>2
  <2> QED
    BY <2>1, <2>2, <2>3
<1>3. ASSUME NEW h \in Hours
      PROVE  PageOf(h) \in Nat /\ PageOf(MaxHours) \in Nat /\ PageOf(h) >= 1 /\ PageOf(h) <= PageOf(MaxHours)
  <2>1. h - 1 \in Nat /\ MaxHours - 1 \in Nat /\ h - 1 <= MaxHours - 1
    BY <1>1 DEF Hours
  <2> QED
    BY <1>2, <2>1 DEF PageOf
<1>4. MaxHours \in Hours
  BY <1>1 DEF Hours
<1>5. PageOf(MaxHours) \in Nat /\ PageOf(MaxHours) >= 1
  BY <1>3, <1>4
<1> QED
  BY <1>1, <1>3, <1>5 DEF Pages

LEMMA NoJobType == NoJob \in Job /\ NoJob.step = "idle"
  BY Numbers DEF NoJob, Job, Steps, Keys

LEMMA Size ==
  ASSUME NEW S \in SUBSET Hours
  PROVE  Cardinality(S) \in 0..MaxHours
<1>1. IsFiniteSet(Hours) /\ Cardinality(Hours) = MaxHours
  BY Numbers, FS_Interval DEF Hours
<1>2. IsFiniteSet(S) /\ Cardinality(S) <= Cardinality(Hours)
  BY <1>1, FS_Subset
<1>3. Cardinality(S) \in Nat
  BY <1>2, FS_CardinalityType
<1> QED
  BY <1>1, <1>2, <1>3

LEMMA SourcePageShape ==
  ASSUME TypeOK, NEW k \in Pages
  PROVE  SourcePage(k) \in Page
<1>1. Available \subseteq Hours
  BY Numbers DEF TypeOK, Available, Hours
<1> QED
  BY <1>1 DEF SourcePage, Page

(* What is known of a job stays known while the archive stays and rows are added. *)
LEMMA FitsStays ==
  ASSUME NEW c, NEW j, Fits(c, j), UNCHANGED <<source, published>>, db \subseteq db',
         narrowed => narrowed'
  PROVE  Fits(c, j)'
<1>1. Available' = Available /\ \A k : SourcePage(k)' = SourcePage(k)
  BY DEF Available, SourcePage
<1>2. \A w : Covered(w) => Covered(w)'
  BY <1>1 DEF Covered
<1> QED
  BY <1>1, <1>2 DEF Fits, Finished

LEMMA TriedStays ==
  ASSUME NEW w \in SUBSET Hours, NEW j, NEW k, Tried(w, j), UNCHANGED <<source, published, attempts>>,
         attempts[w] \in Nat, faults \in Nat, faults' \in Nat,
         db \subseteq db', faults <= faults',
         k.step = "end" /\ k.want = w => (j.step = "end" /\ j.want = w) \/ faults < faults'
                                         \/ Covered(w) \/ source # "api"
  PROVE  Tried(w, k)'
<1>1. Available' = Available
  BY DEF Available
<1>2. Covered(w) => Covered(w)'
  BY <1>1 DEF Covered
<1> QED
  BY <1>2 DEF Tried

-----------------------------------------------------------------------------
(* A step of a command that begins nothing new: what is left to show of it. *)
LEMMA Assembled ==
  ASSUME ImportInv, TypeOK', UNCHANGED archive, db \subseteq db', narrowed => narrowed',
         NEW c \in Commands, \A d \in Commands \ {c} : job'[d] = job[d],
         NEW j, j = job'[c], Fits(c, j)',
         Finished,
         \A k \in DOMAIN pages' : pages'[k] = SourcePage(k),
         marks' = marks \/ MarksSound',
         attempts' = attempts, faults <= faults',
         c = "range" => /\ \A w \in SUBSET Hours : Tried(w, j)'
                        /\ StillTrying(j)
  PROVE  ImportInv'
<1>1. Available' = Available /\ \A k : SourcePage(k)' = SourcePage(k) /\ (\A w : Covered(w) => Covered(w)')
  BY DEF Available, SourcePage, Covered, archive
<1>2. NothingYet' /\ PagesSound'
  BY <1>1 DEF NothingYet, Finished, PagesSound, archive
<1>3. MarksSound'
  BY <1>1 DEF ImportInv, MarksSound
<1>4. ASSUME NEW d \in Commands PROVE Fits(d, job[d])'
  <2>1. CASE d = c
    BY <2>1 DEF Fits
  <2>2. CASE d # c
    <3>1. PICK k : k = job[d] /\ Fits(d, k)
      BY DEF ImportInv
    <3>2. Fits(d, k)'
      BY <3>1, FitsStays DEF archive
    <3> QED
      BY <2>2, <3>1, <3>2 DEF Fits
  <2> QED
    BY <2>1, <2>2
<1>5. (\A w \in SUBSET Hours : Tried(w, job["range"])') /\ StillTrying(job["range"])'
  <2>1. CASE c = "range"
    BY <2>1 DEF Tried, StillTrying
  <2>2. CASE c # "range"
    <3>1. PICK k : k = job["range"] /\ k = job'["range"]
      BY <2>2 DEF Commands
    <3>2. ASSUME NEW w \in SUBSET Hours PROVE Tried(w, k)'
      <4>1. Tried(w, k) /\ attempts[w] \in Nat /\ faults \in Nat /\ faults' \in Nat
        BY <3>1, HistoryAssumption DEF ImportInv, TypeOK
      <4> QED
        BY <4>1, TriedStays DEF archive
    <3>3. StillTrying(k)'
      BY <3>1 DEF ImportInv, StillTrying
    <3> QED
      BY <3>1, <3>2, <3>3 DEF Tried, StillTrying
  <2> QED
    BY <2>1, <2>2
<1> QED
  BY <1>2, <1>3, <1>4, <1>5 DEF ImportInv

(* An import goes on. *)
LEMMA GoesOn ==
  ASSUME ImportInv, TypeOK', UNCHANGED <<archive, attempts>>, db \subseteq db', narrowed => narrowed',
         NEW c \in Commands, \A d \in Commands \ {c} : job'[d] = job[d],
         NEW k, k = job[c], k.step \notin {"idle", "audit"},
         NEW j, j = job'[c], j.want = k.want, Fits(c, j)',
         \A n \in DOMAIN pages' : pages'[n] = SourcePage(n),
         marks' = marks \/ MarksSound',
         faults <= faults',
         c = "range" /\ j.step = "end" => Covered(k.want) \/ faults < faults' \/ source # "api"
  PROVE  ImportInv'
<1>1. Finished
  BY DEF ImportInv, Fits
<1>2. ASSUME c = "range" PROVE StillTrying(j) /\ \A w \in SUBSET Hours : Tried(w, j)'
  <2>1. StillTrying(j)
    BY <1>2 DEF ImportInv, StillTrying
  <2>2. ASSUME NEW w \in SUBSET Hours PROVE Tried(w, j)'
    <3>1. Tried(w, k) /\ attempts[w] \in Nat /\ faults \in Nat /\ faults' \in Nat
      BY <1>2, HistoryAssumption DEF ImportInv, TypeOK
    <3>2. j.step = "end" /\ j.want = w => faults < faults' \/ Covered(w) \/ source # "api"
      BY <1>2
    <3> QED
      BY <3>1, <3>2, TriedStays DEF archive
  <2> QED
    BY <2>1, <2>2
<1> QED
  BY <1>1, <1>2, Assembled

LEMMA Replaced ==
  ASSUME TypeOK, NEW c \in Commands, NEW r \in Job, job' = [job EXCEPT ![c] = r]
  PROVE  job' \in [Commands -> Job] /\ job'[c] = r /\ \A d \in Commands \ {c} : job'[d] = job[d]
  BY DEF TypeOK

LEMMA Went ==
  ASSUME TypeOK, NEW c \in Commands, NEW step \in Steps, Goto(c, step)
  PROVE  /\ job' \in [Commands -> Job] /\ job'[c] = [job[c] EXCEPT !.step = step]
         /\ \A d \in Commands \ {c} : job'[d] = job[d]
<1>1. PICK r : r = [job[c] EXCEPT !.step = step]
  OBVIOUS
<1>2. r \in Job
  BY <1>1 DEF TypeOK, Job
<1>3. job' = [job EXCEPT ![c] = r]
  BY <1>1 DEF Goto
<1> QED
  BY <1>1, <1>2, <1>3, Replaced

LEMMA UnpackKeeps ==
  ASSUME ImportInv, NEW c \in Commands, Unpack(c)
  PROVE  ImportInv'
<1>1. PICK k \in Job : k = job[c] /\ Fits(c, k)
  BY DEF ImportInv, TypeOK
<1>2. k.step = "unpack" /\ TypeOK /\ UNCHANGED <<archive, db, pages, marks, narrowed, attempts, faults>>
  BY <1>1 DEF ImportInv, Unpack
<1>3. PICK step \in {"unit", "writing", "parse"} :
         /\ Goto(c, step) /\ book' \in {book, "partial"}
         /\ step = "unit" => Skips(c, "file")
  BY DEF Unpack
<1>4. PICK j : j = [k EXCEPT !.step = step]
  OBVIOUS
<1>5. job' \in [Commands -> Job] /\ job'[c] = j /\ \A d \in Commands \ {c} : job'[d] = job[d]
  BY <1>1, <1>2, <1>3, <1>4, Went DEF Steps
<1>6. j.step = step /\ j.want = k.want /\ j.resume = k.resume /\ j.keys = k.keys /\ j.page = k.page
  BY <1>1, <1>4 DEF Job
<1>7. TypeOK'
  BY <1>2, <1>3, <1>5 DEF TypeOK, archive
<1>8. step = "unit" => Covered(k.want) \/ (c = "history" /\ narrowed)
  <2>1. step = "unit" => k.resume /\ k.keys # {}
    BY <1>1, <1>3 DEF Skips
  <2>2. step = "unit" => c = "history" /\ k.want = Hours
    BY <1>1, <1>2, <2>1 DEF Fits, Commands
  <2> QED
    BY <1>1, <2>1, <2>2 DEF Fits
<1>9. Fits(c, j)
  BY <1>1, <1>2, <1>3, <1>6, <1>8 DEF Fits
<1>10. Fits(c, j)'
  BY <1>2, <1>9, FitsStays DEF archive
<1>11. \A n \in DOMAIN pages' : pages'[n] = SourcePage(n)
  BY <1>2 DEF ImportInv, PagesSound
<1>12. faults <= faults' /\ j.step # "end"
  BY <1>2, <1>6, HistoryAssumption DEF TypeOK
<1> QED
  BY <1>1, <1>2, <1>5, <1>6, <1>7, <1>10, <1>11, <1>12, GoesOn

LEMMA ParseKeeps ==
  ASSUME ImportInv, NEW c \in Commands, Unpacked(c) \/ Parse(c)
  PROVE  ImportInv'
<1>1. PICK k \in Job : k = job[c] /\ Fits(c, k)
  BY DEF ImportInv, TypeOK
<1>2. /\ k.step \in {"writing", "parse"} /\ TypeOK
      /\ UNCHANGED <<archive, db, pages, marks, narrowed, attempts, faults>>
  BY <1>1 DEF ImportInv, Unpacked, Parse, cache
<1>3. PICK step \in {"parse", "read", "end"} :
         Goto(c, step) /\ book' \in {book, "whole"} /\ (step = "read" => k.step = "parse")
  BY <1>1 DEF Unpacked, Parse, cache
<1>4. PICK j : j = [k EXCEPT !.step = step]
  OBVIOUS
<1>5. job' \in [Commands -> Job] /\ job'[c] = j /\ \A d \in Commands \ {c} : job'[d] = job[d]
  BY <1>1, <1>2, <1>3, <1>4, Went DEF Steps
<1>6. /\ j.step = step /\ j.want = k.want /\ j.resume = k.resume /\ j.keys = k.keys /\ j.page = k.page
  BY <1>1, <1>4 DEF Job
<1>7. TypeOK'
  BY <1>2, <1>3, <1>5 DEF TypeOK, archive
<1>8. source # "api"
  BY <1>1, <1>2 DEF Fits
<1>9. step = "read" => \A h \in j.want \intersect Available : PageOf(h) < j.page => h \in db
  <2>1. SUFFICES ASSUME step = "read", NEW h \in Available PROVE ~(PageOf(h) < j.page)
    OBVIOUS
  <2>2. h \in Hours
    BY <1>2, <2>1, Numbers DEF TypeOK, Available, Hours
  <2>3. j.page = 1
    BY <1>1, <1>2, <1>6 DEF Fits
  <2> QED
    BY <2>2, <2>3, Numbers
<1>10. Fits(c, j)
  BY <1>1, <1>2, <1>3, <1>6, <1>8, <1>9 DEF Fits
<1>11. Fits(c, j)'
  BY <1>2, <1>10, FitsStays DEF archive
<1>12. \A n \in DOMAIN pages' : pages'[n] = SourcePage(n)
  BY <1>2 DEF ImportInv, PagesSound
<1>13. faults <= faults'
  BY <1>2, HistoryAssumption DEF TypeOK
<1> QED
  BY <1>1, <1>2, <1>5, <1>6, <1>7, <1>8, <1>11, <1>12, <1>13, GoesOn

(* A page is the archive's, whether it was read or cached. *)
LEMMA ReadPageKeeps ==
  ASSUME ImportInv, NEW c \in Commands, ReadPage(c)
  PROVE  ImportInv'
<1>1. PICK k \in Job : k = job[c] /\ Fits(c, k)
  BY DEF ImportInv, TypeOK
<1>2. k.step = "read" /\ TypeOK /\ UNCHANGED <<archive, db, book, marks, narrowed, attempts, faults>>
  BY <1>1 DEF ImportInv, ReadPage
<1>3. PICK answer : /\ answer = SourcePage(k.page)
                    /\ pages' = IF source = "api" THEN Cached(k.page, answer) ELSE pages
                    /\ job' = [job EXCEPT ![c].step = "store", ![c].last = answer.last,
                                          ![c].rows = answer.rows \intersect job[c].want]
  BY <1>1 DEF ReadPage, ImportInv, PagesSound
<1>4. k.page \in Pages /\ answer \in Page
  BY <1>1, <1>2, <1>3, SourcePageShape DEF Job
<1>5. PICK j : j = [k EXCEPT !.step = "store", !.last = answer.last, !.rows = answer.rows \intersect k.want]
  OBVIOUS
<1>6. j \in Job
  BY <1>1, <1>4, <1>5 DEF Job, Page, Steps
<1>7. job' = [job EXCEPT ![c] = j]
  BY <1>1, <1>2, <1>3, <1>5 DEF TypeOK, Job
<1>8. job' \in [Commands -> Job] /\ job'[c] = j /\ \A d \in Commands \ {c} : job'[d] = job[d]
  BY <1>2, <1>6, <1>7, Replaced
<1>9. /\ j.step = "store" /\ j.want = k.want /\ j.resume = k.resume /\ j.keys = k.keys /\ j.page = k.page
      /\ j.rows = answer.rows \intersect k.want /\ j.last = answer.last
  BY <1>1, <1>5 DEF Job
<1>10. DOMAIN pages' \subseteq Pages /\ \A n \in DOMAIN pages' : pages'[n] = SourcePage(n)
  <2>1. DOMAIN pages \subseteq Pages /\ \A n \in DOMAIN pages : pages[n] = SourcePage(n)
    BY <1>2 DEF ImportInv, PagesSound, TypeOK
  <2>2. CASE pages' = Cached(k.page, answer)
    <3>1. Cached(k.page, answer) = [n \in {k.page} \union DOMAIN pages |->
                                      IF n = k.page THEN answer ELSE pages[n]]
      BY DEF Cached
    <3> QED
      BY <1>3, <1>4, <2>1, <2>2, <3>1
  <2> QED
    BY <1>3, <2>1, <2>2
<1>11. \A n \in DOMAIN pages' : pages'[n] \in Page
  BY <1>2, <1>10, SourcePageShape
<1>12. TypeOK'
  BY <1>2, <1>8, <1>10, <1>11 DEF TypeOK, archive
<1>13. Fits(c, j)
  BY <1>1, <1>2, <1>3, <1>9 DEF Fits
<1>14. Fits(c, j)'
  BY <1>2, <1>13, FitsStays DEF archive
<1>15. faults <= faults'
  BY <1>2, HistoryAssumption DEF TypeOK
<1> QED
  BY <1>1, <1>2, <1>8, <1>9, <1>10, <1>12, <1>14, <1>15, GoesOn

(* What is before the next page is stored; after the last page, everything is. *)
LEMMA StorePageKeeps ==
  ASSUME ImportInv, NEW c \in Commands, StorePage(c)
  PROVE  ImportInv'
<1>1. PICK k \in Job : k = job[c] /\ Fits(c, k)
  BY DEF ImportInv, TypeOK
<1>2. k.step = "store" /\ TypeOK /\ UNCHANGED <<archive, pages, book, marks, narrowed, attempts, faults>>
      /\ db' = db \union k.rows
  BY <1>1 DEF ImportInv, StorePage, cache
<1>3. Finished /\ k.page \in Pages /\ k.page \in Nat /\ PageOf(MaxHours) \in Nat
  BY <1>1, <1>2, Numbers DEF Fits, Job
<1>4. /\ k.rows = {h \in Available : PageOf(h) = k.page} \intersect k.want
      /\ k.last = (k.page >= PageOf(MaxHours))
  BY <1>1, <1>2, <1>3 DEF Fits, SourcePage, Finished
<1>5. \A h \in Available : h \in Hours \ Unmeasured /\ PageOf(h) \in Nat /\ PageOf(h) <= PageOf(MaxHours)
  BY <1>2, Numbers DEF TypeOK, Available, Hours
<1>6. Available' = Available
  BY <1>2 DEF archive, Available
<1>7. \A h \in k.want \intersect Available : PageOf(h) < k.page + 1 => h \in db'
  BY <1>1, <1>2, <1>3, <1>4, <1>5 DEF Fits
<1>8. db' \subseteq Hours \ Unmeasured
  BY <1>2, <1>4, <1>5 DEF TypeOK
<1>9. PICK j \in Job :
         /\ job' = [job EXCEPT ![c] = j]
         /\ \/ ~k.last /\ j.step = "read" /\ j.page = k.page + 1
            \/ /\ k.last /\ j.page = k.page
               /\ j.step = IF source = "api" THEN "unit" ELSE "file"
         /\ j.want = k.want /\ j.resume = k.resume /\ j.keys = k.keys
  <2>1. CASE ~k.last
    <3>1. PICK j : j = [k EXCEPT !.step = "read", !.page = @ + 1]
      OBVIOUS
    <3>2. k.page + 1 \in Pages
      <4>1. PICK m, n \in Nat : m = k.page /\ n = PageOf(MaxHours)
        BY <1>3
      <4>2. ~(m >= n)
        BY <1>4, <2>1, <4>1
      <4> QED
        BY <4>1, <4>2 DEF Pages
    <3>3. j \in Job /\ j.step = "read" /\ j.page = k.page + 1
          /\ j.want = k.want /\ j.resume = k.resume /\ j.keys = k.keys
      BY <1>1, <3>1, <3>2 DEF Job, Steps
    <3>4. job' = [job EXCEPT ![c] = j]
      BY <1>1, <1>2, <2>1, <3>1 DEF StorePage, TypeOK, Job
    <3> QED
      BY <2>1, <3>3, <3>4
  <2>2. CASE k.last
    <3>1. PICK step \in {"unit", "file"} : step = IF source = "api" THEN "unit" ELSE "file"
      OBVIOUS
    <3>2. PICK j : j = [k EXCEPT !.step = step]
      OBVIOUS
    <3>3. j \in Job /\ j.step = step /\ j.page = k.page
          /\ j.want = k.want /\ j.resume = k.resume /\ j.keys = k.keys
      BY <1>1, <3>2 DEF Job, Steps
    <3>4. job' = [job EXCEPT ![c] = j]
      BY <1>1, <1>2, <2>2, <3>1, <3>2 DEF StorePage, TypeOK, Job
    <3> QED
      BY <2>2, <3>1, <3>3, <3>4
  <2> QED
    BY <2>1, <2>2
<1>10. job' \in [Commands -> Job] /\ job'[c] = j /\ \A d \in Commands \ {c} : job'[d] = job[d]
  BY <1>2, <1>9, Replaced
<1>11. TypeOK'
  BY <1>2, <1>8, <1>10 DEF TypeOK, archive
<1>12. j.step \in {"file", "unit"} => Covered(k.want)'
  <2>1. SUFFICES ASSUME j.step \in {"file", "unit"}, NEW h \in k.want \intersect Available PROVE h \in db'
    BY <1>6 DEF Covered
  <2>2. k.page >= PageOf(MaxHours)
    BY <1>4, <1>9, <2>1
  <2>3. PageOf(h) < k.page + 1
    BY <1>3, <1>5, <2>1, <2>2
  <2> QED
    BY <1>7, <2>3
<1>13. Fits(c, k)'
  BY <1>1, <1>2, FitsStays DEF archive
<1>14. Fits(c, j)'
  <2>1. j.step = "read" => \A h \in j.want \intersect Available' : PageOf(h) < j.page => h \in db'
    BY <1>6, <1>7, <1>9
  <2>2. j.step \in {"read", "unit", "file"} /\ (source = "api" => j.step # "file")
    BY <1>9
  <2> QED
    BY <1>2, <1>9, <1>12, <1>13, <2>1, <2>2 DEF Fits, archive
<1>15. \A n \in DOMAIN pages' : pages'[n] = SourcePage(n)
  BY <1>2 DEF ImportInv, PagesSound
<1>16. faults <= faults' /\ j.step # "end"
  BY <1>2, <1>9, HistoryAssumption DEF TypeOK
<1> QED
  BY <1>1, <1>2, <1>9, <1>10, <1>11, <1>14, <1>15, <1>16, GoesOn

(* The importer marks what it has stored. *)
LEMMA MarkKeeps ==
  ASSUME ImportInv, NEW c \in Commands, MarkFile(c) \/ MarkUnit(c)
  PROVE  ImportInv'
<1>1. PICK k \in Job : k = job[c] /\ Fits(c, k)
  BY DEF ImportInv, TypeOK
<1>2. PICK key \in {"file", "unit"}, next \in {"unit", "end"} :
         Mark(c, key, next) /\ (key = "file" => next = "unit")
  BY DEF MarkFile, MarkUnit
<1>3. /\ k.step = key /\ TypeOK /\ UNCHANGED <<archive, db, pages, book, attempts, faults>>
      /\ marks' = k.keys \union {key} /\ narrowed' = (narrowed \/ c = "range")
      /\ job' = [job EXCEPT ![c].step = next, ![c].keys = marks']
  BY <1>1, <1>2 DEF Mark, ImportInv, cache
<1>4. marks' \subseteq Keys
  BY <1>1, <1>3 DEF Job, Keys
<1>5. PICK now \in SUBSET Keys : now = marks'
  BY <1>4
<1>6. PICK j : j = [k EXCEPT !.step = next, !.keys = now]
  OBVIOUS
<1>7. j \in Job
  BY <1>1, <1>5, <1>6 DEF Job, Steps
<1>8. job' = [job EXCEPT ![c] = j]
  BY <1>1, <1>3, <1>5, <1>6 DEF TypeOK, Job
<1>9. job' \in [Commands -> Job] /\ job'[c] = j /\ \A d \in Commands \ {c} : job'[d] = job[d]
  BY <1>3, <1>7, <1>8, Replaced
<1>10. /\ j.step = next /\ j.want = k.want /\ j.resume = k.resume /\ j.keys = now /\ j.page = k.page
  BY <1>1, <1>6 DEF Job
<1>11. narrowed' \in BOOLEAN /\ (narrowed => narrowed')
  BY <1>3 DEF TypeOK
<1>12. TypeOK'
  BY <1>3, <1>4, <1>9, <1>11 DEF TypeOK, archive
<1>13. Covered(k.want) \/ (c = "history" /\ narrowed)
  BY <1>1, <1>3 DEF Fits
<1>14. c = "history" => k.want = Hours
  BY <1>1, <1>3 DEF Fits
<1>15. ~narrowed' => Covered(Hours)
  BY <1>3, <1>13, <1>14 DEF Commands
<1>16. \A w : Covered(w) => Covered(w)'
  BY <1>3 DEF archive, Covered, Available
<1>17. Fits(c, k)'
  BY <1>1, <1>3, <1>11, FitsStays DEF archive
<1>18. Fits(c, j)'
  BY <1>3, <1>10, <1>11, <1>13, <1>15, <1>16, <1>17 DEF Fits, archive
<1>19. \A n \in DOMAIN pages' : pages'[n] = SourcePage(n)
  BY <1>3 DEF ImportInv, PagesSound
<1>20. MarksSound'
  BY <1>15, <1>16 DEF MarksSound
<1>21. faults <= faults'
  BY <1>3, HistoryAssumption DEF TypeOK
<1>22. c = "range" => Covered(k.want)
  BY <1>13
<1>23. k.step \notin {"idle", "audit"} /\ db \subseteq db' /\ UNCHANGED <<archive, attempts>>
  BY <1>3
<1>24. (narrowed => narrowed') /\ j.want = k.want
  BY <1>10, <1>11
<1> QED
  BY <1>1, <1>9, <1>12, <1>18, <1>19, <1>20, <1>21, <1>22, <1>23, <1>24, GoesOn

(* A call that fails costs one of the faults. *)
LEMMA ErrorKeeps ==
  ASSUME ImportInv, NEW c \in Commands, Error(c)
  PROVE  ImportInv'
<1>1. PICK k \in Job : k = job[c] /\ Fits(c, k)
  BY DEF ImportInv, TypeOK
<1>2. /\ k.step \in {"unpack", "read", "store"} /\ TypeOK /\ Goto(c, "end")
      /\ UNCHANGED <<archive, db, pages, book, marks, narrowed, attempts>>
      /\ faults < MaxFaults /\ faults' = faults + 1
  BY <1>1 DEF ImportInv, Error, Raises, Fault, cache
<1>3. PICK j : j = [k EXCEPT !.step = "end"]
  OBVIOUS
<1>4. job' \in [Commands -> Job] /\ job'[c] = j /\ \A d \in Commands \ {c} : job'[d] = job[d]
  BY <1>1, <1>2, <1>3, Went DEF Steps
<1>5. j.step = "end" /\ j.want = k.want /\ j.resume = k.resume /\ j.keys = k.keys
  BY <1>1, <1>3 DEF Job
<1>6. faults' \in 0..MaxFaults /\ faults < faults' /\ faults <= faults'
  BY <1>2, HistoryAssumption DEF TypeOK
<1>7. TypeOK'
  BY <1>2, <1>4, <1>6 DEF TypeOK, archive
<1>8. Fits(c, j)
  BY <1>1, <1>2, <1>5 DEF Fits
<1>9. Fits(c, j)'
  BY <1>2, <1>8, FitsStays DEF archive
<1>10. \A n \in DOMAIN pages' : pages'[n] = SourcePage(n)
  BY <1>2 DEF ImportInv, PagesSound
<1> QED
  BY <1>1, <1>2, <1>4, <1>5, <1>6, <1>7, <1>9, <1>10, GoesOn

(* A command that ends without an audit, or dies. *)
LEMMA Stopped ==
  ASSUME ImportInv, NEW c \in Commands, job[c].step # "idle", job' = [job EXCEPT ![c] = NoJob],
         UNCHANGED <<archive, db, pages, book, marks, narrowed, attempts>>,
         faults' \in 0..MaxFaults, faults <= faults'
  PROVE  ImportInv'
<1>1. PICK k \in Job : k = job[c] /\ Fits(c, k)
  BY DEF ImportInv, TypeOK
<1>2. Finished /\ TypeOK
  BY <1>1 DEF Fits, ImportInv
<1>3. PICK j \in Job : j = NoJob /\ j.step = "idle" /\ j.keys = {} /\ ~j.resume
  BY NoJobType DEF NoJob
<1>4. job' \in [Commands -> Job] /\ job'[c] = j /\ \A d \in Commands \ {c} : job'[d] = job[d]
  BY <1>2, <1>3, Replaced
<1>5. TypeOK'
  BY <1>2, <1>4 DEF TypeOK, archive
<1>6. Fits(c, j)'
  BY <1>3 DEF Fits
<1>7. \A n \in DOMAIN pages' : pages'[n] = SourcePage(n)
  BY DEF ImportInv, PagesSound
<1>8. ASSUME c = "range" PROVE StillTrying(j) /\ \A w \in SUBSET Hours : Tried(w, j)'
  <2>1. ASSUME NEW w \in SUBSET Hours PROVE Tried(w, j)'
    <3>1. Tried(w, k) /\ attempts[w] \in Nat /\ faults \in Nat /\ faults' \in Nat
      BY <1>1, <1>2, <1>8, HistoryAssumption DEF ImportInv, TypeOK
    <3> QED
      BY <1>3, <3>1, TriedStays DEF archive
  <2> QED
    BY <1>3, <2>1 DEF StillTrying
<1> QED
  BY <1>2, <1>3, <1>4, <1>5, <1>6, <1>7, <1>8, Assembled

LEMMA StopKeeps ==
  ASSUME ImportInv, NEW c \in Commands, EndHistory \/ Killed(c)
  PROVE  ImportInv'
<1>1. TypeOK
  BY DEF ImportInv
<1>2. CASE EndHistory
  <2>1. /\ "history" \in Commands /\ job["history"].step # "idle"
        /\ job' = [job EXCEPT !["history"] = NoJob]
        /\ UNCHANGED <<archive, db, pages, book, marks, narrowed, attempts>>
        /\ faults' \in 0..MaxFaults /\ faults <= faults'
    BY <1>1, <1>2, HistoryAssumption DEF EndHistory, Begins, Commands, cache, TypeOK
  <2> QED
    BY <2>1, Stopped
<1>3. CASE Killed(c)
  <2>1. /\ job[c].step # "idle" /\ job' = [job EXCEPT ![c] = NoJob]
        /\ UNCHANGED <<archive, db, pages, book, marks, narrowed, attempts>>
        /\ faults' \in 0..MaxFaults /\ faults <= faults'
    BY <1>1, <1>3, HistoryAssumption DEF Killed, Begins, Fault, cache, TypeOK
  <2> QED
    BY <2>1, Stopped
<1> QED
  BY <1>2, <1>3

(* A command that begins, or whose audit ends, with a job of its own. *)
LEMMA Started ==
  ASSUME ImportInv, Finished, NEW c \in Commands, NEW j \in Job, job' = [job EXCEPT ![c] = j],
         UNCHANGED <<archive, db, cache, marks, narrowed, attempts, faults>>,
         Fits(c, j), j.step # "end", c = "range" => StillTrying(j)
  PROVE  ImportInv'
<1>1. TypeOK /\ UNCHANGED <<pages, book>>
  BY DEF ImportInv, cache
<1>2. job' \in [Commands -> Job] /\ job'[c] = j /\ \A d \in Commands \ {c} : job'[d] = job[d]
  BY <1>1, Replaced
<1>3. TypeOK'
  BY <1>1, <1>2 DEF TypeOK, archive
<1>4. Fits(c, j)'
  BY FitsStays DEF archive
<1>5. \A n \in DOMAIN pages' : pages'[n] = SourcePage(n)
  BY <1>1 DEF ImportInv, PagesSound
<1>6. faults <= faults' /\ faults \in Nat /\ faults' \in Nat
  BY <1>1, HistoryAssumption DEF TypeOK
<1>7. ASSUME c = "range" PROVE \A w \in SUBSET Hours : Tried(w, j)'
  <2>1. SUFFICES ASSUME NEW w \in SUBSET Hours PROVE Tried(w, j)'
    OBVIOUS
  <2>2. PICK k : k = job["range"]
    OBVIOUS
  <2>3. Tried(w, k) /\ attempts[w] \in Nat
    BY <1>1, <2>2, HistoryAssumption DEF ImportInv, TypeOK
  <2> QED
    BY <1>6, <2>3, TriedStays DEF archive
<1> QED
  BY <1>2, <1>3, <1>4, <1>5, <1>6, <1>7, Assembled

LEMMA FirstSteps ==
  FirstStep \in Steps /\ FirstStep \in {"read", "unpack"} /\ (source = "api" <=> FirstStep = "read")
  BY DEF FirstStep, Steps

LEMMA NothingBefore ==
  ASSUME TypeOK
  PROVE  \A h \in Available : ~(PageOf(h) < 1)
<1>1. \A h \in Available : h \in Hours
  BY Numbers DEF TypeOK, Available, Hours
<1> QED
  BY <1>1, Numbers

LEMMA StartHistoryKeeps ==
  ASSUME ImportInv, ~Early, StartHistory
  PROVE  ImportInv'
<1>1. TypeOK /\ Finished /\ Hours \subseteq Hours
  BY DEF ImportInv, StartHistory, YearIsReady, Finished
<1>2. PICK resume, refresh \in BOOLEAN :
         job' = [job EXCEPT !["history"] = [NoJob EXCEPT !.step = FirstStep, !.keys = marks, !.want = Hours,
                                                         !.resume = resume, !.refresh = refresh]]
  BY DEF StartHistory, Begins
<1>3. PICK step, keys : step = FirstStep /\ keys = marks /\ step \in Steps /\ keys \subseteq Keys
  BY <1>1, FirstSteps DEF TypeOK
<1>4. PICK j : j = [NoJob EXCEPT !.step = step, !.keys = keys, !.want = Hours,
                                 !.resume = resume, !.refresh = refresh]
  OBVIOUS
<1>5. /\ j \in Job /\ j.step = step /\ j.keys = keys /\ j.want = Hours /\ j.page = 1
      /\ j.resume = resume
  BY <1>3, <1>4, NoJobType DEF NoJob, Job
<1>6. job' = [job EXCEPT !["history"] = j]
  BY <1>2, <1>3, <1>4
<1>7. ~narrowed /\ keys # {} => Covered(Hours)
  BY <1>3 DEF ImportInv, MarksSound
<1>8. step \in {"read", "unpack"} /\ (source = "api" => step = "read")
  BY <1>3, FirstSteps
<1>9. \A h \in j.want \intersect Available : PageOf(h) < j.page => h \in db
  BY <1>1, <1>5, NothingBefore
<1>10. Fits("history", j)
  BY <1>1, <1>5, <1>7, <1>8, <1>9 DEF Fits
<1>11. "history" \in Commands /\ UNCHANGED <<archive, db, cache, marks, narrowed, attempts, faults>>
  BY DEF StartHistory, Commands
<1> QED
  BY <1>1, <1>5, <1>6, <1>8, <1>10, <1>11, Started

LEMMA PlanRangeKeeps ==
  ASSUME ImportInv, ~Early, NEW request \in Requests, PlanRange(request)
  PROVE  ImportInv'
<1>1. TypeOK /\ Finished
  BY DEF ImportInv, PlanRange, YearIsReady, Finished
<1>2. PICK want \in SUBSET Hours : want = Planned(request)
  BY HistoryAssumption DEF Planned, Missing
<1>3. PICK j : j = [NoJob EXCEPT !.step = "audit", !.want = want]
  OBVIOUS
<1>4. j \in Job /\ j.step = "audit" /\ j.want = want /\ j.page = 1 /\ ~j.resume
  BY <1>3, NoJobType DEF NoJob, Job, Steps
<1>5. job' = [job EXCEPT !["range"] = j]
  BY <1>2, <1>3 DEF PlanRange, Begins
<1>6. Fits("range", j) /\ StillTrying(j)
  BY <1>1, <1>4 DEF Fits, StillTrying
<1>7. "range" \in Commands /\ UNCHANGED <<archive, db, cache, marks, narrowed, attempts, faults>>
  BY DEF PlanRange, Commands
<1> QED
  BY <1>1, <1>4, <1>5, <1>6, <1>7, Started

LEMMA BeginRangeKeeps ==
  ASSUME ImportInv, BeginRange
  PROVE  ImportInv'
<1>1. PICK k \in Job : k = job["range"] /\ Fits("range", k) /\ k.step = "audit" /\ TypeOK /\ Finished
  BY DEF ImportInv, TypeOK, Commands, BeginRange, Fits
<1>2. "range" \in Commands /\ UNCHANGED <<archive, db, cache, marks, narrowed, attempts, faults>>
  BY DEF BeginRange, Commands
<1>3. k.want \in SUBSET Hours /\ attempts[k.want] \in 0..MaxAttempts /\ k.want \ db \in SUBSET Hours
  BY <1>1 DEF TypeOK, Job
<1>4. CASE job' = [job EXCEPT !["range"] = NoJob]
  <2>1. PICK j \in Job : j = NoJob /\ j.step = "idle" /\ ~j.resume
    BY NoJobType DEF NoJob
  <2>2. Fits("range", j) /\ StillTrying(j)
    BY <2>1 DEF Fits, StillTrying
  <2> QED
    BY <1>1, <1>2, <1>4, <2>1, <2>2, Started
<1>5. CASE /\ attempts[k.want] < MaxAttempts
           /\ job' = [job EXCEPT !["range"] = [job["range"] EXCEPT !.step = FirstStep, !.keys = marks,
                                                                  !.before = Cardinality(k.want \ db)]]
  <2>1. PICK step, keys, before : /\ step = FirstStep /\ keys = marks /\ before = Cardinality(k.want \ db)
                                  /\ step \in Steps /\ keys \subseteq Keys /\ before \in 0..MaxHours
    BY <1>1, <1>3, Size, FirstSteps DEF TypeOK
  <2>2. PICK j : j = [k EXCEPT !.step = step, !.keys = keys, !.before = before]
    OBVIOUS
  <2>3. j \in Job /\ j.step = step /\ j.want = k.want /\ j.page = k.page /\ j.resume = k.resume
    BY <1>1, <2>1, <2>2 DEF Job
  <2>4. job' = [job EXCEPT !["range"] = j]
    BY <1>1, <1>5, <2>1, <2>2
  <2>5. step \in {"read", "unpack"} /\ (source = "api" => step = "read")
    BY <2>1, FirstSteps
  <2>6. j.page = 1 /\ ~j.resume
    BY <1>1, <2>3 DEF Fits
  <2>7. \A h \in j.want \intersect Available : PageOf(h) < j.page => h \in db
    BY <1>1, <2>6, NothingBefore
  <2>8. Fits("range", j) /\ StillTrying(j)
    BY <1>1, <1>5, <2>3, <2>5, <2>6, <2>7 DEF Fits, StillTrying
  <2> QED
    BY <1>1, <1>2, <2>3, <2>4, <2>5, <2>8, Started
<1>6. attempts[k.want] >= MaxAttempts \/ attempts[k.want] < MaxAttempts
  BY <1>3, HistoryAssumption
<1> QED
  BY <1>1, <1>4, <1>5, <1>6 DEF BeginRange, Begins

(* An attempt without progress is counted; the hours it leaves are not in the *)
(* archive, or a call has failed.                                             *)
LEMMA EndRangeKeeps ==
  ASSUME ImportInv, EndRange
  PROVE  ImportInv'
<1>1. PICK k \in Job : k = job["range"] /\ Fits("range", k) /\ k.step = "end" /\ TypeOK /\ Finished
  BY DEF ImportInv, TypeOK, Commands, EndRange, Fits
<1>2. /\ "range" \in Commands /\ UNCHANGED <<archive, db, pages, book, marks, narrowed, faults>>
      /\ job' = [job EXCEPT !["range"] = NoJob]
  BY DEF EndRange, Commands, Begins, cache
<1>3. k.want \in SUBSET Hours /\ attempts[k.want] < MaxAttempts
  BY <1>1 DEF Job, ImportInv, StillTrying
<1>4. PICK n \in 0..MaxAttempts : /\ attempts' = [attempts EXCEPT ![k.want] = n]
                                  /\ n = 0 \/ n = attempts[k.want] + 1
  <2>1. attempts[k.want] \in 0..MaxAttempts
    BY <1>1, <1>3 DEF TypeOK
  <2>2. 0 \in 0..MaxAttempts /\ attempts[k.want] + 1 \in 0..MaxAttempts
    BY <1>3, <2>1, HistoryAssumption
  <2> QED
    BY <1>1, <2>2 DEF EndRange
<1>5. attempts' \in [SUBSET Hours -> 0..MaxAttempts]
  BY <1>1, <1>3, <1>4 DEF TypeOK
<1>6. PICK j \in Job : j = NoJob /\ j.step = "idle" /\ ~j.resume
  BY NoJobType DEF NoJob
<1>7. job' \in [Commands -> Job] /\ job'["range"] = j /\ \A d \in Commands \ {"range"} : job'[d] = job[d]
  BY <1>1, <1>2, <1>6, Replaced
<1>8. TypeOK'
  BY <1>1, <1>2, <1>5, <1>7 DEF TypeOK, archive
<1>9. Available' = Available /\ (\A m : SourcePage(m)' = SourcePage(m))
      /\ \A w : Covered(w)' <=> Covered(w)
  BY <1>2 DEF Available, SourcePage, Covered, archive
<1>10. NothingYet' /\ PagesSound' /\ MarksSound'
  BY <1>1, <1>2, <1>9 DEF ImportInv, NothingYet, Finished, PagesSound, MarksSound, archive
<1>11. ASSUME NEW d \in Commands PROVE Fits(d, job[d])'
  <2>1. CASE d = "range"
    BY <1>6, <1>7, <2>1 DEF Fits
  <2>2. CASE d # "range"
    <3>1. PICK i : i = job[d] /\ Fits(d, i)
      BY DEF ImportInv
    <3>2. Fits(d, i)'
      BY <1>2, <3>1, FitsStays DEF archive
    <3> QED
      BY <1>7, <2>2, <3>1, <3>2 DEF Fits
  <2> QED
    BY <2>1, <2>2
<1>12. ASSUME NEW w \in SUBSET Hours PROVE Tried(w, job["range"])'
  <2>1. Tried(w, k)
    BY <1>1 DEF ImportInv
  <2>2. attempts[w] \in Nat /\ faults \in Nat /\ faults' = faults
    BY <1>1, <1>2, HistoryAssumption DEF TypeOK
  <2>3. ASSUME source = "api", ~Covered(w) PROVE attempts'[w] <= faults
    <3>1. CASE w = k.want
      <4>1. attempts[w] < faults
        BY <1>1, <2>1, <2>3, <3>1 DEF Tried
      <4>2. attempts'[w] = n
        BY <1>1, <1>3, <1>4, <3>1 DEF TypeOK
      <4> QED
        BY <1>4, <2>2, <3>1, <4>1, <4>2
    <3>2. CASE w # k.want
      BY <1>1, <1>4, <2>1, <2>3, <3>2 DEF Tried, TypeOK
    <3> QED
      BY <3>1, <3>2
  <2>4. job'["range"].step # "end"
    BY <1>6, <1>7
  <2>5. source' = source
    BY <1>2 DEF archive
  <2> QED
    BY <1>9, <2>2, <2>3, <2>4, <2>5 DEF Tried
<1>13. StillTrying(job["range"])'
  BY <1>6, <1>7 DEF StillTrying
<1> QED
  BY <1>8, <1>10, <1>11, <1>12, <1>13 DEF ImportInv

(* While the year runs, nothing is begun. *)
LEMMA Quiet ==
  ASSUME ImportInv, ~Finished, TypeOK',
         UNCHANGED <<source, cache, marks, narrowed, attempts, job, faults>>
  PROVE  ImportInv'
<1>1. TypeOK /\ marks = {} /\ DOMAIN pages = {} /\ \A w \in SUBSET Hours : attempts[w] = 0
  BY DEF ImportInv, NothingYet
<1>2. \A c \in Commands : job[c] = NoJob
  BY DEF ImportInv, Fits
<1>3. NothingYet' /\ PagesSound' /\ MarksSound'
  BY <1>1 DEF NothingYet, PagesSound, MarksSound, cache
<1>4. \A c \in Commands : Fits(c, job[c])'
  BY <1>2, NoJobType DEF Fits, NoJob
<1>5. StillTrying(job["range"])'
  BY <1>2, NoJobType DEF StillTrying, Commands
<1>6. ASSUME NEW w \in SUBSET Hours PROVE Tried(w, job["range"])'
  <2>1. attempts'[w] = 0 /\ faults' \in Nat
    BY <1>1, HistoryAssumption DEF TypeOK
  <2>2. job'["range"].step = "idle"
    BY <1>2, NoJobType DEF Commands
  <2> QED
    BY <2>1, <2>2 DEF Tried
<1> QED
  BY <1>3, <1>4, <1>5, <1>6 DEF ImportInv

LEMMA YearKeeps ==
  ASSUME ImportInv, HourPasses \/ Publish
  PROVE  ImportInv'
<1>1. TypeOK /\ MaxHours \in Nat /\ due \in 0..MaxHours /\ published \in 0..due
  BY HistoryAssumption DEF ImportInv, TypeOK
<1>2. CASE HourPasses
  <2>1. /\ due' = due + 1 /\ due < MaxHours /\ db' \in {db, db \union ({due + 1} \ Unmeasured)}
        /\ UNCHANGED <<source, published, pages, book, marks, narrowed, attempts, job, faults>>
    BY <1>2 DEF HourPasses, cache
  <2>2. ~Finished
    BY <1>1, <2>1 DEF Finished
  <2>3. due' \in 0..MaxHours /\ published' \in 0..due' /\ due + 1 \in Hours
    BY <1>1, <2>1 DEF Hours
  <2>4. db' \subseteq Hours \ Unmeasured
    BY <1>1, <2>1, <2>3 DEF TypeOK
  <2>5. TypeOK'
    BY <1>1, <2>1, <2>3, <2>4 DEF TypeOK
  <2> QED
    BY <2>1, <2>2, <2>5, Quiet DEF cache
<1>3. CASE Publish
  <2>1. /\ published < due /\ published' = published + 1
        /\ UNCHANGED <<source, due, db, pages, book, marks, narrowed, attempts, job, faults>>
    BY <1>3 DEF Publish, cache
  <2>2. ~Finished /\ published' \in 0..due'
    BY <1>1, <2>1 DEF Finished
  <2>3. TypeOK'
    BY <1>1, <2>1, <2>2 DEF TypeOK
  <2> QED
    BY <2>1, <2>2, <2>3, Quiet DEF cache
<1> QED
  BY <1>2, <1>3

LEMMA ImportInit ==
  Init => ImportInv
<1> SUFFICES ASSUME Init PROVE ImportInv
  OBVIOUS
<1>1. TypeOK
  <2>1. MaxHours \in Nat /\ MaxAttempts \in Nat /\ MaxFaults \in Nat
    BY HistoryAssumption
  <2>2. source \in Sources /\ due = 0 /\ published = 0 /\ faults = 0 /\ db = {}
    BY DEF Init
  <2>3. due \in 0..MaxHours /\ published \in 0..due /\ faults \in 0..MaxFaults
    BY <2>1, <2>2
  <2>4. attempts \in [SUBSET Hours -> 0..MaxAttempts] /\ job \in [Commands -> Job]
    BY <2>1, NoJobType DEF Init
  <2>5. DOMAIN pages = {} /\ book = "absent" /\ marks = {} /\ narrowed = FALSE
    BY DEF Init
  <2> QED
    BY <2>2, <2>3, <2>4, <2>5 DEF TypeOK
<1>2. NothingYet /\ PagesSound /\ MarksSound
  BY DEF Init, NothingYet, PagesSound, MarksSound
<1>3. \A c \in Commands : Fits(c, job[c])
  BY NoJobType DEF Init, Fits, NoJob
<1>4. job["range"].step = "idle"
  BY NoJobType DEF Init, Commands
<1>5. \A w \in SUBSET Hours : Tried(w, job["range"])
  BY <1>4 DEF Init, Tried
<1>6. StillTrying(job["range"])
  BY <1>4 DEF StillTrying
<1> QED
  BY <1>1, <1>2, <1>3, <1>5, <1>6 DEF ImportInv

LEMMA ImportStays ==
  ASSUME ImportInv, UNCHANGED vars
  PROVE  ImportInv'
<1>1. /\ UNCHANGED <<source, due, published, db, pages, book, marks, narrowed, attempts, job, faults>>
  BY DEF vars, archive, cache
<1>2. TypeOK' /\ NothingYet' /\ PagesSound' /\ MarksSound'
  BY <1>1 DEF ImportInv, TypeOK, NothingYet, Finished, PagesSound, SourcePage, MarksSound, Covered, Available
<1>3. \A c \in Commands : Fits(c, job[c])'
  BY <1>1 DEF ImportInv, Fits, Finished, SourcePage, Covered, Available
<1>4. \A w \in SUBSET Hours : Tried(w, job["range"])'
  BY <1>1 DEF ImportInv, Tried, Covered, Available
<1>5. StillTrying(job["range"])'
  BY <1>1 DEF ImportInv, StillTrying
<1> QED
  BY <1>2, <1>3, <1>4, <1>5 DEF ImportInv

LEMMA ImportSteps ==
  ASSUME ImportInv, ~Early, [Next]_vars
  PROVE  ImportInv'
<1>1. ASSUME NEW c \in Commands, Import(c) PROVE ImportInv'
  BY <1>1, UnpackKeeps, ParseKeeps, ReadPageKeeps, StorePageKeeps, MarkKeeps DEF Import
<1>2. CASE HourPasses \/ Publish
  BY <1>2, YearKeeps
<1>3. CASE StartHistory
  BY <1>3, StartHistoryKeeps
<1>4. CASE History
  BY <1>1, <1>4, StopKeeps DEF History, Commands
<1>5. CASE \E request \in Requests : PlanRange(request)
  BY <1>5, PlanRangeKeeps
<1>6. CASE Ranges
  BY <1>1, <1>6, BeginRangeKeeps, EndRangeKeeps DEF Ranges, Commands
<1>7. CASE \E c \in Commands : Error(c) \/ Killed(c)
  BY <1>7, ErrorKeeps, StopKeeps
<1>8. CASE UNCHANGED vars
  BY <1>8, ImportStays
<1> QED
  BY <1>2, <1>3, <1>4, <1>5, <1>6, <1>7, <1>8 DEF Next

-----------------------------------------------------------------------------
(* When imports begin after the year's end: the types, and a unit that        *)
(* state.json calls completed is in the database, through killed processes,   *)
(* failing calls and the other command, as long as no range import has        *)
(* written marks (gios_history.py, the handler of the unit and mark).         *)
THEOREM ImportSafeHolds ==
  ASSUME ~Early
  PROVE  Spec => []Safe
<1>1. ImportInv => Safe
  <2> SUFFICES ASSUME ImportInv, ~narrowed, "unit" \in marks PROVE Available \subseteq db
    BY DEF ImportInv, Safe, OwnMarkMeansImported, MarkMeansImported
  <2>1. Available \subseteq Hours
    BY Numbers DEF ImportInv, TypeOK, Available, Hours
  <2>2. Covered(Hours)
    BY DEF ImportInv, MarksSound
  <2> QED
    BY <2>1, <2>2 DEF Covered
<1>2. ImportInv /\ [Next]_vars => ImportInv'
  BY ImportSteps
<1> QED
  BY <1>1, <1>2, ImportInit, PTL DEF Spec

(* And when fewer calls fail than attempts are allowed, the hours that the    *)
(* filling of ranges gives up (skipped_no_progress) are none that the archive *)
(* has: an attempt that stores all the archive has leaves nothing missing of  *)
(* it, so that every attempt short of that took a failure of its own.         *)
THEOREM GivenUpHolds ==
  ASSUME ~Early, MaxFaults < MaxAttempts
  PROVE  Spec => []GivenUpIsUnmeasured
<1>1. ImportInv => GivenUpIsUnmeasured
  <2> SUFFICES ASSUME ImportInv, source = "api", NEW w \in SUBSET Hours,
                      attempts[w] = MaxAttempts, ~Covered(w)
               PROVE  FALSE
    BY DEF GivenUpIsUnmeasured, Covered
  <2>1. attempts[w] <= faults
    BY DEF ImportInv, Tried
  <2>2. faults \in 0..MaxFaults /\ MaxFaults \in Nat /\ MaxAttempts \in Nat
    BY HistoryAssumption DEF ImportInv, TypeOK
  <2> QED
    BY <2>1, <2>2
<1>2. ImportInv /\ [Next]_vars => ImportInv'
  BY ImportSteps
<1> QED
  BY <1>1, <1>2, ImportInit, PTL DEF Spec

-----------------------------------------------------------------------------
(* The training data: layers and their order                               *)

LEMMA LeastNumber ==
  ASSUME NEW S \in SUBSET Nat, S # {}
  PROVE  \E p \in S : \A q \in S : p <= q
<1> DEFINE Less == {pair \in Nat \X Nat : pair[1] < pair[2]}
<1>1. IsWellFoundedOn(Less, Nat)
  BY NatLessThanWellFounded DEF OpToRel
<1>2. PICK p \in S : \A q \in S : <<q, p>> \notin Less
  <2> HIDE DEF Less
  <2> QED
    BY <1>1, WFMin
<1>3. ASSUME NEW q \in S, q < p
      PROVE  FALSE
  <2>1. <<q, p>> \in Nat \X Nat /\ <<q, p>>[1] = q /\ <<q, p>>[2] = p
    BY <1>2
  <2> QED
    BY <1>2, <1>3, <2>1
<1> QED
  BY <1>2, <1>3

LEMMA NewestThere ==
  ASSUME NEW b \in Nat, NEW S \in SUBSET (0..b), S # {}
  PROVE  Newest(S) \in S /\ \A y \in S : y <= Newest(S)
<1> DEFINE Gaps == {b - h : h \in S}
<1>0. \A h \in S : h \in Int /\ b - h \in Nat
  OBVIOUS
<1>1. Gaps \in SUBSET Nat /\ Gaps # {}
  BY <1>0
<1>2. PICK n \in Gaps : \A m \in Gaps : n <= m
  BY <1>1, LeastNumber
<1>3. PICK h \in S : n = b - h
  BY <1>2
<1>4. \A g \in S : b - g \in Gaps
  OBVIOUS
<1>5. \A g \in S : n <= b - g
  BY <1>2, <1>4
<1>6. \E x \in S : \A y \in S : y <= x
  <2> HIDE DEF Gaps
  <2>1. \A g \in S : g <= h
    BY <1>0, <1>3, <1>5
  <2> QED
    BY <2>1
<1> QED
  BY <1>6 DEF Newest

\* What the first n deltas say: the last of them that has the row.
SaysBy(deltas, n, r) == {i \in 1..n : deltas[i][r] # Kept}
LayeredBy(table, deltas, n) ==
    [r \in Ids |-> IF SaysBy(deltas, n, r) = {} THEN table[r]
                   ELSE deltas[Newest(SaysBy(deltas, n, r))][r]]

LEMMA NewestSays ==
  ASSUME NEW deltas, NEW n \in Nat, NEW r, SaysBy(deltas, n, r) # {}
  PROVE  /\ Newest(SaysBy(deltas, n, r)) \in SaysBy(deltas, n, r)
         /\ \A i \in SaysBy(deltas, n, r) : i <= Newest(SaysBy(deltas, n, r))
<1>1. SaysBy(deltas, n, r) \in SUBSET (0..n)
  BY DEF SaysBy
<1> QED
  BY <1>1, NewestThere

LEMMA LayeredByNext ==
  ASSUME NEW table, NEW deltas, NEW n \in Nat, NEW r \in Ids
  PROVE  LayeredBy(table, deltas, n + 1)[r] =
            IF deltas[n + 1][r] # Kept THEN deltas[n + 1][r]
            ELSE LayeredBy(table, deltas, n)[r]
<1> DEFINE before == SaysBy(deltas, n, r)
           after == SaysBy(deltas, n + 1, r)
<1>1. CASE deltas[n + 1][r] # Kept
  <2>1. n + 1 \in after /\ after # {} /\ \A i \in after : i <= n + 1
    BY <1>1 DEF SaysBy
  <2>2. Newest(after) \in after /\ \A i \in after : i <= Newest(after)
    BY <2>1, NewestSays
  <2>3. Newest(after) = n + 1
    <3>1. Newest(after) \in Nat
      BY <2>2 DEF SaysBy
    <3> HIDE DEF after
    <3> QED
      BY <2>1, <2>2, <3>1
  <2> QED
    BY <1>1, <2>1, <2>3 DEF LayeredBy
<1>2. CASE deltas[n + 1][r] = Kept
  <2>1. after = before
    BY <1>2 DEF SaysBy
  <2> QED
    BY <1>2, <2>1 DEF LayeredBy
<1> QED
  BY <1>1, <1>2

LEMMA LayeredByNone ==
  ASSUME NEW table \in Table, NEW deltas
  PROVE  LayeredBy(table, deltas, 0) = table
<1>1. \A r \in Ids : SaysBy(deltas, 0, r) = {}
  BY DEF SaysBy
<1> QED
  BY <1>1 DEF LayeredBy, Table

LEMMA LayeredByType ==
  ASSUME NEW table \in Table, NEW deltas \in Seq(Delta), NEW n \in 0..Len(deltas)
  PROVE  LayeredBy(table, deltas, n) \in Table
<1> SUFFICES ASSUME NEW r \in Ids
             PROVE  LayeredBy(table, deltas, n)[r] \in Rows
  BY DEF LayeredBy, Table
<1>1. n \in Nat /\ \A i \in 1..n : deltas[i] \in Delta
  OBVIOUS
<1>2. CASE SaysBy(deltas, n, r) = {}
  BY <1>2 DEF LayeredBy, Table
<1>3. CASE SaysBy(deltas, n, r) # {}
  <2>1. PICK i \in SaysBy(deltas, n, r) : i = Newest(SaysBy(deltas, n, r))
    BY <1>1, <1>3, NewestSays
  <2>2. deltas[i] \in Delta /\ deltas[i][r] # Kept
    BY <1>1, <2>1 DEF SaysBy
  <2>3. deltas[i][r] \in Rows
    BY <2>2 DEF Delta
  <2> QED
    BY <1>3, <2>1, <2>3 DEF LayeredBy
<1> QED
  BY <1>2, <1>3

LEMMA LayeredIsBy ==
  ASSUME NEW table, NEW deltas \in Seq(Delta)
  PROVE  Layered(table, deltas) = LayeredBy(table, deltas, Len(deltas))
<1>1. \A r \in Ids : Mentions(deltas, r) = SaysBy(deltas, Len(deltas), r)
  BY DEF Mentions, SaysBy
<1> QED
  BY <1>1 DEF Layered, LayeredBy

LEMMA LayeredType ==
  ASSUME NEW table \in Table, NEW deltas \in Seq(Delta)
  PROVE  Layered(table, deltas) \in Table
  BY LayeredIsBy, LayeredByType

LEMMA LayeredEmpty ==
  ASSUME NEW table \in Table
  PROVE  Layered(table, <<>>) = table
<1>1. <<>> \in Seq(Delta) /\ Len(<<>>) = 0
  BY EmptySeq
<1> QED
  BY <1>1, LayeredIsBy, LayeredByNone

\* A delta on top decides where it says anything.
OneMore(more, deltas, delta) ==
    /\ Len(more) = Len(deltas) + 1
    /\ \A i \in 1..Len(deltas) : more[i] = deltas[i]
    /\ more[Len(deltas) + 1] = delta

LEMMA LayeredAppend ==
  ASSUME NEW table, NEW deltas \in Seq(Delta), NEW delta \in Delta, NEW r \in Ids,
         NEW more \in Seq(Delta), OneMore(more, deltas, delta)
  PROVE  Layered(table, more)[r] =
            IF delta[r] # Kept THEN delta[r] ELSE Layered(table, deltas)[r]
<1> DEFINE n == Len(deltas)
<1>1. /\ more \in Seq(Delta) /\ Len(more) = n + 1 /\ n \in Nat
      /\ \A i \in 1..n : more[i] = deltas[i]
      /\ more[n + 1] = delta
  BY LenProperties DEF OneMore
<1>2. SaysBy(more, n, r) = SaysBy(deltas, n, r)
  BY <1>1 DEF SaysBy
<1>3. LayeredBy(table, more, n)[r] = LayeredBy(table, deltas, n)[r]
  <2>1. CASE SaysBy(deltas, n, r) = {}
    BY <1>2, <2>1 DEF LayeredBy
  <2>2. CASE SaysBy(deltas, n, r) # {}
    <3>1. Newest(SaysBy(deltas, n, r)) \in 1..n
      BY <1>1, <2>2, NewestSays DEF SaysBy
    <3> QED
      BY <1>1, <1>2, <2>2, <3>1 DEF LayeredBy
  <2> QED
    BY <2>1, <2>2
<1>4. Layered(table, more) = LayeredBy(table, more, n + 1)
  BY <1>1, LayeredIsBy
<1>5. LayeredBy(table, more, n + 1)[r] =
         IF more[n + 1][r] # Kept THEN more[n + 1][r] ELSE LayeredBy(table, more, n)[r]
  BY <1>1, LayeredByNext
<1> QED
  BY <1>1, <1>3, <1>4, <1>5, LayeredIsBy

LEMMA AppliedIsLayered ==
  ASSUME NEW table \in Table, NEW deltas \in Seq(Delta), NEW n \in Nat, n + 1 <= Len(deltas)
  PROVE  ApplyDelta(LayeredBy(table, deltas, n), deltas[n + 1]) = LayeredBy(table, deltas, n + 1)
<1> DEFINE t == LayeredBy(table, deltas, n)
           d == deltas[n + 1]
<1>1. t \in Table /\ LayeredBy(table, deltas, n + 1) \in Table
  BY LayeredByType
<1>2. d \in Delta
  OBVIOUS
<1>3. ASSUME NEW r \in Ids
      PROVE  ApplyDelta(t, d)[r] = LayeredBy(table, deltas, n + 1)[r]
  <2>1. LayeredBy(table, deltas, n + 1)[r] = IF d[r] # Kept THEN d[r] ELSE t[r]
    BY LayeredByNext
  <2>2. ApplyDelta(t, d)[r] = IF d[r] # Kept THEN d[r] ELSE t[r]
    <3> HIDE DEF t, d
    <3>1. Absent # Kept
      BY DatasetsAssumption DEF Absent
    <3> QED
      BY <3>1 DEF ApplyDelta
  <2> QED
    BY <2>1, <2>2
<1>4. ApplyDelta(t, d) = [r \in Ids |-> ApplyDelta(t, d)[r]]
  BY DEF ApplyDelta
<1> QED
  BY <1>1, <1>3, <1>4 DEF Table

\* Compaction, which applies the deltas one after the other to a copy, makes the table
\* that the layered connection reads: for any copy and any deltas the comparison that
\* guards the switch can fail for no other reason than a change in between
\* (training_compaction.py:138, training_compaction.py:250, training_delta.py:1055).
THEOREM CompactionIsLayered ==
  ASSUME NEW table \in Table, NEW deltas \in Seq(Delta)
  PROVE  Compacted(table, deltas) = Layered(table, deltas)
<1> DEFINE Body(f) == [n \in 0..Len(deltas) |->
                          IF n = 0 THEN table ELSE ApplyDelta(f[n - 1], deltas[n])]
           layers == [n \in 0..Len(deltas) |-> LayeredBy(table, deltas, n)]
           applied == CHOOSE f : f = Body(f)
<1>0. Len(deltas) \in Nat
  OBVIOUS
<1>1. layers = Body(layers)
  <2> SUFFICES ASSUME NEW n \in 0..Len(deltas)
               PROVE  LayeredBy(table, deltas, n) = Body(layers)[n]
    OBVIOUS
  <2>1. CASE n = 0
    BY <2>1, LayeredByNone
  <2>2. CASE n # 0
    <3>1. n - 1 \in Nat /\ n - 1 \in 0..Len(deltas) /\ (n - 1) + 1 = n
      BY <2>2
    <3>2. layers[n - 1] = LayeredBy(table, deltas, n - 1)
      BY <3>1
    <3>3. ApplyDelta(LayeredBy(table, deltas, n - 1), deltas[n]) = LayeredBy(table, deltas, n)
      BY <3>1, AppliedIsLayered
    <3> QED
      BY <2>2, <3>2, <3>3
  <2> QED
    BY <2>1, <2>2
<1>2. applied = Body(applied)
  <2> HIDE DEF layers, Body
  <2> QED
    BY <1>1
<1>3. ASSUME NEW n \in 0..Len(deltas)
      PROVE  applied[n] = IF n = 0 THEN table ELSE ApplyDelta(applied[n - 1], deltas[n])
  <2> HIDE DEF applied
  <2> QED
    BY <1>2
<1> HIDE DEF applied
<1>4. \A n \in 0..Len(deltas) : applied[n] = LayeredBy(table, deltas, n)
  <2> DEFINE wrong == {n \in 0..Len(deltas) : applied[n] # LayeredBy(table, deltas, n)}
  <2> SUFFICES ASSUME wrong # {} PROVE FALSE
    OBVIOUS
  <2>1. PICK n \in wrong : \A m \in wrong : n <= m
    <3>1. wrong \in SUBSET Nat
      OBVIOUS
    <3> HIDE DEF wrong
    <3> QED
      BY <3>1, LeastNumber
  <2>2. n # 0
    BY <1>3, LayeredByNone
  <2>3. n - 1 \in Nat /\ n - 1 \in 0..Len(deltas) /\ (n - 1) + 1 = n
    BY <2>2
  <2>4. applied[n - 1] = LayeredBy(table, deltas, n - 1)
    BY <2>1, <2>3
  <2>5. ApplyDelta(LayeredBy(table, deltas, n - 1), deltas[n]) = LayeredBy(table, deltas, n)
    BY <2>3, AppliedIsLayered
  <2>6. applied[n] = ApplyDelta(applied[n - 1], deltas[n])
    BY <1>3, <2>2
  <2> QED
    BY <2>4, <2>5, <2>6
<1>5. Compacted(table, deltas) = applied[Len(deltas)]
  BY DEF Compacted, applied
<1> QED
  BY <1>0, <1>4, <1>5, LayeredIsBy

-----------------------------------------------------------------------------
(* The training data: the invariant                                        *)

\* One process builds, compacts and rolls back, as the scripts enforce; with two, the
\* first deltas of a copy may overlap and lose the bootstrap.
Alone == \A p, q \in Procs : p = q

Settled(boundary, r) == boundary >= 0 /\ Between(boundary, End, r) = {}

Claimed(copy, r) ==
    \/ bases[copy].seq >= 0
    \/ Between(0, End, r) # {}
    \/ live[r] # Absent /\ (r > bases[copy].top \/ epoch[r] >= bases[copy].since)

\* What ChainCovers says of the copy that the pointer names holds of every copy.
CopiesCover ==
    \A c \in DOMAIN bases : bases[c].present =>
        \A r \in Ids : Settled(Boundary(c), r) /\ Claimed(c, r) => View(c)[r] = live[r]

\* No layer is ahead of the journal, and none is there before it.
ChainsBehind ==
    /\ \A c \in Copies : /\ chains[c].end <= End
                         /\ chains[c].made => journal.on /\ c <= Len(bases)
                         /\ ~chains[c].made => chains[c] = NoChain
    /\ \A c \in DOMAIN bases : bases[c].seq <= End /\ (bases[c].seq >= 0 => journal.on)
    /\ ~journal.on => End = 0

\* A copy without a chain is one that create() made.
Original ==
    \A c \in DOMAIN bases :
        bases[c].present /\ ~chains[c].made => bases[c].top = TopId(bases[c].rows) /\ bases[c].since = c

\* A row whose last change is its deletion is not there.
DeletesSeen ==
    \A r \in Ids, i \in 1..End :
        /\ journal.log[i].id = r /\ journal.log[i].op = "delete"
        /\ \A j \in i + 1..End : journal.log[j].id # r
        => live[r] = Absent

Compacting(p) == at[p] \in {"check", "chain", "switch", "record"}
Building(p) == at[p] \in {"install", "read", "publish"}

\* The copy that create() is making is nobody else's.
MakingApart ==
    /\ making.step = "idle" => making = NotMaking
    /\ making.step # "idle" =>
          /\ making.copy \in DOMAIN bases /\ making.copy # current.new
          /\ \A p \in Procs : Compacting(p) => ctx[p].new # making.copy
    /\ making.step = "copy" =>
          /\ ~bases[making.copy].present /\ ~chains[making.copy].made
          /\ making.copy # current.old
          /\ \A p \in Procs : ctx[p].base # making.copy /\ ctx[p].new # making.copy

\* While the pointer names the last compaction, the copy before it reads the same.
Rollbackable ==
    /\ current # NoRecord => 1 <= current.old /\ current.old < current.new /\ current.new <= Len(bases)
    /\ pointer = current.new /\ pointer # NoCopy =>
          /\ \A p \in Procs : Building(p) => ctx[p].base # current.old
          /\ bases[current.old].present /\ bases[current.new].present
                /\ chains[current.new].deltas = <<>>
             => bases[current.new].rows = View(current.old)

\* What a delta that is read but not published says, as far as the journal stands.
DeltaRead(p) ==
    /\ ctx[p].to <= End /\ ctx[p].chain.end <= ctx[p].to
    /\ \A r \in Ids : Between(ctx[p].to, End, r) = {} =>
          /\ ctx[p].delta[r] \in {Kept, live[r]}
          /\ Between(ctx[p].chain.end, ctx[p].to, r) # {} => ctx[p].delta[r] = live[r]
          /\ /\ bases[ctx[p].base].present /\ ~ctx[p].chain.made /\ live[r] # Absent
             /\ r > bases[ctx[p].base].top \/ epoch[r] >= bases[ctx[p].base].since
             => ctx[p].delta[r] = live[r]

CompactInv(p) ==
    LET c == ctx[p].new
        b == ctx[p].base
    IN  /\ c \in DOMAIN bases /\ b < c /\ c # current.old /\ c # current.new
        /\ journal.on /\ ctx[p].chain.made
        /\ at[p] \in {"check", "chain"} => ~bases[c].present /\ ~chains[c].made
        /\ at[p] = "check" /\ bases[b].present =>
              bases[c] = [bases[b] EXCEPT !.rows = View(b), !.present = FALSE]
        /\ at[p] = "chain" =>
              /\ bases[b].present => bases[c].rows = View(b)
              /\ \A r \in Ids :
                    Settled(ctx[p].chain.end, r) /\ Claimed(c, r) => bases[c].rows[r] = live[r]
        /\ at[p] \in {"switch", "record"} =>
              /\ chains[c].deltas = <<>>
              /\ bases[b].present /\ bases[c].present => bases[c].rows = View(b)

BackInv(p) ==
    /\ ctx[p].new = current.old /\ ctx[p].base = current.new /\ current # NoRecord
    /\ bases[ctx[p].new].present /\ bases[ctx[p].base].present
          => View(ctx[p].new) = View(ctx[p].base)

OpInv(p) ==
    /\ at[p] = "idle" => ctx[p] = NoContext
    /\ at[p] # "idle" => ctx[p].base \in DOMAIN bases /\ ctx[p].chain = chains[ctx[p].base]
    /\ Building(p) => ctx[p].new = NoCopy
    /\ at[p] \in {"read", "publish"} => journal.on
    /\ at[p] = "publish" => DeltaRead(p)
    /\ Compacting(p) => CompactInv(p)
    /\ at[p] = "back" => BackInv(p)

OpsInv == \A p \in Procs : OpInv(p)

DatasetsInv ==
    /\ DatasetsTypeOK /\ CopiesCover /\ ChainsBehind /\ Original /\ DeletesSeen
    /\ MakingApart /\ Rollbackable /\ OpsInv

LEMMA DatasetNumbers ==
  /\ MaxId \in Nat /\ MaxId >= 1 /\ MaxWrites \in Nat /\ MaxBases \in Nat /\ MaxBases >= 1
  /\ Ids \in SUBSET Nat /\ Rows \in SUBSET Nat /\ Absent \in Rows /\ Kept \notin Rows
  /\ 0 \in 0..MaxBases /\ 0 \in 0..MaxId /\ NoCopy \in 0..MaxBases
  BY DatasetsAssumption DEF Ids, Rows, Absent, NoCopy

LEMMA PlainTypes ==
  /\ Empty \in Table /\ Silent \in Delta /\ Gone \in Base /\ NoChain \in Chain
  /\ NoContext \in Context /\ NoRecord \in Record
<1> USE DatasetNumbers
<1>1. Empty \in Table /\ Silent \in Delta
  BY DEF Empty, Silent, Table, Delta
<1>2. Gone \in Base
  <2>1. -1 \in -1..MaxWrites
    OBVIOUS
  <2> QED
    BY <1>1, <2>1 DEF Gone, Base, NoCopy
<1>3. NoChain \in Chain
  <2>1. <<>> \in Seq(Delta) /\ 0 \in 0..MaxWrites
    BY EmptySeq
  <2> QED
    BY <2>1 DEF NoChain, Chain
<1>4. NoContext \in Context
  <2>1. 0 \in 0..MaxWrites
    OBVIOUS
  <2> QED
    BY <1>1, <1>3, <2>1 DEF NoContext, Context, NoCopy
<1>5. NoRecord \in Record
  BY DEF NoRecord, Record, NoCopy
<1> QED
  BY <1>1, <1>2, <1>3, <1>4, <1>5

LEMMA TopIdType ==
  ASSUME NEW table
  PROVE  TopId(table) \in 0..MaxId /\ \A r \in Present(table) : r <= TopId(table)
<1> DEFINE S == Present(table) \union {0}
<1>1. S \in SUBSET (0..MaxId) /\ S # {}
  BY DatasetNumbers DEF Present, Ids
<1>2. Newest(S) \in S /\ \A y \in S : y <= Newest(S)
  BY <1>1, DatasetNumbers, NewestThere
<1> QED
  BY <1>1, <1>2 DEF TopId

LEMMA InitDatasetsInv == DatasetsInit => DatasetsInv
<1> SUFFICES ASSUME DatasetsInit PROVE DatasetsInv
  OBVIOUS
<1> USE DEF DatasetsInit
<1>0. /\ <<>> \in Seq(Base) /\ <<>> \in Seq(Entry) /\ Len(bases) = 0 /\ End = 0 /\ DOMAIN bases = {}
      /\ bases \in Seq(Base)
  <2>1. <<>> \in Seq(Base) /\ <<>> \in Seq(Entry) /\ Len(<<>>) = 0 /\ DOMAIN <<>> = {}
    BY EmptySeq
  <2> QED
    BY <2>1 DEF End
<1>1. DatasetsTypeOK
  <2>1. live \in Table /\ epoch \in [Ids -> 0..MaxBases] /\ writes \in 0..MaxWrites
    BY PlainTypes, DatasetNumbers
  <2>2. journal \in [on : BOOLEAN, log : Seq(Entry)] /\ Len(journal.log) <= writes
    BY <1>0 DEF End
  <2>3. bases \in Seq(Base) /\ Len(bases) <= MaxBases /\ pointer \in 0..Len(bases)
    BY <1>0, DatasetNumbers DEF NoCopy
  <2>4. chains \in [Copies -> Chain] /\ current \in Record /\ ctx \in [Procs -> Context]
    BY PlainTypes
  <2>5. /\ making \in [copy : 0..Len(bases), step : {"idle", "copy", "point", "end"}]
        /\ at \in [Procs -> BuildSteps]
    BY <1>0 DEF NotMaking, NoCopy, BuildSteps
  <2> QED
    BY <2>1, <2>2, <2>3, <2>4, <2>5 DEF DatasetsTypeOK
<1>2. CopiesCover /\ Original /\ DeletesSeen
  BY <1>0 DEF CopiesCover, Original, DeletesSeen
<1>3. ChainsBehind
  BY <1>0 DEF ChainsBehind, NoChain
<1>4. MakingApart /\ Rollbackable
  BY DEF MakingApart, Rollbackable, NotMaking, NoRecord
<1>5. OpsInv
  BY DEF OpsInv, OpInv, Building, Compacting
<1> QED
  BY <1>1, <1>2, <1>3, <1>4, <1>5 DEF DatasetsInv

\* Record fields, once: what a process knows and what a copy and a chain are.
LEMMA Fields ==
  ASSUME DatasetsTypeOK
  PROVE  /\ Len(bases) \in Nat /\ DOMAIN bases = 1..Len(bases) /\ DOMAIN bases \subseteq Copies
         /\ End \in 0..MaxWrites
         /\ \A c \in DOMAIN bases :
               /\ bases[c].rows \in Table /\ bases[c].seq \in -1..MaxWrites
               /\ bases[c].top \in 0..MaxId /\ bases[c].since \in 0..MaxBases
               /\ bases[c].present \in BOOLEAN
         /\ \A c \in Copies : /\ chains[c].made \in BOOLEAN /\ chains[c].deltas \in Seq(Delta)
                              /\ chains[c].end \in 0..MaxWrites
         /\ \A p \in Procs : /\ ctx[p].base \in 0..MaxBases /\ ctx[p].new \in 0..MaxBases
                             /\ ctx[p].chain \in Chain /\ ctx[p].delta \in Delta
                             /\ ctx[p].to \in 0..MaxWrites
                             /\ ctx[p].chain.deltas \in Seq(Delta) /\ ctx[p].chain.made \in BOOLEAN
                             /\ ctx[p].chain.end \in 0..MaxWrites
<1> USE DEF DatasetsTypeOK
<1>1. Len(bases) \in Nat /\ DOMAIN bases = 1..Len(bases) /\ \A c \in DOMAIN bases : bases[c] \in Base
  BY LenProperties
<1>2. DOMAIN bases \subseteq Copies
  BY <1>1, DatasetNumbers DEF Copies
<1>3. End \in 0..MaxWrites
  BY DatasetNumbers, LenProperties DEF End
<1>4. \A c \in Copies : chains[c] \in Chain
  OBVIOUS
<1>5. \A p \in Procs : ctx[p] \in Context
  OBVIOUS
<1> HIDE DEF DatasetsTypeOK
<1>6. \A c \in DOMAIN bases :
               /\ bases[c].rows \in Table /\ bases[c].seq \in -1..MaxWrites
               /\ bases[c].top \in 0..MaxId /\ bases[c].since \in 0..MaxBases
               /\ bases[c].present \in BOOLEAN
  BY <1>1 DEF Base
<1>7. \A c \in Copies : /\ chains[c].made \in BOOLEAN /\ chains[c].deltas \in Seq(Delta)
                        /\ chains[c].end \in 0..MaxWrites
  BY <1>4 DEF Chain
<1>8. \A p \in Procs : /\ ctx[p].base \in 0..MaxBases /\ ctx[p].new \in 0..MaxBases
                       /\ ctx[p].chain \in Chain /\ ctx[p].delta \in Delta
                       /\ ctx[p].to \in 0..MaxWrites
  BY <1>5 DEF Context
<1>9. \A p \in Procs : /\ ctx[p].chain.deltas \in Seq(Delta) /\ ctx[p].chain.made \in BOOLEAN
                       /\ ctx[p].chain.end \in 0..MaxWrites
  BY <1>8 DEF Chain
<1> QED
  BY <1>1, <1>2, <1>3, <1>6, <1>7, <1>8, <1>9

LEMMA ViewType ==
  ASSUME DatasetsTypeOK, NEW c \in DOMAIN bases
  PROVE  View(c) \in Table
<1>1. bases[c].rows \in Table /\ chains[c].deltas \in Seq(Delta)
  BY Fields
<1> QED
  BY <1>1, LayeredType DEF View

LEMMA ViewWithoutDeltas ==
  ASSUME DatasetsTypeOK, NEW c \in DOMAIN bases, chains[c].deltas = <<>>
  PROVE  View(c) = bases[c].rows
  BY Fields, LayeredEmpty DEF View

\* Copies that lose what they have, or are given something.
LEMMA CopyPut ==
  ASSUME DatasetsTypeOK, NEW c \in DOMAIN bases, NEW b \in Base, bases' = [bases EXCEPT ![c] = b]
  PROVE  /\ bases' \in Seq(Base) /\ Len(bases') = Len(bases) /\ DOMAIN bases' = DOMAIN bases
         /\ bases'[c] = b /\ \A d \in DOMAIN bases : d # c => bases'[d] = bases[d]
<1>1. bases \in Seq(Base) /\ DOMAIN bases = 1..Len(bases) /\ c \in 1..Len(bases)
  BY LenProperties DEF DatasetsTypeOK
<1> QED
  BY <1>1, ExceptSeq

LEMMA CopyAdded ==
  ASSUME DatasetsTypeOK, NEW b \in Base, bases' = Append(bases, b)
  PROVE  /\ bases' \in Seq(Base) /\ Len(bases') = Len(bases) + 1 /\ DOMAIN bases' = 1..Len(bases) + 1
         /\ bases'[Len(bases) + 1] = b /\ \A d \in DOMAIN bases : bases'[d] = bases[d]
<1>1. bases \in Seq(Base) /\ DOMAIN bases = 1..Len(bases)
  BY LenProperties DEF DatasetsTypeOK
<1> QED
  BY <1>1, AppendProperties, LenProperties

\* Some copies are removed, the others stay as they are.
Thinned == /\ DOMAIN bases' = DOMAIN bases
           /\ \A c \in DOMAIN bases : bases'[c] = bases[c] \/ bases'[c] = Gone

LEMMA ThinnedType ==
  ASSUME DatasetsTypeOK, NEW S,
         bases' = [c \in DOMAIN bases |-> IF c \in S THEN Gone ELSE bases[c]]
  PROVE  bases' \in Seq(Base) /\ Len(bases') = Len(bases) /\ Thinned
<1>1. Len(bases) \in Nat /\ DOMAIN bases = 1..Len(bases) /\ \A c \in DOMAIN bases : bases[c] \in Base
  BY LenProperties DEF DatasetsTypeOK
<1>2. \A c \in 1..Len(bases) : (IF c \in S THEN Gone ELSE bases[c]) \in Base
  BY <1>1, PlainTypes
<1>3. bases' \in [1..Len(bases) -> Base]
  BY <1>1, <1>2
<1>4. bases' \in Seq(Base) /\ Len(bases') = Len(bases)
  BY <1>1, <1>3
<1>5. Thinned
  BY DEF Thinned
<1> QED
  BY <1>4, <1>5

LEMMA ChangeTypes ==
  ASSUME DatasetsTypeOK, NEW r \in Ids, NEW value \in 0..writes + 1, NEW op \in {"put", "delete"},
         Change(r, value, op)
  PROVE  /\ live' \in Table /\ writes' \in 0..MaxWrites
         /\ journal' \in [on : BOOLEAN, log : Seq(Entry)] /\ Len(journal'.log) <= writes'
<1> USE DEF DatasetsTypeOK, Change
<1>1. writes \in Nat /\ writes' = writes + 1 /\ writes' \in 0..MaxWrites /\ value \in Rows
  BY DatasetNumbers DEF Rows, Absent
<1>2. live' \in Table
  BY <1>1 DEF Table
<1>3. [id |-> r, op |-> op] \in Entry
  BY DEF Entry
<1>4. journal.log \in Seq(Entry) /\ Len(journal.log) \in Nat /\ journal.on \in BOOLEAN
  BY LenProperties
<1>5. CASE journal' = [journal EXCEPT !.log = Append(@, [id |-> r, op |-> op])]
  <2>1. /\ Append(journal.log, [id |-> r, op |-> op]) \in Seq(Entry)
        /\ Len(Append(journal.log, [id |-> r, op |-> op])) = Len(journal.log) + 1
    BY <1>3, <1>4, AppendProperties
  <2> DEFINE longer == Append(journal.log, [id |-> r, op |-> op])
  <2>2. longer \in Seq(Entry) /\ Len(longer) = Len(journal.log) + 1
    BY <2>1
  <2> HIDE DEF longer
  <2>3. journal' = [on |-> journal.on, log |-> longer]
    BY <1>5 DEF longer
  <2>4. Len(journal.log) <= writes
    OBVIOUS
  <2> HIDE DEF DatasetsTypeOK, Change
  <2>5. journal' \in [on : BOOLEAN, log : Seq(Entry)] /\ journal'.log = longer
    BY <1>4, <2>2, <2>3
  <2> QED
    BY <1>1, <1>2, <1>4, <2>2, <2>4, <2>5
<1>6. CASE journal' = journal
  BY <1>1, <1>2, <1>4, <1>6
<1> QED
  BY <1>5, <1>6

LEMMA WritersTypes ==
  ASSUME DatasetsTypeOK, InsertRow \/ UpdateRow \/ DeleteRow
  PROVE  DatasetsTypeOK'
<1>0. writes \in Nat /\ writes + 1 \in 0..writes + 1 /\ Absent \in 0..writes + 1
  BY DatasetNumbers DEF DatasetsTypeOK, Absent
<1>1. \E r \in Ids, value \in 0..writes + 1, op \in {"put", "delete"} : Change(r, value, op)
  BY <1>0, Zenon DEF InsertRow, UpdateRow, DeleteRow, Present
<1>2. epoch' \in [Ids -> 0..MaxBases]
  <2>1. Len(bases) \in 0..MaxBases /\ 0 \in 0..MaxBases
    BY Fields, DatasetNumbers DEF DatasetsTypeOK
  <2> QED
    BY <2>1 DEF InsertRow, UpdateRow, DeleteRow, DatasetsTypeOK
<1>3. UNCHANGED <<files, making, at, ctx>>
  BY <1>1 DEF Change
<1> QED
  BY <1>1, <1>2, <1>3, ChangeTypes DEF DatasetsTypeOK, files

MakingSteps == {"idle", "copy", "point", "end"}

LEMMA MakerTypes ==
  ASSUME DatasetsTypeOK,
         CreateStart \/ CreateCopy \/ CreatePoint \/ CreateEnd \/ CreateFails \/ Cleanup
  PROVE  DatasetsTypeOK'
<1>0. /\ Len(bases) \in Nat /\ Len(bases) <= MaxBases /\ bases \in Seq(Base)
      /\ DOMAIN bases = 1..Len(bases) /\ pointer \in 0..Len(bases)
      /\ making \in [copy : 0..Len(bases), step : MakingSteps]
  BY Fields DEF DatasetsTypeOK, MakingSteps
<1>1. making.copy \in 0..Len(bases) /\ making.step \in MakingSteps
  BY <1>0
<1>2. /\ live \in Table /\ epoch \in [Ids -> 0..MaxBases] /\ writes \in 0..MaxWrites
      /\ journal \in [on : BOOLEAN, log : Seq(Entry)] /\ Len(journal.log) <= writes
      /\ chains \in [Copies -> Chain] /\ current \in Record
      /\ at \in [Procs -> BuildSteps] /\ ctx \in [Procs -> Context]
  BY DEF DatasetsTypeOK
<1>3. UNCHANGED <<database, chains, current, at, ctx>>
  BY DEF CreateStart, CreateCopy, CreatePoint, CreateEnd, CreateFails, Cleanup, database, files
<1>4. SUFFICES /\ bases' \in Seq(Base) /\ Len(bases') <= MaxBases /\ pointer' \in 0..Len(bases')
               /\ making' \in [copy : 0..Len(bases'), step : MakingSteps]
  BY <1>2, <1>3 DEF DatasetsTypeOK, database, MakingSteps
<1>5. CASE CreateStart
  <2>1. /\ bases' = Append(bases, Gone) /\ Len(bases) < MaxBases /\ pointer' = pointer
        /\ making' = [copy |-> Len(bases) + 1, step |-> "copy"]
    BY <1>5 DEF CreateStart
  <2>2. bases' \in Seq(Base) /\ Len(bases') = Len(bases) + 1
    BY <2>1, PlainTypes, CopyAdded
  <2> QED
    BY <1>0, <2>1, <2>2, DatasetNumbers DEF MakingSteps
<1>6. CASE CreateCopy
  <2> DEFINE b == [rows |-> live, seq |-> IF journal.on THEN End ELSE -1,
                   top |-> TopId(live), since |-> making.copy, present |-> TRUE]
  <2>1. /\ bases' = [bases EXCEPT ![making.copy] = b] /\ pointer' = pointer
        /\ making' = [making EXCEPT !.step = "point"]
    BY <1>6 DEF CreateCopy
  <2>2. b \in Base
    <3>1. (IF journal.on THEN End ELSE -1) \in -1..MaxWrites
      BY Fields, DatasetNumbers
    <3>2. making.copy \in 0..MaxBases
      BY <1>0, <1>1, DatasetNumbers
    <3> QED
      BY <1>2, <3>1, <3>2, TopIdType DEF Base
  <2>3. bases' \in Seq(Base) /\ Len(bases') = Len(bases)
    <3>1. CASE making.copy \in DOMAIN bases
      BY <2>1, <2>2, <3>1, CopyPut
    <3>2. CASE making.copy \notin DOMAIN bases
      <4> HIDE DEF b
      <4>1. bases' = bases
        BY <1>0, <2>1, <3>2
      <4> QED
        BY <1>0, <4>1
    <3> QED
      BY <3>1, <3>2
  <2> QED
    BY <1>0, <2>1, <2>3 DEF MakingSteps
<1>7. CASE CreatePoint
  BY <1>0, <1>1, <1>7 DEF CreatePoint, MakingSteps
<1>8. CASE CreateEnd
  BY <1>0, <1>8 DEF CreateEnd, NotMaking, NoCopy, files, MakingSteps
<1>9. CASE CreateFails
  <2>1. pointer' = pointer /\ making' = NotMaking /\ bases' \in {bases, [bases EXCEPT ![making.copy] = Gone]}
    BY <1>9 DEF CreateFails
  <2>2. bases' \in Seq(Base) /\ Len(bases') = Len(bases)
    <3>1. CASE bases' = [bases EXCEPT ![making.copy] = Gone] /\ making.copy \in DOMAIN bases
      BY <3>1, PlainTypes, CopyPut
    <3>2. CASE bases' = [bases EXCEPT ![making.copy] = Gone] /\ making.copy \notin DOMAIN bases
      <4>1. bases' = bases
        BY <1>0, <3>2
      <4> QED
        BY <1>0, <4>1
    <3>3. CASE bases' = bases
      BY <1>0, <3>3
    <3> QED
      BY <2>1, <3>1, <3>2, <3>3
  <2> QED
    BY <1>0, <2>1, <2>2 DEF NotMaking, NoCopy, MakingSteps
<1>10. CASE Cleanup
  <2>1. PICK S : bases' = [c \in DOMAIN bases |-> IF c \in S THEN Gone ELSE bases[c]]
    BY <1>10 DEF Cleanup
  <2>2. bases' \in Seq(Base) /\ Len(bases') = Len(bases)
    BY <2>1, ThinnedType
  <2>3. pointer' = pointer /\ making' = making
    BY <1>10 DEF Cleanup
  <2> QED
    BY <1>0, <2>2, <2>3
<1> QED
  BY <1>5, <1>6, <1>7, <1>8, <1>9, <1>10

\* What _resolve_context returns, and with it the number of another copy.
LEMMA ResolvedType ==
  ASSUME DatasetsTypeOK, Resolves
  PROVE  /\ pointer \in DOMAIN bases /\ pointer \in Copies
         /\ Resolved \in Context /\ Resolved.base = pointer /\ Resolved.chain = chains[pointer]
         /\ Resolved.new = NoCopy
         /\ \A n \in 0..MaxBases : /\ [Resolved EXCEPT !.new = n] \in Context
                                   /\ [Resolved EXCEPT !.new = n].base = pointer
                                   /\ [Resolved EXCEPT !.new = n].chain = chains[pointer]
                                   /\ [Resolved EXCEPT !.new = n].new = n
<1>1. pointer \in DOMAIN bases /\ pointer \in Copies /\ pointer \in 0..MaxBases
  BY Fields, DatasetNumbers DEF Resolves, DatasetsTypeOK, NoCopy
<1>2. chains[pointer] \in Chain /\ NoContext \in Context
  BY <1>1, PlainTypes DEF DatasetsTypeOK
<1>3. Resolved = [base |-> pointer, chain |-> chains[pointer], new |-> NoCopy, delta |-> Silent,
                  to |-> 0]
  BY DEF Resolved
<1>4. Silent \in Delta /\ NoCopy \in 0..MaxBases /\ 0 \in 0..MaxWrites
  BY PlainTypes, DatasetNumbers
<1>5. /\ Resolved \in Context /\ Resolved.base = pointer /\ Resolved.chain = chains[pointer]
      /\ Resolved.new = NoCopy
  BY <1>1, <1>2, <1>3, <1>4 DEF Context
<1>6. ASSUME NEW n \in 0..MaxBases
      PROVE  [Resolved EXCEPT !.new = n] = [base |-> pointer, chain |-> chains[pointer], new |-> n,
                                            delta |-> Silent, to |-> 0]
  BY <1>3
<1>7. ASSUME NEW n \in 0..MaxBases
      PROVE  /\ [Resolved EXCEPT !.new = n] \in Context
             /\ [Resolved EXCEPT !.new = n].base = pointer
             /\ [Resolved EXCEPT !.new = n].chain = chains[pointer]
             /\ [Resolved EXCEPT !.new = n].new = n
  BY <1>1, <1>2, <1>4, <1>6 DEF Context
<1> QED
  BY <1>1, <1>5, <1>7

LEMMA CapturedType ==
  ASSUME DatasetsTypeOK, NEW p \in Procs
  PROVE  Captured(p) \in Delta
<1>1. live \in Table /\ Absent \in Rows
  BY DatasetNumbers DEF DatasetsTypeOK
<1> QED
  BY <1>1 DEF Captured, Delta, Table

\* What changes in a step of a process.
LEMMA StepTypes ==
  ASSUME DatasetsTypeOK, Rollbackable, NEW p \in Procs, OpInv(p), Step(p)
  PROVE  DatasetsTypeOK'
<1>0. /\ Len(bases) \in Nat /\ Len(bases) <= MaxBases /\ bases \in Seq(Base)
      /\ DOMAIN bases = 1..Len(bases) /\ pointer \in 0..Len(bases)
      /\ making \in [copy : 0..Len(bases), step : MakingSteps]
      /\ chains \in [Copies -> Chain] /\ current \in Record
      /\ at \in [Procs -> BuildSteps] /\ ctx \in [Procs -> Context]
      /\ live \in Table /\ epoch \in [Ids -> 0..MaxBases] /\ writes \in 0..MaxWrites
      /\ journal \in [on : BOOLEAN, log : Seq(Entry)] /\ Len(journal.log) <= writes
  BY Fields DEF DatasetsTypeOK, MakingSteps
<1>1. /\ UNCHANGED <<live, epoch, writes, making>> /\ journal'.log = journal.log
      /\ journal' \in [on : BOOLEAN, log : Seq(Entry)]
  <2>1. CASE UNCHANGED database
    BY <1>0, <2>1 DEF database, Step, BuildStart, InstallJournal, ReadDelta, PublishDelta, CompactStart,
       CompactCheck, CompactChain, CompactSwitch, CompactRecord, RollbackCheck, RollbackSwitch, Stops, files
  <2>2. CASE InstallJournal(p)
    BY <1>0, <2>2 DEF InstallJournal
  <2> QED
    BY <2>1, <2>2 DEF database, Step, BuildStart, ReadDelta, PublishDelta, CompactStart,
       CompactCheck, CompactChain, CompactSwitch, CompactRecord, RollbackCheck, RollbackSwitch, Stops
<1>2. SUFFICES /\ bases' \in Seq(Base) /\ Len(bases') <= MaxBases /\ Len(bases') >= Len(bases)
               /\ pointer' \in 0..Len(bases') /\ chains' \in [Copies -> Chain] /\ current' \in Record
               /\ at' \in [Procs -> BuildSteps] /\ ctx' \in [Procs -> Context]
  <2> SUFFICES ASSUME /\ bases' \in Seq(Base) /\ Len(bases') <= MaxBases /\ Len(bases') >= Len(bases)
                      /\ pointer' \in 0..Len(bases') /\ chains' \in [Copies -> Chain]
                      /\ current' \in Record
                      /\ at' \in [Procs -> BuildSteps] /\ ctx' \in [Procs -> Context]
               PROVE  DatasetsTypeOK'
    OBVIOUS
  <2>1. making' \in [copy : 0..Len(bases'), step : MakingSteps]
    <3>1. Len(bases') \in Nat
      BY LenProperties
    <3>2. making.copy \in 0..Len(bases') /\ making.step \in MakingSteps /\ making' = making
      BY <1>0, <1>1, <3>1
    <3> QED
      BY <1>0, <3>2
  <2> QED
    BY <1>0, <1>1, <2>1 DEF DatasetsTypeOK, MakingSteps
<1>3. NoContext \in Context /\ Gone \in Base /\ <<>> \in Seq(Delta)
  BY PlainTypes, EmptySeq
<1>4. ctx[p] \in Context /\ ctx[p].base \in 0..MaxBases /\ ctx[p].new \in 0..MaxBases
  BY Fields, <1>0
<1>5. CASE BuildStart(p)
  BY <1>0, <1>5, ResolvedType DEF BuildStart, Reach, BuildSteps, files
<1>6. CASE InstallJournal(p)
  BY <1>0, <1>6 DEF InstallJournal, Reach, BuildSteps, files
<1>7. CASE ReadDelta(p)
  <2>1. Captured(p) \in Delta /\ End \in 0..MaxWrites
    BY CapturedType, Fields
  <2>2. ctx' = [ctx EXCEPT ![p] = [@ EXCEPT !.delta = Captured(p), !.to = End]]
    BY <1>7 DEF ReadDelta
  <2>3. ctx' \in [Procs -> Context]
    <3>1. [ctx[p] EXCEPT !.delta = Captured(p), !.to = End] \in Context
      BY <1>4, <2>1 DEF Context
    <3> QED
      BY <1>0, <2>2, <3>1
  <2> QED
    BY <1>0, <1>7, <2>3 DEF ReadDelta, Reach, BuildSteps, files
<1>8. CASE PublishDelta(p)
  <2> DEFINE next == [made |-> TRUE, deltas |-> Append(ctx[p].chain.deltas, ctx[p].delta), end |-> ctx[p].to]
  <2>1. next \in Chain
    BY Fields, AppendProperties DEF Chain
  <2>2. chains' = [chains EXCEPT ![ctx[p].base] = next]
    BY <1>8 DEF PublishDelta
  <2>3. chains' \in [Copies -> Chain]
    BY <1>0, <2>1, <2>2
  <2> QED
    BY <1>0, <1>3, <1>8, <2>3 DEF PublishDelta, Reach, BuildSteps
<1>9. CASE CompactStart(p)
  <2> DEFINE b == [bases[pointer] EXCEPT
                     !.rows = Compacted(bases[pointer].rows, chains[pointer].deltas),
                     !.present = FALSE]
  <2>1. /\ bases' = Append(bases, b) /\ Len(bases) < MaxBases /\ Resolves
        /\ ctx' = [ctx EXCEPT ![p] = [Resolved EXCEPT !.new = Len(bases) + 1]]
        /\ UNCHANGED <<chains, pointer, current>> /\ Reach(p, "check")
    BY <1>9 DEF CompactStart
  <2>2. pointer \in DOMAIN bases /\ bases[pointer] \in Base
    BY <1>0, <2>1, ResolvedType
  <2>3. Compacted(bases[pointer].rows, chains[pointer].deltas) \in Table
    BY <2>1, <2>2, Fields, ResolvedType, CompactionIsLayered, LayeredType
  <2>4. b \in Base
    BY <2>2, <2>3 DEF Base
  <2>5. bases' \in Seq(Base) /\ Len(bases') = Len(bases) + 1
    <3> HIDE DEF b
    <3> QED
      BY <2>1, <2>4, CopyAdded
  <2>6. ctx' \in [Procs -> Context]
    <3>1. Len(bases) + 1 \in 0..MaxBases
      BY <1>0, <2>1, DatasetNumbers
    <3>2. [Resolved EXCEPT !.new = Len(bases) + 1] \in Context
      BY <2>1, <3>1, ResolvedType
    <3> QED
      BY <1>0, <2>1, <3>2
  <2> QED
    BY <1>0, <2>1, <2>5, <2>6, DatasetNumbers DEF Reach, BuildSteps
<1>10. CASE CompactCheck(p)
  BY <1>0, <1>10 DEF CompactCheck, Reach, BuildSteps, files
<1>11. CASE CompactChain(p)
  <2>1. /\ bases' = [bases EXCEPT ![ctx[p].new].present = TRUE]
        /\ chains' = [chains EXCEPT ![ctx[p].new] =
                         [made |-> TRUE, deltas |-> <<>>, end |-> ctx[p].chain.end]]
    BY <1>11 DEF CompactChain
  <2>2. chains' \in [Copies -> Chain]
    <3>1. [made |-> TRUE, deltas |-> <<>>, end |-> ctx[p].chain.end] \in Chain
      BY <1>3, Fields DEF Chain
    <3> QED
      BY <1>0, <2>1, <3>1
  <2>3. bases' \in Seq(Base) /\ Len(bases') = Len(bases)
    <3>1. CASE ctx[p].new \in DOMAIN bases
      <4> DEFINE b == [bases[ctx[p].new] EXCEPT !.present = TRUE]
      <4>0. bases[ctx[p].new] \in Base
        BY <1>0, <3>1
      <4>1. b \in Base
        BY <4>0 DEF Base
      <4>2. bases' = [bases EXCEPT ![ctx[p].new] = b]
        BY <2>1
      <4> HIDE DEF b
      <4> QED
        BY <3>1, <4>1, <4>2, CopyPut
    <3>2. CASE ctx[p].new \notin DOMAIN bases
      <4>1. bases' = bases
        BY <1>0, <2>1, <3>2
      <4> QED
        BY <1>0, <4>1
    <3> QED
      BY <3>1, <3>2
  <2> QED
    BY <1>0, <1>11, <2>2, <2>3 DEF CompactChain, Reach, BuildSteps
<1>12. CASE CompactRecord(p)
  <2>1. current' = [old |-> ctx[p].base, new |-> ctx[p].new, boundary |-> ctx[p].chain.end]
    BY <1>12 DEF CompactRecord
  <2>2. current' \in Record
    BY <2>1, Fields DEF Record
  <2> QED
    BY <1>0, <1>3, <1>12, <2>2 DEF CompactRecord, Reach, BuildSteps
<1>13. CASE RollbackCheck(p)
  <2>1. current.old \in 0..MaxBases
    BY <1>0 DEF Record
  <2>2. Resolves /\ ctx' = [ctx EXCEPT ![p] = [Resolved EXCEPT !.new = current.old]]
    BY <1>13 DEF RollbackCheck
  <2>3. [Resolved EXCEPT !.new = current.old] \in Context
    BY <2>1, <2>2, ResolvedType
  <2> QED
    BY <1>0, <1>13, <2>2, <2>3 DEF RollbackCheck, Reach, BuildSteps, files
<1>15. CASE CompactSwitch(p)
  <2>1. ctx[p].new \in DOMAIN bases
    BY <1>15 DEF CompactSwitch, OpInv, Compacting, CompactInv
  <2> QED
    BY <1>0, <1>15, <2>1 DEF CompactSwitch, Reach, BuildSteps
<1>16. CASE RollbackSwitch(p)
  <2>1. ctx[p].new = current.old /\ current # NoRecord
    BY <1>16 DEF RollbackSwitch, OpInv, BackInv
  <2>2. current.old \in Nat /\ current.new \in Nat /\ current.old <= Len(bases)
    BY <1>0, <2>1, DatasetNumbers DEF Rollbackable, Record
  <2>3. ctx[p].new \in 0..Len(bases)
    BY <1>0, <2>1, <2>2
  <2> QED
    BY <1>0, <1>3, <1>16, <2>3 DEF RollbackSwitch, Reach, BuildSteps
<1>14. CASE Stops(p)
  <2>1. bases' = [c \in DOMAIN bases |->
                    IF c = ctx[p].new /\ ~bases[c].present THEN Gone ELSE bases[c]]
    BY <1>14 DEF Stops
  <2> DEFINE S == {c \in DOMAIN bases : c = ctx[p].new /\ ~bases[c].present}
  <2>2. bases' = [c \in DOMAIN bases |-> IF c \in S THEN Gone ELSE bases[c]]
    BY <2>1
  <2>3. bases' \in Seq(Base) /\ Len(bases') = Len(bases)
    <3> HIDE DEF S
    <3> QED
      BY <2>2, ThinnedType
  <2> QED
    BY <1>0, <1>3, <1>14, <2>3 DEF Stops, Reach, BuildSteps
<1> QED
  BY <1>5, <1>6, <1>7, <1>8, <1>9, <1>10, <1>11, <1>12, <1>13, <1>14, <1>15, <1>16 DEF Step

-----------------------------------------------------------------------------
(* The training data: what a write to the live table changes               *)

LEMMA JournalGrows ==
  ASSUME DatasetsTypeOK, NEW e \in Entry, journal'.log = Append(journal.log, e)
  PROVE  /\ End' = End + 1 /\ End \in Nat
         /\ \A i \in 1..End : journal'.log[i] = journal.log[i]
         /\ journal'.log[End + 1] = e
         /\ \A b \in 0..End, q \in Ids : Between(b, End, q)' =
               Between(b, End, q) \union (IF e.id = q THEN {End + 1} ELSE {})
         /\ \A b \in 0..End, t \in 0..End, q \in Ids : Between(b, t, q)' = Between(b, t, q)
<1>1. journal.log \in Seq(Entry) /\ End = Len(journal.log) /\ End \in Nat
  BY LenProperties DEF DatasetsTypeOK, End
<1>2. End' = Len(journal'.log)
  BY DEF End
<1>3. /\ End' = End + 1 /\ \A i \in 1..End : journal'.log[i] = journal.log[i]
      /\ journal'.log[End + 1] = e
  BY <1>1, <1>2, AppendProperties
<1>4. ASSUME NEW b \in 0..End, NEW q \in Ids
      PROVE  Between(b, End, q)' = Between(b, End, q) \union (IF e.id = q THEN {End + 1} ELSE {})
  <2>1. Between(b, End, q)' = {i \in b + 1..End + 1 : journal'.log[i].id = q}
    BY <1>3 DEF Between
  <2>2. \A i \in b + 1..End : i \in 1..End /\ journal'.log[i] = journal.log[i]
    BY <1>1, <1>3
  <2>3. b + 1..End + 1 = (b + 1..End) \union {End + 1}
    BY <1>1
  <2> QED
    BY <1>3, <2>1, <2>2, <2>3 DEF Between
<1>5. ASSUME NEW b \in 0..End, NEW t \in 0..End, NEW q \in Ids
      PROVE  Between(b, t, q)' = Between(b, t, q)
  <2>1. \A i \in b + 1..t : i \in 1..End /\ journal'.log[i] = journal.log[i]
    BY <1>1, <1>3
  <2> QED
    BY <2>1 DEF Between
<1> QED
  BY <1>1, <1>3, <1>4, <1>5

LEMMA JournalStays ==
  ASSUME journal'.log = journal.log
  PROVE  End' = End /\ \A b, t, q : Between(b, t, q)' = Between(b, t, q)
  BY DEF End, Between

\* A change of one row by a writer.
Writes(r, value, op) ==
    /\ Change(r, value, op)
    /\ \A q \in Ids : q # r => epoch'[q] = epoch[q]
    /\ op = "delete" => value = Absent

LEMMA WriterWrites ==
  ASSUME DatasetsTypeOK, InsertRow \/ UpdateRow \/ DeleteRow
  PROVE  \E r \in Ids, value \in 0..writes + 1, op \in {"put", "delete"} : Writes(r, value, op)
<1>0. writes \in Nat /\ writes + 1 \in 0..writes + 1 /\ Absent \in 0..writes + 1
      /\ epoch \in [Ids -> 0..MaxBases]
  BY DatasetNumbers DEF DatasetsTypeOK, Absent
<1>1. CASE InsertRow
  <2> DEFINE r == TopId(live) + 1
  <2>1. PICK time : epoch' = [epoch EXCEPT ![r] = time]
    BY <1>1 DEF InsertRow
  <2>2. r \in Ids /\ Change(r, writes + 1, "put")
    BY <1>1 DEF InsertRow
  <2>3. \A q \in Ids : q # r => epoch'[q] = epoch[q]
    BY <1>0, <2>1, <2>2
  <2>4. Writes(r, writes + 1, "put")
    BY <2>2, <2>3 DEF Writes
  <2> QED
    BY <1>0, <2>2, <2>4
<1>2. CASE UpdateRow
  <2>1. PICK r \in Present(live) : Change(r, writes + 1, "put")
    BY <1>2 DEF UpdateRow
  <2>2. Writes(r, writes + 1, "put") /\ r \in Ids
    BY <1>2, <2>1 DEF UpdateRow, Writes, Present
  <2> QED
    BY <1>0, <2>2
<1>3. CASE DeleteRow
  <2>1. PICK r \in Present(live) : Change(r, Absent, "delete") /\ epoch' = [epoch EXCEPT ![r] = 0]
    BY <1>3 DEF DeleteRow
  <2>2. Writes(r, Absent, "delete") /\ r \in Ids
    BY <1>0, <2>1 DEF Writes, Present
  <2> QED
    BY <1>0, <2>2
<1> QED
  BY <1>1, <1>2, <1>3

\* A row that is settled after a write was not the one written.
LEMMA SettledBefore ==
  ASSUME DatasetsTypeOK, NEW r \in Ids, NEW value, NEW op \in {"put", "delete"},
         Writes(r, value, op), journal.on
  PROVE  /\ End' = End + 1 /\ End \in Nat
         /\ \A b \in 0..End, q \in Ids : Between(b, End, q)' = {} =>
               /\ q # r /\ Between(b, End, q) = {} /\ live'[q] = live[q] /\ epoch'[q] = epoch[q]
               /\ Between(0, End, q)' = Between(0, End, q)
         /\ \A b \in 0..End, t \in 0..End, q \in Ids : Between(b, t, q)' = Between(b, t, q)
<1> DEFINE e == [id |-> r, op |-> op]
<1>1. e \in Entry /\ e.id = r
  BY DEF Entry
<1>2. journal'.log = Append(journal.log, e)
  BY DEF Writes, Change, DatasetsTypeOK
<1> HIDE DEF e
<1>3. live \in Table /\ live' = [live EXCEPT ![r] = value]
  BY DEF Writes, Change, DatasetsTypeOK
<1>4. ASSUME NEW b \in 0..End, NEW q \in Ids, Between(b, End, q)' = {}
      PROVE  /\ q # r /\ Between(b, End, q) = {} /\ live'[q] = live[q] /\ epoch'[q] = epoch[q]
             /\ Between(0, End, q)' = Between(0, End, q)
  <2>1. Between(b, End, q)' = Between(b, End, q) \union (IF e.id = q THEN {End + 1} ELSE {})
    BY <1>1, <1>2, JournalGrows
  <2>2. q # r /\ Between(b, End, q) = {}
    BY <1>1, <1>4, <2>1
  <2>3. Between(0, End, q)' = Between(0, End, q) \union (IF e.id = q THEN {End + 1} ELSE {})
    <3>1. 0 \in 0..End
      BY <1>1, <1>2, JournalGrows
    <3> QED
      BY <1>1, <1>2, <3>1, JournalGrows
  <2>4. live'[q] = live[q] /\ epoch'[q] = epoch[q]
    BY <1>3, <2>2 DEF Writes, Table
  <2> QED
    BY <1>1, <2>2, <2>3, <2>4
<1> QED
  BY <1>1, <1>2, <1>4, JournalGrows

LEMMA WritersKeep ==
  ASSUME DatasetsInv, InsertRow \/ UpdateRow \/ DeleteRow
  PROVE  /\ CopiesCover' /\ ChainsBehind' /\ Original' /\ DeletesSeen'
         /\ MakingApart' /\ Rollbackable' /\ OpsInv'
<1> USE DEF DatasetsInv
<1>1. PICK r \in Ids, value \in 0..writes + 1, op \in {"put", "delete"} : Writes(r, value, op)
  BY WriterWrites
<1>2. UNCHANGED <<bases, chains, pointer, current, making, at, ctx>> /\ journal'.on = journal.on
  BY <1>1 DEF Writes, Change, files, DatasetsTypeOK
<1>3. CASE ~journal.on
  <2>1. journal' = journal /\ End = 0 /\ End' = End
    BY <1>1, <1>3 DEF Writes, Change, ChainsBehind, End
  <2>2. \A c \in DOMAIN bases : Boundary(c)' = Boundary(c) /\ ~(Boundary(c) >= 0)
    BY <1>2, <1>3, Fields DEF ChainsBehind, Boundary
  <2>3. CopiesCover'
    BY <1>2, <2>2 DEF CopiesCover, Settled
  <2>4. ChainsBehind' /\ Original' /\ DeletesSeen'
    <3>1. Original'
      BY <1>2 DEF Original
    <3>2. DeletesSeen'
      BY <2>1 DEF DeletesSeen
    <3>3. ChainsBehind'
      BY <1>2, <2>1 DEF ChainsBehind
    <3> QED
      BY <3>1, <3>2, <3>3
  <2>5. OpsInv'
    <3> SUFFICES ASSUME NEW p \in Procs PROVE OpInv(p)'
      BY DEF OpsInv
    <3>1. OpInv(p)
      BY DEF OpsInv
    <3>2. ~Compacting(p) /\ at[p] \notin {"read", "publish"}
      BY <1>3, <3>1 DEF OpInv, CompactInv
    <3>3. at[p] = "back" => BackInv(p)'
      BY <1>2, <3>1 DEF OpInv, BackInv, View
    <3> QED
      BY <1>2, <3>1, <3>2, <3>3 DEF OpInv, Compacting, Building
  <2>6. MakingApart' /\ Rollbackable'
    BY <1>2 DEF MakingApart, Rollbackable, Compacting, Building, View
  <2> QED
    BY <2>3, <2>4, <2>5, <2>6
<1>4. CASE journal.on
  <2>1. /\ End' = End + 1 /\ End \in Nat
        /\ \A b \in 0..End, q \in Ids : Between(b, End, q)' = {} =>
               /\ q # r /\ Between(b, End, q) = {} /\ live'[q] = live[q] /\ epoch'[q] = epoch[q]
               /\ Between(0, End, q)' = Between(0, End, q)
        /\ \A b \in 0..End, t \in 0..End, q \in Ids : Between(b, t, q)' = Between(b, t, q)
    BY <1>1, <1>4, SettledBefore
  <2>2. \A c \in DOMAIN bases : /\ Boundary(c)' = Boundary(c) /\ Boundary(c) <= End
                                /\ Boundary(c) \in Int
    BY <1>2, Fields DEF Boundary, ChainsBehind
  <2>3. ASSUME NEW b \in Int, b <= End, NEW q \in Ids, Settled(b, q)'
        PROVE  Settled(b, q) /\ live'[q] = live[q] /\ \A c \in DOMAIN bases : Claimed(c, q)' => Claimed(c, q)
    <3>1. b \in 0..End /\ Between(b, End, q)' = {}
      BY <2>1, <2>3 DEF Settled
    <3>2. /\ Between(b, End, q) = {} /\ live'[q] = live[q] /\ epoch'[q] = epoch[q]
          /\ Between(0, End, q)' = Between(0, End, q)
      BY <2>1, <3>1
    <3> QED
      BY <1>2, <2>3, <3>2 DEF Settled, Claimed
  <2>4. CopiesCover'
    <3> SUFFICES ASSUME NEW c \in DOMAIN bases, bases[c].present, NEW q \in Ids,
                        Settled(Boundary(c), q)', Claimed(c, q)'
                 PROVE  View(c)'[q] = live'[q]
      BY <1>2 DEF CopiesCover
    <3>0. Boundary(c)' = Boundary(c)
      BY <2>2
    <3>1. Settled(Boundary(c), q) /\ live'[q] = live[q] /\ Claimed(c, q)
      <4> DEFINE b == Boundary(c)
      <4>1. b' = b
        BY <3>0
      <4>2. Boundary(c) >= 0 /\ Between(Boundary(c), End, q)' = {}
        BY <3>0 DEF Settled
      <4>3. Boundary(c) \in 0..End
        BY <2>1, <2>2, <4>2
      <4>4. PICK d \in 0..End : d = Boundary(c)
        BY <4>3
      <4>5. Between(d, End, q)' = {} /\ d >= 0
        BY <3>0, <4>2, <4>4 DEF Between
      <4>6. Settled(d, q)'
        BY <4>5 DEF Settled
      <4> QED
        BY <2>1, <2>3, <4>4, <4>6
    <3>2. View(c)[q] = live[q]
      BY <3>1 DEF CopiesCover
    <3>3. View(c)' = View(c)
      BY <1>2 DEF View
    <3> QED
      BY <3>1, <3>2, <3>3
  <2>5. ChainsBehind' /\ Original'
    <3>1. Original'
      BY <1>2 DEF Original
    <3>2. \A c \in Copies : chains[c].end <= End + 1
      BY <2>1, Fields DEF ChainsBehind
    <3>3. \A c \in DOMAIN bases : bases[c].seq <= End + 1
      BY <2>1, Fields DEF ChainsBehind
    <3> QED
      BY <1>2, <1>4, <2>1, <3>1, <3>2, <3>3 DEF ChainsBehind
  <2>6. DeletesSeen'
    <3> SUFFICES ASSUME NEW q \in Ids, NEW i \in 1..End + 1,
                        journal'.log[i].id = q, journal'.log[i].op = "delete",
                        \A j \in i + 1..End + 1 : journal'.log[j].id # q
                 PROVE  live'[q] = Absent
      BY <2>1 DEF DeletesSeen
    <3>0. live' = [live EXCEPT ![r] = value] /\ live \in Table
      BY <1>1 DEF Writes, Change, DatasetsTypeOK
    <3> DEFINE e == [id |-> r, op |-> op]
    <3>1. journal'.log = Append(journal.log, e) /\ e \in Entry
      BY <1>1, <1>4 DEF Writes, Change, DatasetsTypeOK, Entry
    <3> HIDE DEF e
    <3>2. /\ \A j \in 1..End : journal'.log[j] = journal.log[j]
          /\ journal'.log[End + 1] = e
      BY <3>1, JournalGrows
    <3>3. e.id = r /\ e.op = op
      BY DEF e
    <3>4. CASE i = End + 1
      <4>1. q = r /\ op = "delete"
        BY <3>2, <3>3, <3>4
      <4>2. value = Absent
        BY <1>1, <4>1 DEF Writes
      <4> QED
        BY <3>0, <4>1, <4>2 DEF Table
    <3>5. CASE i # End + 1
      <4>1. i \in 1..End /\ End + 1 \in i + 1..End + 1
        BY <2>1, <3>5
      <4>2. q # r
        BY <3>2, <3>3, <4>1
      <4>3. journal.log[i].id = q /\ journal.log[i].op = "delete"
        BY <3>2, <4>1
      <4>4. \A j \in i + 1..End : journal.log[j].id # q
        <5> SUFFICES ASSUME NEW j \in i + 1..End PROVE journal.log[j].id # q
          OBVIOUS
        <5>1. j \in 1..End /\ j \in i + 1..End + 1
          BY <2>1, <4>1
        <5> QED
          BY <3>2, <5>1
      <4>5. live[q] = Absent
        BY <4>1, <4>3, <4>4 DEF DeletesSeen
      <4> QED
        BY <3>0, <4>2, <4>5 DEF Table
    <3> QED
      BY <3>4, <3>5
  <2>7. OpsInv'
    <3> SUFFICES ASSUME NEW p \in Procs PROVE OpInv(p)'
      BY DEF OpsInv
    <3>1. OpInv(p)
      BY DEF OpsInv
    <3>2. at[p] = "back" => BackInv(p)'
      BY <1>2, <3>1 DEF OpInv, BackInv, View
    <3>3. ctx[p].to \in Nat /\ ctx[p].chain.end \in Nat
      BY Fields
    <3>4. at[p] = "publish" => DeltaRead(p)'
      <4> SUFFICES ASSUME at[p] = "publish" PROVE DeltaRead(p)'
        OBVIOUS
      <4>0. ctx' = ctx /\ bases' = bases
        BY <1>2
      <4>1. ctx[p].to \in 0..End /\ ctx[p].chain.end \in 0..End /\ ctx[p].chain.end <= ctx[p].to
        BY <2>1, <3>1, <3>3 DEF OpInv, DeltaRead
      <4>2. PICK to \in 0..End, from \in 0..End : to = ctx[p].to /\ from = ctx[p].chain.end
        BY <4>1
      <4>3. ASSUME NEW q \in Ids, Between(ctx[p].to, End, q)' = {}
            PROVE  /\ Between(ctx[p].to, End, q) = {} /\ live'[q] = live[q] /\ epoch'[q] = epoch[q]
                   /\ Between(ctx[p].chain.end, ctx[p].to, q)' = Between(ctx[p].chain.end, ctx[p].to, q)
        <5>1. Between(to, End, q)' = {}
          BY <4>0, <4>2, <4>3 DEF Between
        <5>2. Between(from, to, q)' = Between(from, to, q)
          BY <2>1
        <5>3. Between(to, End, q) = {} /\ live'[q] = live[q] /\ epoch'[q] = epoch[q]
          BY <2>1, <5>1
        <5> QED
          BY <4>0, <4>2, <5>2, <5>3 DEF Between
      <4>4. DeltaRead(p)
        BY <3>1 DEF OpInv
      <4>5. ctx'[p].to <= End'
        BY <2>1, <4>0, <4>1
      <4> QED
        BY <4>0, <4>1, <4>3, <4>4, <4>5 DEF DeltaRead
    <3>5. Compacting(p) => CompactInv(p)'
      <4> SUFFICES ASSUME Compacting(p) PROVE CompactInv(p)'
        OBVIOUS
      <4>1. CompactInv(p)
        BY <3>1 DEF OpInv
      <4>2. ASSUME at[p] = "chain", NEW q \in Ids, Settled(ctx[p].chain.end, q)', Claimed(ctx[p].new, q)'
            PROVE  bases[ctx[p].new].rows[q] = live'[q]
        <5>1. ctx[p].chain.end \in 0..End
          BY <2>1, <3>1, <3>3, <4>1, Fields DEF OpInv, ChainsBehind, Compacting
        <5>2. PICK b \in 0..End : b = ctx[p].chain.end
          BY <5>1
        <5>3. Settled(b, q)'
          BY <1>2, <4>2, <5>2 DEF Settled, Between
        <5>4. Settled(b, q) /\ live'[q] = live[q] /\ (Claimed(ctx[p].new, q)' => Claimed(ctx[p].new, q))
          <6>1. PICK c \in DOMAIN bases : c = ctx[p].new
            BY <4>1 DEF CompactInv
          <6>2. Claimed(c, q)' <=> Claimed(ctx[p].new, q)'
            BY <1>2, <6>1 DEF Claimed
          <6> QED
            BY <2>1, <2>3, <5>3, <6>1, <6>2
        <5> QED
          BY <4>1, <4>2, <5>2, <5>4 DEF CompactInv
      <4> QED
        BY <1>2, <4>1, <4>2 DEF CompactInv, View
    <3> QED
      BY <1>2, <3>1, <3>2, <3>4, <3>5 DEF OpInv, Compacting, Building
  <2>8. MakingApart' /\ Rollbackable'
    BY <1>2 DEF MakingApart, Rollbackable, Compacting, Building, View
  <2> QED
    BY <2>4, <2>5, <2>6, <2>7, <2>8
<1> QED
  BY <1>3, <1>4

-----------------------------------------------------------------------------
(* The training data: what the other steps do to the copies                 *)

\* Copies come without being there yet, and go; what stays reads as before.
LEMMA CoverKept ==
  ASSUME DatasetsTypeOK, CopiesCover, ChainsBehind, Original, DeletesSeen,
         UNCHANGED <<live, epoch, chains>>, journal'.log = journal.log, journal.on => journal'.on,
         Len(bases') \in Nat, Len(bases') >= Len(bases),
         \A c \in DOMAIN bases' :
            \/ c \in DOMAIN bases /\ bases'[c] = bases[c]
            \/ ~bases'[c].present /\ bases'[c].seq <= End /\ (bases'[c].seq >= 0 => journal.on)
  PROVE  CopiesCover' /\ ChainsBehind' /\ Original' /\ DeletesSeen'
<1>1. End' = End /\ \A b, t, q : Between(b, t, q)' = Between(b, t, q)
  BY JournalStays
<1>2. DeletesSeen'
  BY <1>1 DEF DeletesSeen
<1>3. Original'
  BY DEF Original
<1>4. ChainsBehind'
  <2>1. \A c \in DOMAIN bases' : bases'[c].seq <= End /\ (bases'[c].seq >= 0 => journal.on)
    BY DEF ChainsBehind
  <2>2. \A c \in Copies : c <= Len(bases) => c <= Len(bases')
    BY Fields, DatasetNumbers DEF Copies
  <2> QED
    BY <1>1, <2>1, <2>2 DEF ChainsBehind
<1>5. CopiesCover'
  <2> SUFFICES ASSUME NEW c \in DOMAIN bases', bases'[c].present, NEW r \in Ids,
                      Settled(Boundary(c), r)', Claimed(c, r)'
               PROVE  View(c)'[r] = live'[r]
    BY DEF CopiesCover
  <2>1. c \in DOMAIN bases /\ bases'[c] = bases[c]
    OBVIOUS
  <2>2. Boundary(c)' = Boundary(c) /\ View(c)' = View(c)
    BY <2>1 DEF Boundary, View
  <2>3. Settled(Boundary(c), r) /\ Claimed(c, r)
    BY <1>1, <2>1, <2>2 DEF Settled, Claimed, Between
  <2> QED
    BY <2>1, <2>2, <2>3 DEF CopiesCover
<1> QED
  BY <1>2, <1>3, <1>4, <1>5

\* A new copy has the live table as of the journal's end.
LEMMA CreateCopyCovers ==
  ASSUME DatasetsInv, CreateCopy
  PROVE  CopiesCover' /\ ChainsBehind' /\ Original' /\ DeletesSeen'
<1> USE DEF DatasetsInv
<1>0. PICK c : c = making.copy
  OBVIOUS
<1> DEFINE b == [rows |-> live, seq |-> IF journal.on THEN End ELSE -1,
                 top |-> TopId(live), since |-> c, present |-> TRUE]
<1>1. /\ c \in DOMAIN bases /\ ~chains[c].made /\ bases' = [bases EXCEPT ![c] = b]
      /\ UNCHANGED <<database, chains>>
  BY <1>0 DEF CreateCopy, MakingApart
<1>2. b \in Base
  <2>1. live \in Table /\ End \in 0..MaxWrites /\ TopId(live) \in 0..MaxId /\ c \in 0..MaxBases
    BY <1>1, Fields, TopIdType, DatasetNumbers DEF DatasetsTypeOK
  <2>2. (IF journal.on THEN End ELSE -1) \in -1..MaxWrites
    BY <2>1, DatasetNumbers
  <2> QED
    BY <2>1, <2>2 DEF Base
<1>3. /\ b.rows = live /\ b.seq = (IF journal.on THEN End ELSE -1) /\ b.top = TopId(live)
      /\ b.since = c /\ b.present
  OBVIOUS
<1> HIDE DEF b
<1>4. /\ Len(bases') = Len(bases) /\ DOMAIN bases' = DOMAIN bases /\ bases'[c] = b
      /\ \A d \in DOMAIN bases : d # c => bases'[d] = bases[d]
  BY <1>1, <1>2, CopyPut
<1>5. journal' = journal /\ End' = End /\ live' = live /\ epoch' = epoch
      /\ \A s, t, q : Between(s, t, q)' = Between(s, t, q)
  BY <1>1, JournalStays DEF database
<1>6. chains[c] = NoChain /\ c \in Copies
  BY <1>1, Fields DEF ChainsBehind
<1>7. DeletesSeen'
  BY <1>5 DEF DeletesSeen
<1>8. Original'
  BY <1>1, <1>3, <1>4 DEF Original
<1>9. ChainsBehind'
  <2>1. \A d \in DOMAIN bases' : bases'[d].seq <= End /\ (bases'[d].seq >= 0 => journal.on)
    BY <1>3, <1>4, Fields DEF ChainsBehind
  <2> QED
    BY <1>1, <1>4, <1>5, <2>1 DEF ChainsBehind
<1>10. CopiesCover'
  <2> SUFFICES ASSUME NEW d \in DOMAIN bases, bases'[d].present, NEW r \in Ids,
                      Settled(Boundary(d), r)', Claimed(d, r)'
               PROVE  View(d)'[r] = live'[r]
    BY <1>4 DEF CopiesCover
  <2>1. CASE d = c
    <3>1. View(c)' = Layered(live, <<>>)
      BY <1>1, <1>3, <1>4, <1>6 DEF View, NoChain
    <3> QED
      BY <1>5, <2>1, <3>1, LayeredEmpty DEF DatasetsTypeOK
  <2>2. CASE d # c
    <3>1. bases'[d] = bases[d]
      BY <1>4, <2>2
    <3>2. Boundary(d)' = Boundary(d) /\ View(d)' = View(d)
      BY <1>1, <3>1 DEF Boundary, View
    <3>3. Settled(Boundary(d), r) /\ Claimed(d, r)
      BY <1>5, <3>1, <3>2 DEF Settled, Claimed, Between
    <3> QED
      BY <1>5, <3>1, <3>2, <3>3 DEF CopiesCover
  <2> QED
    BY <2>1, <2>2
<1> QED
  BY <1>7, <1>8, <1>9, <1>10

LEMMA LayeredMore ==
  ASSUME NEW table \in Table, NEW deltas \in Seq(Delta), NEW delta \in Delta,
         NEW more \in Seq(Delta), OneMore(more, deltas, delta)
  PROVE  \A r \in Ids : Layered(table, more)[r] =
            IF delta[r] # Kept THEN delta[r] ELSE Layered(table, deltas)[r]
  BY LayeredAppend

LEMMA ViewPublished ==
  ASSUME DatasetsTypeOK, NEW b \in DOMAIN bases, NEW p \in Procs,
         bases'[b].rows = bases[b].rows, chains'[b].deltas = Append(chains[b].deltas, ctx[p].delta)
  PROVE  \A r \in Ids : View(b)'[r] =
            IF ctx[p].delta[r] # Kept THEN ctx[p].delta[r] ELSE View(b)[r]
<1>1. bases[b].rows \in Table /\ chains[b].deltas \in Seq(Delta) /\ ctx[p].delta \in Delta
  BY Fields
<1>2. PICK more : more = chains'[b].deltas
  OBVIOUS
<1>3. more \in Seq(Delta) /\ OneMore(more, chains[b].deltas, ctx[p].delta)
  BY <1>1, <1>2, AppendProperties, LenProperties DEF OneMore
<1>4. \A r \in Ids : Layered(bases[b].rows, more)[r] =
         IF ctx[p].delta[r] # Kept THEN ctx[p].delta[r] ELSE Layered(bases[b].rows, chains[b].deltas)[r]
  BY <1>1, <1>3, LayeredMore
<1>5. View(b) = Layered(bases[b].rows, chains[b].deltas) /\ View(b)' = Layered(bases[b].rows, more)
  BY <1>2 DEF View
<1> QED
  BY <1>4, <1>5

\* A published delta says what the rows say that have changed since the last.
LEMMA PublishCovers ==
  ASSUME DatasetsInv, NEW p \in Procs, PublishDelta(p)
  PROVE  CopiesCover' /\ ChainsBehind' /\ Original' /\ DeletesSeen'
<1> USE DEF DatasetsInv
<1>0. PICK b : b = ctx[p].base
  OBVIOUS
<1> DEFINE next == [made |-> TRUE, deltas |-> Append(ctx[p].chain.deltas, ctx[p].delta), end |-> ctx[p].to]
<1>1. /\ at[p] = "publish" /\ chains' = [chains EXCEPT ![b] = next]
      /\ UNCHANGED <<database, bases>>
  BY <1>0 DEF PublishDelta
<1>2. OpInv(p) /\ b \in DOMAIN bases /\ ctx[p].chain = chains[b] /\ DeltaRead(p) /\ journal.on
  BY <1>0, <1>1 DEF OpsInv, OpInv
<1>3. /\ next.made /\ next.deltas = Append(chains[b].deltas, ctx[p].delta) /\ next.end = ctx[p].to
  BY <1>2
<1> HIDE DEF next
<1>4. b \in Copies /\ chains'[b] = next /\ \A c \in Copies : c # b => chains'[c] = chains[c]
  BY <1>1, <1>2, Fields DEF DatasetsTypeOK
<1>5. bases' = bases /\ journal' = journal /\ End' = End /\ live' = live /\ epoch' = epoch
      /\ \A s, t, q : Between(s, t, q)' = Between(s, t, q)
  BY <1>1, JournalStays DEF database
<1>6. DeletesSeen' /\ Original'
  <2>1. Original'
    BY <1>3, <1>4, <1>5, Fields DEF Original
  <2> QED
    BY <1>5, <2>1 DEF DeletesSeen
<1>7. ChainsBehind'
  <2>1. next.end <= End /\ b <= Len(bases)
    BY <1>2, <1>3, Fields DEF DeltaRead
  <2> QED
    BY <1>2, <1>3, <1>4, <1>5, <2>1 DEF ChainsBehind
<1>8. CopiesCover'
  <2> SUFFICES ASSUME NEW d \in DOMAIN bases, bases[d].present, NEW r \in Ids,
                      Settled(Boundary(d), r)', Claimed(d, r)'
               PROVE  View(d)'[r] = live[r]
    BY <1>5 DEF CopiesCover
  <2>0. Claimed(d, r)
    BY <1>5 DEF Claimed
  <2>1. CASE d # b
    <3>1. Boundary(d)' = Boundary(d) /\ View(d)' = View(d)
      BY <1>4, <1>5, <2>1, Fields DEF Boundary, View
    <3>2. Settled(Boundary(d), r)
      BY <1>5, <3>1 DEF Settled, Between
    <3> QED
      BY <2>0, <3>1, <3>2 DEF CopiesCover
  <2>2. CASE d = b
    <3>1. Boundary(b)' = ctx[p].to
      BY <1>3, <1>4 DEF Boundary
    <3>2. Between(ctx[p].to, End, r) = {}
      BY <1>5, <2>2, <3>1 DEF Settled, Between
    <3>4. View(b)'[r] = IF ctx[p].delta[r] # Kept THEN ctx[p].delta[r] ELSE View(b)[r]
      <4>1. bases'[b].rows = bases[b].rows /\ chains'[b].deltas = Append(chains[b].deltas, ctx[p].delta)
        BY <1>3, <1>4, <1>5
      <4> QED
        BY <1>2, <4>1, ViewPublished
    <3>5. CASE ctx[p].delta[r] # Kept
      BY <1>2, <2>2, <3>2, <3>4, <3>5 DEF DeltaRead
    <3>6. CASE ctx[p].delta[r] = Kept
      <4>1. live[r] # Kept
        BY DatasetNumbers DEF DatasetsTypeOK, Table
      <4>2. Between(chains[b].end, ctx[p].to, r) = {}
        BY <1>2, <3>2, <3>6, <4>1 DEF DeltaRead
      <4>3. /\ chains[b].end \in Nat /\ ctx[p].to \in Nat /\ End \in Nat
            /\ bases[b].seq \in Int /\ bases[b].seq <= End
        BY <1>2, <1>4, Fields DEF ChainsBehind
      <4>4. Between(chains[b].end, End, r) = {}
        BY <3>2, <4>2, <4>3 DEF Between
      <4>5. Settled(Boundary(b), r)
        <5>1. CASE chains[b].made
          BY <4>3, <4>4, <5>1 DEF Settled, Boundary
        <5>2. CASE ~chains[b].made
          <6>1. chains[b].end = 0
            BY <1>4, <5>2 DEF ChainsBehind, NoChain
          <6>2. Between(0, End, r) = {}
            BY <4>4, <6>1
          <6>3. bases[b].seq >= 0
            <7>1. ~(/\ bases[b].present /\ ~ctx[p].chain.made /\ live[r] # Absent
                    /\ r > bases[b].top \/ epoch[r] >= bases[b].since)
              BY <1>0, <1>2, <3>2, <3>6, <4>1 DEF DeltaRead
            <7> QED
              BY <1>2, <2>0, <2>2, <5>2, <6>2, <7>1 DEF Claimed
          <6>4. Between(bases[b].seq, End, r) = {}
            BY <4>3, <6>2, <6>3 DEF Between
          <6> QED
            BY <5>2, <6>3, <6>4 DEF Settled, Boundary
        <5> QED
          BY <5>1, <5>2
      <4> QED
        BY <2>0, <2>2, <3>4, <3>6, <4>5 DEF CopiesCover
    <3> QED
      BY <2>2, <3>5, <3>6
  <2> QED
    BY <2>1, <2>2
<1> QED
  BY <1>6, <1>7, <1>8

\* The compacted copy goes on where the chain that it replaces ended.
LEMMA CompactChainCovers ==
  ASSUME DatasetsInv, NEW p \in Procs, CompactChain(p)
  PROVE  CopiesCover' /\ ChainsBehind' /\ Original' /\ DeletesSeen'
<1> USE DEF DatasetsInv
<1>0. PICK c : c = ctx[p].new
  OBVIOUS
<1> DEFINE next == [made |-> TRUE, deltas |-> <<>>, end |-> ctx[p].chain.end]
           b == [bases[c] EXCEPT !.present = TRUE]
<1>1. /\ at[p] = "chain" /\ chains' = [chains EXCEPT ![c] = next] /\ bases' = [bases EXCEPT ![c] = b]
      /\ UNCHANGED database
  BY <1>0 DEF CompactChain
<1>2. OpInv(p) /\ CompactInv(p) /\ c \in DOMAIN bases /\ journal.on
      /\ ctx[p].base \in DOMAIN bases /\ ctx[p].chain = chains[ctx[p].base]
  BY <1>0, <1>1 DEF OpsInv, OpInv, Compacting, CompactInv
<1>3. next.made /\ next.deltas = <<>> /\ next.end = ctx[p].chain.end
  OBVIOUS
<1>4. b \in Base /\ b.rows = bases[c].rows /\ b.seq = bases[c].seq /\ b.top = bases[c].top
      /\ b.since = bases[c].since
  <2>1. bases[c] \in Base
    BY <1>2, LenProperties DEF DatasetsTypeOK
  <2> QED
    BY <2>1 DEF Base
<1> HIDE DEF next, b
<1>5. c \in Copies /\ chains'[c] = next /\ \A d \in Copies : d # c => chains'[d] = chains[d]
  BY <1>1, <1>2, Fields DEF DatasetsTypeOK
<1>6. journal' = journal /\ End' = End /\ live' = live /\ epoch' = epoch
      /\ \A s, t, q : Between(s, t, q)' = Between(s, t, q)
  BY <1>1, JournalStays DEF database
<1>7. /\ Len(bases') = Len(bases) /\ DOMAIN bases' = DOMAIN bases /\ bases'[c] = b
      /\ \A d \in DOMAIN bases : d # c => bases'[d] = bases[d]
  BY <1>1, <1>2, <1>4, CopyPut
<1>8. DeletesSeen' /\ Original'
  <2>1. Original'
    BY <1>3, <1>5, <1>7, Fields DEF Original
  <2> QED
    BY <1>6, <2>1 DEF DeletesSeen
<1>9. ChainsBehind'
  <2>1. next.end <= End /\ c <= Len(bases)
    BY <1>2, <1>3, Fields DEF ChainsBehind
  <2>2. \A d \in DOMAIN bases' : bases'[d].seq <= End /\ (bases'[d].seq >= 0 => journal.on)
    BY <1>2, <1>4, <1>7 DEF ChainsBehind
  <2> QED
    BY <1>2, <1>3, <1>5, <1>6, <1>7, <2>1, <2>2 DEF ChainsBehind
<1>10. CopiesCover'
  <2> SUFFICES ASSUME NEW d \in DOMAIN bases, bases'[d].present, NEW r \in Ids,
                      Settled(Boundary(d), r)', Claimed(d, r)'
               PROVE  View(d)'[r] = live[r]
    BY <1>6, <1>7 DEF CopiesCover
  <2>1. CASE d # c
    <3>1. Boundary(d)' = Boundary(d) /\ View(d)' = View(d) /\ bases'[d] = bases[d]
      BY <1>5, <1>7, <2>1, Fields DEF Boundary, View
    <3>2. Settled(Boundary(d), r) /\ Claimed(d, r)
      BY <1>6, <3>1 DEF Settled, Claimed, Between
    <3> QED
      BY <3>1, <3>2 DEF CopiesCover
  <2>2. CASE d = c
    <3>1. Boundary(c)' = ctx[p].chain.end
      BY <1>3, <1>5 DEF Boundary
    <3>2. Settled(ctx[p].chain.end, r)
      BY <1>6, <2>2, <3>1 DEF Settled, Between
    <3>3. Claimed(c, r)
      BY <1>4, <1>6, <1>7, <2>2 DEF Claimed
    <3>4. bases[c].rows[r] = live[r]
      BY <1>0, <1>1, <1>2, <3>2, <3>3 DEF CompactInv
    <3>5. View(c)' = Layered(bases[c].rows, <<>>)
      BY <1>3, <1>4, <1>5, <1>7 DEF View
    <3>6. bases[c].rows \in Table
      BY <1>2, Fields
    <3> QED
      BY <2>2, <3>4, <3>5, <3>6, LayeredEmpty
  <2> QED
    BY <2>1, <2>2
<1> QED
  BY <1>8, <1>9, <1>10

-----------------------------------------------------------------------------
(* The training data: what the steps do to the operations that are going on *)

\* What a process knows of is a copy, or nothing.
LEMMA KnownCopies ==
  ASSUME DatasetsTypeOK, Rollbackable, NEW p \in Procs, OpInv(p)
  PROVE  /\ ctx[p].base \in DOMAIN bases \union {NoCopy} /\ ctx[p].new \in DOMAIN bases \union {NoCopy}
         /\ current.old \in DOMAIN bases \union {NoCopy} /\ current.new \in DOMAIN bases \union {NoCopy}
         /\ current # NoRecord => current.old \in DOMAIN bases /\ current.new \in DOMAIN bases
<1>1. /\ Len(bases) \in Nat /\ DOMAIN bases = 1..Len(bases) /\ current \in Record
  BY Fields DEF DatasetsTypeOK
<1>2. current # NoRecord => current.old \in DOMAIN bases /\ current.new \in DOMAIN bases
  BY <1>1, DatasetNumbers DEF Rollbackable, Record
<1>3. current = NoRecord => current.old = NoCopy /\ current.new = NoCopy
  BY DEF NoRecord
<1>4. CASE at[p] = "idle"
  BY <1>2, <1>3, <1>4 DEF OpInv, NoContext
<1>5. CASE at[p] # "idle"
  <2>1. at[p] \in BuildSteps
    BY DEF DatasetsTypeOK
  <2> QED
    BY <1>2, <1>3, <1>5, <2>1 DEF OpInv, Building, Compacting, CompactInv, BackInv, BuildSteps
<1> QED
  BY <1>2, <1>3, <1>4, <1>5

\* An operation does not notice that other copies come and go, nor that one that
\* is there goes.
LEMMA OpKept ==
  ASSUME DatasetsTypeOK, Rollbackable, NEW p \in Procs, OpInv(p),
         UNCHANGED <<database, chains, current, at, ctx>>, DOMAIN bases \subseteq DOMAIN bases',
         \A c \in DOMAIN bases :
            \/ bases'[c] = bases[c]
            \/ ~bases'[c].present /\ ~(at[p] \in {"check", "chain"} /\ c = ctx[p].new)
            \/ c # ctx[p].base /\ c # ctx[p].new
  PROVE  OpInv(p)'
<1>1. journal' = journal /\ live' = live /\ epoch' = epoch
  BY DEF database
<1>2. CASE at[p] = "idle"
  BY <1>2 DEF OpInv, Building, Compacting
<1>3. CASE Building(p)
  <2>1. at[p] = "publish" => DeltaRead(p)'
    <3>1. ctx[p].base \in DOMAIN bases
      BY <1>3 DEF OpInv, Building
    <3>2. bases'[ctx[p].base] = bases[ctx[p].base] \/ ~bases'[ctx[p].base].present
      BY <3>1
    <3>3. at[p] = "publish" => DeltaRead(p)
      BY DEF OpInv
    <3>4. End' = End /\ \A s, t, q : Between(s, t, q)' = Between(s, t, q)
      BY <1>1, JournalStays
    <3> QED
      BY <1>1, <3>2, <3>3, <3>4 DEF DeltaRead
  <2> QED
    BY <1>1, <1>3, <2>1 DEF OpInv, Building, Compacting
<1>4. CASE Compacting(p)
  <2>1. CompactInv(p) /\ ctx[p].base \in DOMAIN bases /\ ctx[p].new \in DOMAIN bases
    BY <1>4 DEF OpInv, Compacting, CompactInv
  <2>2. PICK b, c \in DOMAIN bases : b = ctx[p].base /\ c = ctx[p].new
    BY <2>1
  <2>3. bases'[b] = bases[b] \/ ~bases'[b].present
    BY <2>2
  <2>4. bases'[c] = bases[c] \/ (~bases'[c].present /\ at[p] \in {"switch", "record"})
    BY <1>4, <2>2 DEF Compacting
  <2>5. bases'[b] = bases[b] => View(b)' = View(b)
    BY DEF View
  <2>6. End' = End /\ \A s, t, q : Between(s, t, q)' = Between(s, t, q)
    BY <1>1, JournalStays
  <2>7. at[p] = "chain" => \A r \in Ids : Settled(ctx[p].chain.end, r)' /\ Claimed(c, r)' =>
                                             Settled(ctx[p].chain.end, r) /\ Claimed(c, r)
    <3> SUFFICES ASSUME at[p] = "chain", NEW r \in Ids, Settled(ctx[p].chain.end, r)', Claimed(c, r)'
                 PROVE  Settled(ctx[p].chain.end, r) /\ Claimed(c, r)
      OBVIOUS
    <3>1. bases'[c] = bases[c]
      BY <2>4
    <3> QED
      BY <1>1, <2>6, <3>1 DEF Settled, Claimed, Between
  <2>8. /\ c \in DOMAIN bases' /\ b < c /\ c # current.old /\ c # current.new
        /\ journal.on /\ ctx[p].chain.made
    BY <2>1, <2>2 DEF CompactInv
  <2>9. ASSUME at[p] = "check" PROVE CompactInv(p)'
    BY <1>1, <2>1, <2>2, <2>3, <2>4, <2>5, <2>8, <2>9 DEF CompactInv
  <2>10. ASSUME at[p] = "chain" PROVE CompactInv(p)'
    <3>1. bases'[c] = bases[c] /\ ~bases[c].present /\ ~chains[c].made
      BY <2>1, <2>2, <2>4, <2>10 DEF CompactInv
    <3>2. bases'[b].present => bases'[c].rows = View(b)'
      BY <2>1, <2>2, <2>3, <2>5, <2>10, <3>1 DEF CompactInv
    <3>3. ASSUME NEW r \in Ids, Settled(ctx[p].chain.end, r)', Claimed(c, r)'
          PROVE  bases'[c].rows[r] = live'[r]
      BY <1>1, <2>1, <2>2, <2>7, <2>10, <3>1, <3>3 DEF CompactInv
    <3>4. \A r \in Ids : Settled(ctx[p].chain.end, r)' /\ Claimed(ctx[p].new, r)' =>
                            bases'[c].rows[r] = live'[r]
      BY <2>2, <3>3 DEF Claimed
    <3>5. View(ctx[p].base)' = View(b)'
      BY <2>2 DEF View
    <3> QED
      BY <1>1, <2>2, <2>8, <2>10, <3>1, <3>2, <3>4, <3>5 DEF CompactInv
  <2>11. ASSUME at[p] \in {"switch", "record"} PROVE CompactInv(p)'
    <3>1. View(ctx[p].base)' = View(b)'
      BY <2>2 DEF View
    <3> QED
      BY <1>1, <2>1, <2>2, <2>3, <2>4, <2>5, <2>8, <2>11, <3>1 DEF CompactInv
  <2>12. CompactInv(p)'
    BY <1>4, <2>9, <2>10, <2>11 DEF Compacting
  <2> QED
    BY <1>1, <1>4, <2>1, <2>12 DEF OpInv, Building, Compacting
<1>5. CASE at[p] = "back"
  <2>1. /\ BackInv(p) /\ ctx[p].base \in DOMAIN bases /\ ctx[p].new \in DOMAIN bases
        /\ at[p] \notin {"check", "chain"}
    BY <1>5, KnownCopies DEF OpInv, BackInv
  <2>2. PICK b, c \in DOMAIN bases : b = ctx[p].base /\ c = ctx[p].new
    BY <2>1
  <2>3. (bases'[b] = bases[b] \/ ~bases'[b].present) /\ (bases'[c] = bases[c] \/ ~bases'[c].present)
    BY <2>1, <2>2
  <2>4. (bases'[b] = bases[b] => View(b)' = View(b)) /\ (bases'[c] = bases[c] => View(c)' = View(c))
    BY DEF View
  <2>5. View(ctx[p].base)' = View(b)' /\ View(ctx[p].new)' = View(c)'
    BY <2>2 DEF View
  <2>6. BackInv(p)'
    BY <2>1, <2>2, <2>3, <2>4, <2>5 DEF BackInv
  <2> QED
    BY <1>5, <2>1, <2>6 DEF OpInv, Building, Compacting
<1> QED
  BY <1>2, <1>3, <1>4, <1>5 DEF DatasetsTypeOK, BuildSteps, Building, Compacting

\* The same for what the last compaction left.
LEMMA RollbackableKept ==
  ASSUME DatasetsTypeOK, Rollbackable, UNCHANGED <<chains, current>>,
         Len(bases') \in Nat, Len(bases) <= Len(bases'), DOMAIN bases' = 1..Len(bases'),
         pointer' = current.new => pointer = current.new /\ \A p \in Procs : Building(p)' => ctx'[p].base # current.old,
         \A c \in DOMAIN bases : \/ bases'[c] = bases[c] \/ ~bases'[c].present
                                 \/ c # current.old /\ c # current.new
  PROVE  Rollbackable'
<1>1. Len(bases) \in Nat /\ DOMAIN bases = 1..Len(bases) /\ current \in Record
  BY Fields DEF DatasetsTypeOK
<1>2. current.old \in Nat /\ current.new \in Nat
  BY <1>1, DatasetNumbers DEF Record
<1>3. current # NoRecord => 1 <= current.old /\ current.old < current.new /\ current.new <= Len(bases')
  BY <1>1, <1>2 DEF Rollbackable
<1>4. ASSUME pointer' = current.new, pointer' # NoCopy, bases'[current.old].present,
             bases'[current.new].present, chains[current.new].deltas = <<>>
      PROVE  bases'[current.new].rows = View(current.old)'
  <2>1. current # NoRecord
    BY <1>4 DEF NoRecord
  <2>2. current.old \in DOMAIN bases /\ current.new \in DOMAIN bases
    BY <1>1, <1>2, <2>1 DEF Rollbackable
  <2>3. bases'[current.old] = bases[current.old] /\ bases'[current.new] = bases[current.new]
    BY <1>4, <2>2
  <2>4. View(current.old)' = View(current.old)
    BY <2>3 DEF View
  <2> QED
    BY <1>4, <2>3, <2>4 DEF Rollbackable
<1> QED
  BY <1>3, <1>4 DEF Rollbackable

\* What the maker of copies and the retention do to the copies.
LEMMA MakerBases ==
  ASSUME DatasetsInv, CreateStart \/ CreateCopy \/ CreatePoint \/ CreateEnd \/ CreateFails \/ Cleanup
  PROVE  /\ UNCHANGED <<database, chains, current, at, ctx>>
         /\ Len(bases') \in Nat /\ Len(bases) <= Len(bases') /\ DOMAIN bases' = 1..Len(bases')
         /\ \A p \in Procs, c \in DOMAIN bases :
               \/ bases'[c] = bases[c]
               \/ ~bases'[c].present /\ ~(at[p] \in {"check", "chain"} /\ c = ctx[p].new)
               \/ c # ctx[p].base /\ c # ctx[p].new
         /\ \A c \in DOMAIN bases : \/ bases'[c] = bases[c] \/ ~bases'[c].present
                                    \/ c # current.old /\ c # current.new
         /\ CreateCopy \/ \A c \in DOMAIN bases' :
               \/ c \in DOMAIN bases /\ bases'[c] = bases[c]
               \/ ~bases'[c].present /\ bases'[c].seq <= End /\ (bases'[c].seq >= 0 => journal.on)
         /\ \A c \in DOMAIN bases : CreateCopy \/ (bases'[c].present => bases[c].present)
<1> USE DEF DatasetsInv
<1>0. /\ Len(bases) \in Nat /\ DOMAIN bases = 1..Len(bases) /\ End \in Nat
      /\ Gone \in Base /\ ~Gone.present /\ Gone.seq = -1
      /\ \A c \in DOMAIN bases : bases[c].seq <= End /\ (bases[c].seq >= 0 => journal.on)
  BY Fields, PlainTypes DEF Gone, ChainsBehind
<1>1. UNCHANGED <<database, chains, current, at, ctx>>
  BY DEF CreateStart, CreateCopy, CreatePoint, CreateEnd, CreateFails, Cleanup, files
<1>2. ASSUME NEW p \in Procs, at[p] \in {"check", "chain"}
      PROVE  /\ ctx[p].new \in DOMAIN bases /\ ~bases[ctx[p].new].present
             /\ making.step # "idle" => ctx[p].new # making.copy
  BY <1>2 DEF OpsInv, OpInv, Compacting, CompactInv, MakingApart
<1>3. CASE CreateStart
  <2>1. bases' = Append(bases, Gone)
    BY <1>3 DEF CreateStart
  <2>2. /\ Len(bases') = Len(bases) + 1 /\ DOMAIN bases' = 1..Len(bases) + 1
        /\ bases'[Len(bases) + 1] = Gone /\ \A c \in DOMAIN bases : bases'[c] = bases[c]
    BY <1>0, <2>1, CopyAdded
  <2>3. \A c \in DOMAIN bases' : c \in DOMAIN bases \/ c = Len(bases) + 1
    BY <1>0, <2>2
  <2> QED
    BY <1>0, <1>1, <2>2, <2>3
<1>4. CASE CreateCopy
  <2>1. PICK c : c = making.copy /\ c \in DOMAIN bases
    BY <1>4 DEF CreateCopy, MakingApart
  <2>2. PICK b : bases' = [bases EXCEPT ![c] = b]
    BY <1>4, <2>1 DEF CreateCopy
  <2>3. DOMAIN bases' = DOMAIN bases /\ \A d \in DOMAIN bases : d # c => bases'[d] = bases[d]
    BY <2>2
  <2>4. Len(bases') = Len(bases)
    <3>1. bases' \in Seq(Base)
      BY <1>4, MakerTypes DEF DatasetsTypeOK
    <3>2. Len(bases') \in Nat /\ DOMAIN bases' = 1..Len(bases')
      BY <3>1, LenProperties
    <3> QED
      BY <1>0, <2>3, <3>2
  <2>5. /\ c # current.old /\ c # current.new
        /\ \A p \in Procs : c # ctx[p].base /\ c # ctx[p].new
    BY <1>4, <2>1 DEF CreateCopy, MakingApart
  <2> QED
    BY <1>0, <1>1, <1>4, <2>3, <2>4, <2>5
<1>5. CASE CreatePoint \/ CreateEnd
  <2>1. bases' = bases
    BY <1>5 DEF CreatePoint, CreateEnd, files
  <2> QED
    BY <1>0, <1>1, <2>1
<1>6. CASE CreateFails
  <2>1. making.step # "idle" /\ making.copy \in DOMAIN bases
    BY <1>6 DEF CreateFails, MakingApart
  <2>2. PICK c \in DOMAIN bases : c = making.copy
    BY <2>1
  <2>3. /\ Len(bases') = Len(bases) /\ DOMAIN bases' = DOMAIN bases
        /\ \A d \in DOMAIN bases : bases'[d] = bases[d] \/ (d = c /\ bases'[d] = Gone)
    <3>1. CASE bases' = bases
      BY <3>1
    <3>2. CASE bases' = [bases EXCEPT ![c] = Gone]
      BY <1>0, <2>2, <3>2, CopyPut
    <3> QED
      BY <1>6, <2>2, <3>1, <3>2 DEF CreateFails
  <2> QED
    BY <1>0, <1>1, <1>2, <2>1, <2>2, <2>3
<1>7. CASE Cleanup
  <2>1. PICK S : /\ S \subseteq {c \in DOMAIN bases : bases[c].present}
                 /\ bases' = [c \in DOMAIN bases |-> IF c \in S THEN Gone ELSE bases[c]]
    BY <1>7 DEF Cleanup
  <2>2. /\ Len(bases') = Len(bases) /\ DOMAIN bases' = DOMAIN bases
        /\ \A c \in DOMAIN bases : bases'[c] = IF c \in S THEN Gone ELSE bases[c]
    BY <2>1, ThinnedType DEF Thinned
  <2> QED
    BY <1>0, <1>1, <1>2, <2>1, <2>2
<1> QED
  BY <1>3, <1>4, <1>5, <1>6, <1>7

LEMMA MakersKeep ==
  ASSUME DatasetsInv, CreateStart \/ CreateCopy \/ CreatePoint \/ CreateEnd \/ CreateFails \/ Cleanup
  PROVE  DatasetsInv'
<1>0. /\ DatasetsTypeOK /\ CopiesCover /\ ChainsBehind /\ Original /\ DeletesSeen
      /\ MakingApart /\ Rollbackable /\ OpsInv
  BY DEF DatasetsInv
<1>1. DatasetsTypeOK'
  BY <1>0, MakerTypes
<1>2. UNCHANGED <<live, epoch, journal, chains, current, at, ctx>> /\ UNCHANGED database
  BY MakerBases DEF database
<1>3. CopiesCover' /\ ChainsBehind' /\ Original' /\ DeletesSeen'
  <2>1. CASE CreateCopy
    BY <2>1, CreateCopyCovers
  <2>2. CASE ~CreateCopy
    <3>1. /\ Len(bases') \in Nat /\ Len(bases') >= Len(bases)
          /\ \A c \in DOMAIN bases' :
               \/ c \in DOMAIN bases /\ bases'[c] = bases[c]
               \/ ~bases'[c].present /\ bases'[c].seq <= End /\ (bases'[c].seq >= 0 => journal.on)
      BY <1>0, <2>2, MakerBases, Fields
    <3> QED
      BY <1>0, <1>2, <3>1, CoverKept
  <2> QED
    BY <2>1, <2>2
<1>4. OpsInv'
  <2> SUFFICES ASSUME NEW p \in Procs PROVE OpInv(p)'
    BY DEF OpsInv
  <2>1. OpInv(p)
    BY <1>0 DEF OpsInv
  <2>2. DOMAIN bases \subseteq DOMAIN bases'
    BY <1>0, MakerBases, Fields
  <2> QED
    BY <1>0, <1>2, <2>1, <2>2, MakerBases, OpKept
<1>5. Rollbackable'
  <2>1. pointer' = pointer \/ (CreatePoint /\ pointer' = making.copy /\ making.copy # current.new)
    BY <1>0 DEF CreateStart, CreateCopy, CreatePoint, CreateEnd, CreateFails, Cleanup, files, MakingApart
  <2>2. ASSUME pointer' = current.new
        PROVE  pointer = current.new /\ \A p \in Procs : Building(p)' => ctx'[p].base # current.old
    <3>1. CASE pointer = NoCopy
      <4>1. current = NoRecord
        <5>1. current \in Record /\ ~(1 <= current.new)
          BY <2>1, <2>2, <3>1, <1>0, DatasetNumbers DEF NoCopy, DatasetsTypeOK
        <5>2. current.old \in Nat /\ current.new \in Nat
          BY <5>1, DatasetNumbers DEF Record
        <5> QED
          BY <1>0, <5>1, <5>2 DEF Rollbackable
      <4>2. \A p \in Procs : Building(p) => ctx[p].base \in DOMAIN bases
        BY <1>0 DEF OpsInv, OpInv, Building
      <4>3. NoCopy \notin DOMAIN bases
        BY <1>0, Fields DEF NoCopy
      <4> QED
        BY <1>2, <2>1, <2>2, <4>1, <4>2, <4>3 DEF NoRecord, Building
    <3>2. CASE pointer # NoCopy
      BY <1>0, <1>2, <2>1, <2>2, <3>2 DEF Rollbackable, Building
    <3> QED
      BY <3>1, <3>2
  <2>3. /\ Len(bases') \in Nat /\ Len(bases) <= Len(bases') /\ DOMAIN bases' = 1..Len(bases')
        /\ \A c \in DOMAIN bases : \/ bases'[c] = bases[c] \/ ~bases'[c].present
                                   \/ c # current.old /\ c # current.new
    BY MakerBases
  <2> QED
    BY <1>0, <1>2, <2>2, <2>3, RollbackableKept
<1>6. MakingApart'
  <2>1. making \in [copy : 0..Len(bases), step : MakingSteps] /\ Len(bases) \in Nat
        /\ DOMAIN bases = 1..Len(bases)
    BY <1>0, Fields DEF DatasetsTypeOK, MakingSteps
  <2>2. \A p \in Procs : Compacting(p)' <=> Compacting(p)
    BY <1>2 DEF Compacting
  <2>3. CASE CreateStart
    <3>1. /\ making' = [copy |-> Len(bases) + 1, step |-> "copy"] /\ Len(bases) < MaxBases
          /\ bases' = Append(bases, Gone)
      BY <2>3 DEF CreateStart
    <3>2. PICK n : n = Len(bases) + 1
      OBVIOUS
    <3>3. n \in DOMAIN bases' /\ bases'[n] = Gone /\ n \notin DOMAIN bases \union {NoCopy} /\ n \in Copies
      BY <1>0, <2>1, <3>1, <3>2, CopyAdded, PlainTypes, DatasetNumbers DEF NoCopy, Copies
    <3>4. ~chains[n].made
      BY <1>0, <2>1, <3>2, <3>3 DEF ChainsBehind
    <3>5. \A p \in Procs : ctx[p].base # n /\ ctx[p].new # n
      BY <1>0, <3>3, KnownCopies DEF OpsInv
    <3>6. current.old # n /\ current.new # n
      <4>1. CASE current = NoRecord
        BY <3>3, <4>1 DEF NoRecord
      <4>2. CASE current # NoRecord
        <5>1. current \in Record /\ current.old \in Nat /\ current.new \in Nat
          BY <1>0, DatasetNumbers DEF DatasetsTypeOK, Record
        <5> QED
          BY <1>0, <2>1, <3>2, <4>2, <5>1 DEF Rollbackable
      <4> QED
        BY <4>1, <4>2
    <3>7. making'.copy = n /\ making'.step = "copy" /\ ~bases'[n].present
      BY <3>1, <3>2, <3>3 DEF Gone
    <3> QED
      BY <1>2, <3>3, <3>4, <3>5, <3>6, <3>7 DEF MakingApart
  <2>4. CASE CreateCopy \/ CreatePoint
    <3>1. /\ making'.copy = making.copy /\ making'.step \in {"point", "end"} /\ making.step # "idle"
      BY <2>1, <2>4 DEF CreateCopy, CreatePoint
    <3>2. DOMAIN bases \subseteq DOMAIN bases'
      BY <1>0, <2>4, MakerBases, Fields
    <3> QED
      BY <1>0, <1>2, <2>2, <3>1, <3>2 DEF MakingApart
  <2>5. CASE CreateEnd \/ CreateFails
    <3>1. making' = NotMaking /\ making'.step = "idle"
      BY <2>5 DEF CreateEnd, CreateFails, NotMaking
    <3> QED
      BY <3>1 DEF MakingApart
  <2>6. CASE Cleanup
    <3>1. making' = making /\ DOMAIN bases \subseteq DOMAIN bases'
      BY <1>0, <2>6, MakerBases, Fields DEF Cleanup
    <3>2. making.step = "copy" => ~bases'[making.copy].present
      <4>1. ASSUME making.step = "copy" PROVE making.copy \in DOMAIN bases /\ ~bases[making.copy].present
        BY <1>0, <4>1 DEF MakingApart
      <4>2. ~CreateCopy \/ making.step # "copy"
        <5>1. CreateCopy => making' # making
          BY <2>1 DEF CreateCopy
        <5> QED
          BY <3>1, <5>1
      <4> QED
        BY <4>1, <4>2, MakerBases
    <3> QED
      BY <1>0, <1>2, <2>2, <3>1, <3>2 DEF MakingApart
  <2> QED
    BY <2>3, <2>4, <2>5, <2>6
<1> QED
  BY <1>1, <1>3, <1>4, <1>5, <1>6 DEF DatasetsInv

\* A step of a process moves the process alone.
LEMMA StepMoves ==
  ASSUME DatasetsInv, NEW p \in Procs, Step(p)
  PROVE  /\ UNCHANGED <<live, epoch, making>> /\ journal'.log = journal.log /\ (journal.on => journal'.on)
         /\ End' = End /\ \A b, t, r : Between(b, t, r)' = Between(b, t, r)
         /\ \E step \in BuildSteps : at' = [at EXCEPT ![p] = step]
         /\ ~CompactRecord(p) => current' = current
         /\ ~PublishDelta(p) /\ ~CompactChain(p) => chains' = chains
         /\ ~CompactStart(p) /\ ~CompactChain(p) /\ ~Stops(p) => bases' = bases
<1>1. UNCHANGED <<live, epoch, making>>
  BY DEF Step, BuildStart, InstallJournal, ReadDelta, PublishDelta, CompactStart, CompactCheck, CompactChain,
     CompactSwitch, CompactRecord, RollbackCheck, RollbackSwitch, Stops, database
<1>2. journal'.log = journal.log /\ (journal.on => journal'.on)
  BY DEF Step, BuildStart, InstallJournal, ReadDelta, PublishDelta, CompactStart, CompactCheck, CompactChain,
     CompactSwitch, CompactRecord, RollbackCheck, RollbackSwitch, Stops, database, DatasetsInv, DatasetsTypeOK
<1>3. \E step \in BuildSteps : at' = [at EXCEPT ![p] = step]
  BY Zenon DEF Step, BuildStart, InstallJournal, ReadDelta, PublishDelta, CompactStart, CompactCheck, CompactChain,
     CompactSwitch, CompactRecord, RollbackCheck, RollbackSwitch, Stops, Reach, BuildSteps
<1>4. ~CompactRecord(p) => current' = current
  BY DEF Step, BuildStart, InstallJournal, ReadDelta, PublishDelta, CompactStart, CompactCheck, CompactChain,
     CompactSwitch, RollbackCheck, RollbackSwitch, Stops, files
<1>5. ~PublishDelta(p) /\ ~CompactChain(p) => chains' = chains
  BY DEF Step, BuildStart, InstallJournal, ReadDelta, CompactStart, CompactCheck,
     CompactSwitch, CompactRecord, RollbackCheck, RollbackSwitch, Stops, files
<1>6. ~CompactStart(p) /\ ~CompactChain(p) /\ ~Stops(p) => bases' = bases
  BY DEF Step, BuildStart, InstallJournal, ReadDelta, PublishDelta, CompactCheck,
     CompactSwitch, CompactRecord, RollbackCheck, RollbackSwitch, files
<1> QED
  BY <1>1, <1>2, <1>3, <1>4, <1>5, <1>6, JournalStays

\* What a step other than CompactChain does to the copies.
LEMMA StepBases ==
  ASSUME DatasetsInv, NEW p \in Procs, Step(p), ~CompactChain(p)
  PROVE  /\ Len(bases') \in Nat /\ Len(bases) <= Len(bases') /\ DOMAIN bases' = 1..Len(bases')
         /\ DOMAIN bases \subseteq DOMAIN bases'
         /\ \A c \in DOMAIN bases : bases'[c] = bases[c] \/ (bases'[c] = Gone /\ c = ctx[p].new /\ Stops(p))
         /\ \A c \in DOMAIN bases' :
               \/ c \in DOMAIN bases /\ bases'[c] = bases[c]
               \/ ~bases'[c].present /\ bases'[c].seq <= End /\ (bases'[c].seq >= 0 => journal.on)
         /\ \A c \in DOMAIN bases : bases'[c].present => bases[c].present
<1>0. /\ Len(bases) \in Nat /\ DOMAIN bases = 1..Len(bases) /\ End \in Nat /\ DatasetsTypeOK
      /\ Gone \in Base /\ ~Gone.present /\ Gone.seq = -1
      /\ \A c \in DOMAIN bases : bases[c].seq <= End /\ (bases[c].seq >= 0 => journal.on)
  BY Fields, PlainTypes DEF Gone, ChainsBehind, DatasetsInv
<1>1. CASE CompactStart(p)
  <2> DEFINE b == [bases[pointer] EXCEPT
                     !.rows = Compacted(bases[pointer].rows, chains[pointer].deltas),
                     !.present = FALSE]
  <2>1. bases' = Append(bases, b) /\ Resolves
    BY <1>1 DEF CompactStart
  <2>2. pointer \in DOMAIN bases /\ bases[pointer] \in Base
    BY <1>0, <2>1, ResolvedType DEF DatasetsTypeOK
  <2>3. b \in Base /\ ~b.present /\ b.seq = bases[pointer].seq
    <3>1. Compacted(bases[pointer].rows, chains[pointer].deltas) \in Table
      BY <1>0, <2>1, <2>2, Fields, ResolvedType, CompactionIsLayered, LayeredType
    <3> QED
      BY <2>2, <3>1 DEF Base
  <2> HIDE DEF b
  <2>4. /\ Len(bases') = Len(bases) + 1 /\ DOMAIN bases' = 1..Len(bases) + 1
        /\ bases'[Len(bases) + 1] = b /\ \A c \in DOMAIN bases : bases'[c] = bases[c]
    BY <1>0, <2>1, <2>3, CopyAdded
  <2>5. \A c \in DOMAIN bases' : c \in DOMAIN bases \/ c = Len(bases) + 1
    BY <1>0, <2>4
  <2> QED
    BY <1>0, <2>2, <2>3, <2>4, <2>5
<1>2. CASE Stops(p)
  <2> DEFINE S == {c \in DOMAIN bases : c = ctx[p].new /\ ~bases[c].present}
  <2>1. bases' = [c \in DOMAIN bases |-> IF c \in S THEN Gone ELSE bases[c]]
    BY <1>2 DEF Stops
  <2>2. \A c \in DOMAIN bases : c \in S => c = ctx[p].new
    OBVIOUS
  <2> HIDE DEF S
  <2>3. Len(bases') = Len(bases) /\ DOMAIN bases' = DOMAIN bases
    BY <1>0, <2>1, ThinnedType DEF Thinned
  <2> QED
    BY <1>0, <1>2, <2>1, <2>2, <2>3
<1>3. CASE ~CompactStart(p) /\ ~Stops(p)
  BY <1>0, <1>3, StepMoves
<1> QED
  BY <1>1, <1>2, <1>3

LEMMA StepsCover ==
  ASSUME DatasetsInv, NEW p \in Procs, Step(p)
  PROVE  CopiesCover' /\ ChainsBehind' /\ Original' /\ DeletesSeen'
<1>1. CASE PublishDelta(p)
  BY <1>1, PublishCovers
<1>2. CASE CompactChain(p)
  BY <1>2, CompactChainCovers
<1>3. CASE ~PublishDelta(p) /\ ~CompactChain(p)
  <2>1. /\ UNCHANGED <<live, epoch, chains>> /\ journal'.log = journal.log /\ (journal.on => journal'.on)
    BY <1>3, StepMoves
  <2>2. /\ Len(bases') \in Nat /\ Len(bases') >= Len(bases)
        /\ \A c \in DOMAIN bases' :
               \/ c \in DOMAIN bases /\ bases'[c] = bases[c]
               \/ ~bases'[c].present /\ bases'[c].seq <= End /\ (bases'[c].seq >= 0 => journal.on)
    BY <1>3, StepBases, Fields DEF DatasetsInv
  <2> QED
    BY <2>1, <2>2, CoverKept DEF DatasetsInv
<1> QED
  BY <1>1, <1>2, <1>3

LEMMA StepsApart ==
  ASSUME DatasetsInv, Alone, NEW p \in Procs, Step(p)
  PROVE  MakingApart'
<1>0. /\ DatasetsTypeOK /\ ChainsBehind /\ MakingApart /\ Rollbackable /\ OpInv(p)
      /\ DOMAIN bases = 1..Len(bases) /\ Len(bases) \in Nat /\ NoCopy \notin DOMAIN bases
  BY Fields DEF DatasetsInv, OpsInv, NoCopy
<1>1. making' = making /\ \A q \in Procs : q = p
  BY StepMoves DEF Alone
<1>2. PICK step \in BuildSteps : at' = [at EXCEPT ![p] = step]
  BY StepMoves
<1>3. at'[p] = step
  BY <1>0, <1>2 DEF DatasetsTypeOK
<1>4. CASE making.step = "idle"
  BY <1>0, <1>1, <1>4 DEF MakingApart
<1>5. ASSUME making.step # "idle"
      PROVE  /\ making.copy \in DOMAIN bases' /\ making.copy # current'.new
             /\ Compacting(p)' => ctx'[p].new # making.copy
             /\ making.step = "copy" =>
                   /\ ~bases'[making.copy].present /\ ~chains'[making.copy].made
                   /\ making.copy # current'.old
                   /\ ctx'[p].base # making.copy /\ ctx'[p].new # making.copy
  <2>0. PICK m \in DOMAIN bases : m = making.copy
    BY <1>0, <1>5 DEF MakingApart
  <2>1. /\ m # NoCopy /\ m # current.new /\ (Compacting(p) => ctx[p].new # m)
        /\ making.step = "copy" =>
              /\ ~bases[m].present /\ ~chains[m].made
              /\ m # current.old /\ ctx[p].base # m /\ ctx[p].new # m
    BY <1>0, <1>5, <2>0 DEF MakingApart
  <2>2. ctx'[p] = NoContext \/ (ctx'[p].base = ctx[p].base /\ ctx'[p].new = ctx[p].new)
          \/ (BuildStart(p) /\ ctx'[p].base = pointer /\ ctx'[p].new = NoCopy)
          \/ (CompactStart(p) /\ ctx'[p].base = pointer /\ ctx'[p].new = Len(bases) + 1)
          \/ (RollbackCheck(p) /\ ctx'[p].base = pointer /\ ctx'[p].new = current.old)
    <3>0. ctx \in [Procs -> Context] /\ ctx[p] \in Context
      BY <1>0 DEF DatasetsTypeOK
    <3>1. CASE BuildStart(p)
      BY <1>0, <3>0, <3>1, ResolvedType DEF BuildStart
    <3>2. CASE CompactStart(p)
      <4>1. Len(bases) + 1 \in 0..MaxBases
        BY <1>0, <3>2, DatasetNumbers DEF CompactStart
      <4> QED
        BY <1>0, <3>0, <3>2, <4>1, ResolvedType DEF CompactStart
    <3>3. CASE RollbackCheck(p)
      <4>1. current.old \in 0..MaxBases
        BY <1>0 DEF DatasetsTypeOK, Record
      <4> QED
        BY <1>0, <3>0, <3>3, <4>1, ResolvedType DEF RollbackCheck
    <3>4. CASE ReadDelta(p)
      <4>1. ctx'[p] = [ctx[p] EXCEPT !.delta = Captured(p), !.to = End]
        BY <3>0, <3>4 DEF ReadDelta
      <4> QED
        BY <3>0, <4>1 DEF Context
    <3>5. CASE InstallJournal(p) \/ CompactCheck(p) \/ CompactChain(p) \/ CompactSwitch(p)
      BY <3>5 DEF InstallJournal, CompactCheck, CompactChain, CompactSwitch
    <3>6. CASE PublishDelta(p) \/ CompactRecord(p) \/ RollbackSwitch(p) \/ Stops(p)
      BY <3>0, <3>6 DEF PublishDelta, CompactRecord, RollbackSwitch, Stops
    <3> QED
      BY <3>1, <3>2, <3>3, <3>4, <3>5, <3>6 DEF Step
  <2>3. NoContext.base = NoCopy /\ NoContext.new = NoCopy /\ m # Len(bases) + 1
    BY <1>0 DEF NoContext
  <2>4. BuildStart(p) \/ CompactStart(p) \/ RollbackCheck(p) => bases[pointer].present
    BY DEF BuildStart, CompactStart, RollbackCheck, Resolves
  <2>5. Compacting(p)' => (CompactStart(p) /\ ctx'[p].new = Len(bases) + 1)
                            \/ (Compacting(p) /\ ctx'[p].new = ctx[p].new)
    <3>1. CASE CompactStart(p)
      <4>1. Len(bases) + 1 \in 0..MaxBases
        BY <1>0, <3>1, DatasetNumbers DEF CompactStart
      <4> QED
        BY <1>0, <3>1, <4>1, ResolvedType DEF CompactStart, DatasetsTypeOK
    <3>2. CASE CompactCheck(p) \/ CompactChain(p) \/ CompactSwitch(p)
      BY <3>2 DEF CompactCheck, CompactChain, CompactSwitch, Compacting
    <3>3. CASE ~CompactStart(p) /\ ~CompactCheck(p) /\ ~CompactChain(p) /\ ~CompactSwitch(p)
      <4>1. at'[p] \in {"install", "read", "publish", "back", "idle"}
        BY <1>0, <3>3 DEF Step, BuildStart, InstallJournal, ReadDelta, PublishDelta,
           CompactRecord, RollbackCheck, RollbackSwitch, Stops, Reach, DatasetsTypeOK
      <4> QED
        BY <4>1 DEF Compacting
    <3> QED
      BY <3>1, <3>2, <3>3
  <2>6. Compacting(p)' => ctx'[p].new # m
    BY <2>1, <2>3, <2>5
  <2>7. making.step = "copy" => ctx'[p].base # m /\ ctx'[p].new # m
    BY <2>1, <2>2, <2>3, <2>4
  <2>8. m \in DOMAIN bases' /\ (making.step = "copy" => ~bases'[m].present)
    <3>1. CASE CompactChain(p)
      <4>1. /\ DOMAIN bases' = DOMAIN bases /\ \A d \in DOMAIN bases : d # ctx[p].new => bases'[d] = bases[d]
        BY <3>1 DEF CompactChain
      <4> QED
        BY <2>1, <4>1
    <3>2. CASE ~CompactChain(p)
      BY <2>1, <3>2, StepBases
    <3> QED
      BY <3>1, <3>2
  <2>9. making.step = "copy" => ~chains'[m].made
    <3>1. CASE CompactChain(p) \/ PublishDelta(p)
      BY <1>0, <2>1, <3>1, Fields DEF CompactChain, PublishDelta, DatasetsTypeOK
    <3>2. CASE ~CompactChain(p) /\ ~PublishDelta(p)
      BY <2>1, <3>2, StepMoves
    <3> QED
      BY <3>1, <3>2
  <2>10. m # current'.new /\ (making.step = "copy" => m # current'.old)
    <3>1. CASE CompactRecord(p)
      <4>1. current'.old = ctx[p].base /\ current'.new = ctx[p].new /\ Compacting(p)
        BY <3>1 DEF CompactRecord, Compacting
      <4> QED
        BY <2>1, <4>1
    <3>2. CASE ~CompactRecord(p)
      BY <2>1, <3>2, StepMoves
    <3> QED
      BY <3>1, <3>2
  <2> QED
    BY <2>0, <2>6, <2>7, <2>8, <2>9, <2>10
<1> QED
  BY <1>0, <1>1, <1>4, <1>5 DEF MakingApart

LEMMA StepsRollback ==
  ASSUME DatasetsInv, Alone, NEW p \in Procs, Step(p)
  PROVE  Rollbackable'
<1>0. /\ DatasetsTypeOK /\ ChainsBehind /\ Rollbackable /\ OpInv(p) /\ \A q \in Procs : q = p
      /\ DOMAIN bases = 1..Len(bases) /\ Len(bases) \in Nat /\ NoCopy \notin DOMAIN bases
      /\ DOMAIN bases \subseteq Copies
  BY Fields DEF DatasetsInv, OpsInv, NoCopy, Alone
<1>1. PICK step \in BuildSteps : at' = [at EXCEPT ![p] = step]
  BY StepMoves
<1>2. at'[p] = step
  BY <1>0, <1>1 DEF DatasetsTypeOK
<1>3. /\ current \in Record /\ current.old \in Nat /\ current.new \in Nat
      /\ current # NoRecord => /\ current.old \in DOMAIN bases /\ current.new \in DOMAIN bases
                               /\ current.old < current.new
      /\ current = NoRecord => current.old = NoCopy /\ current.new = NoCopy
  BY <1>0, DatasetNumbers DEF DatasetsTypeOK, Record, Rollbackable, NoRecord
<1>4. CASE PublishDelta(p)
  <2>1. /\ bases' = bases /\ current' = current /\ pointer' = pointer
        /\ ctx[p].base \in DOMAIN bases /\ Building(p)
        /\ chains' = [chains EXCEPT ![ctx[p].base] =
                        [made |-> TRUE, deltas |-> Append(ctx[p].chain.deltas, ctx[p].delta), end |-> ctx[p].to]]
    BY <1>0, <1>4 DEF PublishDelta, OpInv, Building
  <2>2. ~Building(p)'
    BY <1>0, <1>4 DEF PublishDelta, Reach, Building, DatasetsTypeOK
  <2>3. ASSUME pointer = current.new, pointer # NoCopy, bases[current.old].present,
               bases[current.new].present, chains'[current.new].deltas = <<>>
        PROVE  bases[current.new].rows = View(current.old)'
    <3>1. current.old \in Copies /\ current.new \in Copies /\ ctx[p].base # current.old
      BY <1>0, <1>3, <2>1, <2>3 DEF Rollbackable
    <3>2. ctx[p].base # current.new
      <4>1. ctx[p].chain.deltas \in Seq(Delta) /\ ctx[p].delta \in Delta
        BY <1>0, Fields
      <4>2. PICK more : more = Append(ctx[p].chain.deltas, ctx[p].delta)
        OBVIOUS
      <4>3. more # <<>>
        <5>1. Len(more) = Len(ctx[p].chain.deltas) + 1 /\ Len(ctx[p].chain.deltas) \in Nat
          BY <4>1, <4>2, AppendProperties, LenProperties
        <5>2. Len(<<>>) = 0
          BY EmptySeq
        <5> QED
          BY <5>1, <5>2
      <4> QED
        BY <1>0, <2>1, <2>3, <3>1, <4>2, <4>3 DEF DatasetsTypeOK
    <3>3. chains'[current.new] = chains[current.new] /\ chains'[current.old] = chains[current.old]
      BY <1>0, <2>1, <3>1, <3>2 DEF DatasetsTypeOK
    <3>4. View(current.old)' = View(current.old)
      BY <2>1, <3>3 DEF View
    <3> QED
      BY <1>0, <2>3, <3>3, <3>4 DEF Rollbackable
  <2> QED
    BY <1>0, <2>1, <2>2, <2>3 DEF Rollbackable
<1>5. CASE CompactChain(p)
  <2>1. PICK c : /\ c = ctx[p].new /\ c \in DOMAIN bases /\ c # current.old /\ c # current.new
                 /\ ~Building(p)
    BY <1>0, <1>5 DEF CompactChain, OpInv, Compacting, CompactInv, Building
  <2>2. /\ current' = current /\ pointer' = pointer /\ DOMAIN bases' = DOMAIN bases
        /\ \A d \in DOMAIN bases : d # c => bases'[d] = bases[d]
        /\ \A d \in Copies : d # c => chains'[d] = chains[d]
    BY <1>0, <1>5, <2>1 DEF CompactChain, DatasetsTypeOK
  <2>3. ~Building(p)'
    BY <1>0, <1>5 DEF CompactChain, Reach, Building, DatasetsTypeOK
  <2>4. Len(bases') = Len(bases)
    <3>1. bases' \in Seq(Base)
      BY <1>0, StepTypes DEF DatasetsTypeOK
    <3>2. Len(bases') \in Nat /\ DOMAIN bases' = 1..Len(bases')
      BY <3>1, LenProperties
    <3> QED
      BY <1>0, <2>2, <3>2
  <2>5. ASSUME pointer = current.new, pointer # NoCopy, bases'[current.old].present,
               bases'[current.new].present, chains'[current.new].deltas = <<>>
        PROVE  bases'[current.new].rows = View(current.old)'
    <3>1. current.old \in DOMAIN bases /\ current.new \in DOMAIN bases
      BY <1>3, <2>5
    <3>2. /\ bases'[current.old] = bases[current.old] /\ bases'[current.new] = bases[current.new]
          /\ chains'[current.old] = chains[current.old] /\ chains'[current.new] = chains[current.new]
      BY <1>0, <2>1, <2>2, <3>1
    <3>3. View(current.old)' = View(current.old)
      BY <2>2, <3>2 DEF View
    <3> QED
      BY <1>0, <2>5, <3>2, <3>3 DEF Rollbackable
  <2> QED
    BY <1>0, <2>2, <2>3, <2>4, <2>5 DEF Rollbackable
<1>6. CASE CompactRecord(p)
  <2>1. /\ bases' = bases /\ chains' = chains /\ pointer' = pointer
        /\ current' = [old |-> ctx[p].base, new |-> ctx[p].new, boundary |-> ctx[p].chain.end]
        /\ CompactInv(p) /\ at[p] = "record" /\ ctx[p].base \in DOMAIN bases
    BY <1>0, <1>6 DEF CompactRecord, OpInv, Compacting
  <2>2. ~Building(p)'
    BY <1>0, <1>6 DEF CompactRecord, Reach, Building, DatasetsTypeOK
  <2>3. PICK b, c : b = ctx[p].base /\ c = ctx[p].new
    OBVIOUS
  <2>4. current'.old = b /\ current'.new = c
    BY <2>1, <2>3
  <2>5. View(b)' = View(b) /\ View(current.old)' = View(b)'
    BY <2>1, <2>4 DEF View
  <2>6. 1 <= b /\ b < c /\ c <= Len(bases')
    BY <1>0, <2>1, <2>3 DEF CompactInv
  <2>7. bases[b].present /\ bases[c].present => bases[c].rows = View(b)
    BY <2>1, <2>3 DEF CompactInv
  <2> QED
    BY <1>0, <2>1, <2>2, <2>4, <2>5, <2>6, <2>7 DEF Rollbackable
<1>7. CASE ~PublishDelta(p) /\ ~CompactChain(p) /\ ~CompactRecord(p)
  <2>1. UNCHANGED <<chains, current>>
    BY <1>7, StepMoves
  <2>2. /\ Len(bases') \in Nat /\ Len(bases) <= Len(bases') /\ DOMAIN bases' = 1..Len(bases')
        /\ \A c \in DOMAIN bases : bases'[c] = bases[c] \/ ~bases'[c].present
    BY <1>7, StepBases DEF Gone
  <2>3. pointer' = pointer \/ (CompactSwitch(p) /\ pointer' # current.new)
          \/ (RollbackSwitch(p) /\ pointer' # current.new)
    <3>1. CASE CompactSwitch(p)
      BY <1>0, <3>1 DEF CompactSwitch, OpInv, Compacting, CompactInv
    <3>2. CASE RollbackSwitch(p)
      <4>1. pointer' = current.old /\ current # NoRecord
        BY <1>0, <3>2 DEF RollbackSwitch, OpInv, BackInv
      <4> QED
        BY <1>3, <3>2, <4>1
    <3>3. CASE ~CompactSwitch(p) /\ ~RollbackSwitch(p)
      BY <1>7, <3>3 DEF Step, BuildStart, InstallJournal, ReadDelta, CompactStart, CompactCheck,
         RollbackCheck, Stops, files
    <3> QED
      BY <3>1, <3>2, <3>3
  <2>4. ASSUME pointer' = current.new
        PROVE  pointer = current.new /\ \A q \in Procs : Building(q)' => ctx'[q].base # current.old
    <3>1. pointer = current.new
      BY <2>3, <2>4
    <3>2. ASSUME Building(p)' PROVE ctx'[p].base # current.old
      <4>1. BuildStart(p) \/ (Building(p) /\ ctx'[p].base = ctx[p].base)
        <5>1. CASE InstallJournal(p)
          BY <5>1 DEF InstallJournal, Building
        <5>2. CASE ReadDelta(p)
          <6>1. ctx[p] \in Context
            BY <1>0 DEF DatasetsTypeOK
          <6>2. ctx'[p] = [ctx[p] EXCEPT !.delta = Captured(p), !.to = End]
            BY <1>0, <5>2 DEF ReadDelta, DatasetsTypeOK
          <6> QED
            BY <5>2, <6>1, <6>2 DEF ReadDelta, Building, Context
        <5>3. CASE ~BuildStart(p) /\ ~InstallJournal(p) /\ ~ReadDelta(p)
          <6>1. at'[p] \notin {"install", "read", "publish"}
            BY <1>0, <1>7, <5>3 DEF Step, CompactStart, CompactCheck, CompactSwitch, RollbackCheck,
               RollbackSwitch, Stops, Reach, DatasetsTypeOK
          <6> QED
            BY <3>2, <6>1 DEF Building
        <5> QED
          BY <5>1, <5>2, <5>3
      <4>2. CASE BuildStart(p)
        <5>1. ctx'[p].base = pointer /\ pointer \in DOMAIN bases
          BY <1>0, <4>2, ResolvedType DEF BuildStart, DatasetsTypeOK
        <5>2. current # NoRecord
          BY <1>0, <1>3, <3>1, <5>1
        <5> QED
          BY <1>3, <3>1, <5>1, <5>2
      <4>3. CASE Building(p) /\ ctx'[p].base = ctx[p].base
        <5>1. ctx[p].base \in DOMAIN bases
          BY <1>0, <4>3 DEF OpInv, Building
        <5>2. CASE current = NoRecord
          BY <1>0, <1>3, <4>3, <5>1, <5>2
        <5>3. CASE current # NoRecord
          BY <1>0, <1>3, <3>1, <4>3, <5>3 DEF Rollbackable
        <5> QED
          BY <5>2, <5>3
      <4> QED
        BY <4>1, <4>2, <4>3
    <3> QED
      BY <1>0, <3>1, <3>2
  <2> QED
    BY <1>0, <2>1, <2>2, <2>4, RollbackableKept
<1> QED
  BY <1>4, <1>5, <1>6, <1>7

\* What is read for a delta is what the rows say now.
LEMMA ReadsDelta ==
  ASSUME DatasetsInv, NEW p \in Procs, ReadDelta(p)
  PROVE  DeltaRead(p)'
<1>0. /\ DatasetsTypeOK /\ ChainsBehind /\ Original /\ DeletesSeen /\ OpInv(p) /\ at[p] = "read"
      /\ ctx[p] \in Context /\ live \in Table
  BY DEF DatasetsInv, OpsInv, ReadDelta, DatasetsTypeOK
<1>1. PICK b : b = ctx[p].base /\ b \in DOMAIN bases /\ b \in Copies /\ ctx[p].chain = chains[b]
  BY <1>0, Fields DEF OpInv
<1>2. PICK start, end \in Nat : start = ctx[p].chain.end /\ end = End /\ start <= end
  BY <1>0, <1>1, Fields DEF ChainsBehind
<1>3. PICK delta \in Delta : delta = Captured(p)
  BY <1>0, CapturedType
<1>4. /\ ctx' = [ctx EXCEPT ![p] = [@ EXCEPT !.delta = Captured(p), !.to = End]]
      /\ UNCHANGED <<live, epoch, bases, journal>> /\ End' = End
  BY DEF ReadDelta, database, files, End
<1>5. /\ ctx'[p].base = b /\ ctx'[p].chain = ctx[p].chain /\ ctx'[p].delta = delta /\ ctx'[p].to = end
  <2>1. ctx'[p] = [ctx[p] EXCEPT !.delta = delta, !.to = end]
    BY <1>0, <1>2, <1>3, <1>4 DEF DatasetsTypeOK
  <2> QED
    BY <1>0, <1>1, <2>1 DEF Context
<1>6. \A r \in Ids : delta[r] =
         IF Between(start, End, r) # {} /\ LastOp(start, End, r) = "delete" THEN Absent
         ELSE IF Between(start, End, r) # {} \/ (~chains[b].made /\ r \in Bootstrapped(b))
              THEN live[r]
         ELSE Kept
  BY <1>1, <1>2, <1>3 DEF Captured
<1>7. ASSUME NEW r \in Ids, Between(start, End, r) # {}, LastOp(start, End, r) = "delete"
      PROVE  live[r] = Absent
  <2>1. PICK S : S = Between(start, End, r)
    OBVIOUS
  <2>2. S \in SUBSET (0..End) /\ S # {} /\ End \in Nat
    BY <1>2, <1>7, <2>1 DEF Between
  <2>3. Newest(S) \in S /\ \A y \in S : y <= Newest(S)
    BY <2>2, NewestThere
  <2>4. PICK i : i = Newest(S)
    OBVIOUS
  <2>5. i \in start + 1..End /\ journal.log[i].id = r /\ journal.log[i].op = "delete"
    BY <1>7, <2>1, <2>3, <2>4 DEF Between, LastOp
  <2>6. i \in 1..End
    BY <1>2, <2>5
  <2>7. ASSUME NEW j \in i + 1..End PROVE journal.log[j].id # r
    <3>1. j \in start + 1..End /\ ~(j <= i)
      BY <1>2, <2>5
    <3>2. j \notin S
      BY <2>3, <2>4, <3>1
    <3> QED
      BY <2>1, <3>1, <3>2 DEF Between
  <2> QED
    BY <1>0, <2>5, <2>6, <2>7 DEF DeletesSeen
<1>8. \A r \in Ids : delta[r] \in {Kept, live[r]} /\ (Between(start, End, r) # {} => delta[r] = live[r])
  BY <1>6, <1>7
<1>9. ASSUME NEW r \in Ids, bases[b].present, ~chains[b].made, live[r] # Absent,
             r > bases[b].top \/ epoch[r] >= bases[b].since
      PROVE  delta[r] = live[r]
  <2>1. r \in Bootstrapped(b)
    BY <1>0, <1>1, <1>9 DEF Original, Bootstrapped, Present
  <2> QED
    BY <1>6, <1>7, <1>9, <2>1
<1>10. \A r \in Ids : Between(start, end, r)' = Between(start, End, r)
  BY <1>2, <1>4 DEF Between
<1>11. \A r \in Ids : /\ ctx'[p].delta[r] \in {Kept, live'[r]}
                      /\ Between(ctx[p].chain.end, ctx[p].to, r)' # {} => ctx'[p].delta[r] = live'[r]
  <2>1. \A r \in Ids : Between(ctx[p].chain.end, ctx[p].to, r)' = Between(start, end, r)'
    BY <1>2, <1>5 DEF Between
  <2> QED
    BY <1>4, <1>5, <1>8, <1>10, <2>1
<1>12. ASSUME NEW r \in Ids,
              bases'[ctx'[p].base].present /\ ~ctx'[p].chain.made /\ live'[r] # Absent,
              r > bases'[ctx'[p].base].top \/ epoch'[r] >= bases'[ctx'[p].base].since
       PROVE  ctx'[p].delta[r] = live'[r]
  BY <1>1, <1>4, <1>5, <1>9, <1>12
<1>13. ctx'[p].to <= End' /\ ctx'[p].chain.end <= ctx'[p].to
  BY <1>2, <1>4, <1>5
<1> QED
  BY <1>11, <1>12, <1>13 DEF DeltaRead

\* The new copy, as it is made ...
LEMMA StartsCompaction ==
  ASSUME DatasetsInv, NEW p \in Procs, CompactStart(p)
  PROVE  OpInv(p)'
<1>0. /\ DatasetsTypeOK /\ ChainsBehind /\ Rollbackable /\ OpInv(p)
      /\ Len(bases) \in Nat /\ DOMAIN bases = 1..Len(bases)
  BY Fields DEF DatasetsInv, OpsInv
<1>1. /\ Resolves /\ Len(bases) < MaxBases /\ journal.on /\ chains[pointer].deltas # <<>>
      /\ ctx' = [ctx EXCEPT ![p] = [Resolved EXCEPT !.new = Len(bases) + 1]]
      /\ at' = [at EXCEPT ![p] = "check"] /\ UNCHANGED <<journal, chains, current>>
  BY DEF CompactStart, Reach, database
<1>2. PICK b, c : b = pointer /\ c = Len(bases) + 1 /\ b \in DOMAIN bases /\ b \in Copies
                  /\ c \in 0..MaxBases /\ c \in Copies /\ c \notin DOMAIN bases
  BY <1>0, <1>1, ResolvedType, DatasetNumbers DEF Copies
<1>3. ctx'[p].base = b /\ ctx'[p].new = c /\ ctx'[p].chain = chains[b] /\ at'[p] = "check"
  BY <1>0, <1>1, <1>2, ResolvedType DEF DatasetsTypeOK
<1> DEFINE copy == [bases[b] EXCEPT !.rows = View(b), !.present = FALSE]
<1>4. bases' = Append(bases, copy)
  <2>1. Compacted(bases[b].rows, chains[b].deltas) = View(b)
    BY <1>0, <1>2, Fields, CompactionIsLayered DEF View
  <2> QED
    BY <1>2, <2>1 DEF CompactStart
<1>5. copy \in Base /\ ~copy.present
  <2>1. bases[b] \in Base /\ View(b) \in Table
    BY <1>0, <1>2, ViewType DEF DatasetsTypeOK
  <2> QED
    BY <2>1 DEF Base
<1>6. PICK new : new = copy
  OBVIOUS
<1> HIDE DEF copy
<1>7. /\ DOMAIN bases' = 1..Len(bases) + 1 /\ bases'[c] = new
      /\ \A d \in DOMAIN bases : bases'[d] = bases[d]
  BY <1>0, <1>2, <1>4, <1>5, <1>6, CopyAdded
<1>8. chains[b].made /\ ~chains[c].made
  BY <1>0, <1>1, <1>2 DEF ChainsBehind, NoChain
<1>9. c # current.old /\ c # current.new /\ c \in DOMAIN bases' /\ b < c
  <2>1. current.old \in DOMAIN bases \union {NoCopy} /\ current.new \in DOMAIN bases \union {NoCopy}
    BY <1>0, KnownCopies
  <2>2. c # NoCopy
    BY <1>0, <1>2 DEF NoCopy
  <2> QED
    BY <1>0, <1>2, <1>7, <2>1, <2>2
<1>10. View(b)' = View(b)
  BY <1>1, <1>2, <1>7 DEF View
<1>11. bases'[c] = [bases'[b] EXCEPT !.rows = View(b)', !.present = FALSE]
  BY <1>2, <1>6, <1>7, <1>10 DEF copy
<1>12. CompactInv(p)'
  <2>1. View(ctx[p].base)' = View(b)'
    BY <1>3 DEF View
  <2> QED
    BY <1>1, <1>3, <1>5, <1>6, <1>7, <1>8, <1>9, <1>11, <2>1 DEF CompactInv
<1> QED
  BY <1>1, <1>2, <1>3, <1>7, <1>12, <1>0 DEF OpInv, Building, Compacting

\* ... and as it is compared.
LEMMA ChecksCompaction ==
  ASSUME DatasetsInv, NEW p \in Procs, CompactCheck(p)
  PROVE  OpInv(p)'
<1>0. /\ DatasetsTypeOK /\ CopiesCover /\ ChainsBehind /\ OpInv(p) /\ CompactInv(p) /\ at[p] = "check"
  BY DEF DatasetsInv, OpsInv, CompactCheck, OpInv, Compacting
<1>1. PICK b, c : /\ b = ctx[p].base /\ c = ctx[p].new /\ b \in DOMAIN bases /\ c \in DOMAIN bases
                  /\ b \in Copies /\ ctx[p].chain = chains[b]
  BY <1>0, Fields DEF OpInv, CompactInv
<1>2. /\ UNCHANGED <<live, epoch, journal, bases, chains, current, ctx>> /\ at' = [at EXCEPT ![p] = "chain"]
      /\ pointer = b /\ bases[b].present /\ bases[c].rows = View(b)
  BY <1>1 DEF CompactCheck, Reach, database, files, Resolves
<1>3. at'[p] = "chain"
  BY <1>0, <1>2 DEF DatasetsTypeOK
<1>4. bases[c].seq = bases[b].seq /\ bases[c].top = bases[b].top /\ bases[c].since = bases[b].since
  <2>1. bases[c] = [bases[b] EXCEPT !.rows = View(b), !.present = FALSE] /\ bases[b] \in Base
    BY <1>0, <1>1, <1>2 DEF CompactInv, DatasetsTypeOK
  <2> QED
    BY <2>1 DEF Base
<1>5. Boundary(b) = ctx[p].chain.end /\ chains[b].made
  BY <1>0, <1>1 DEF CompactInv, Boundary
<1>6. ASSUME NEW r \in Ids, Settled(ctx[p].chain.end, r), Claimed(c, r)
      PROVE  bases[c].rows[r] = live[r]
  <2>1. Claimed(b, r)
    BY <1>4, <1>6 DEF Claimed
  <2>2. Settled(Boundary(b), r)
    BY <1>5, <1>6
  <2> QED
    BY <1>0, <1>1, <1>2, <2>1, <2>2 DEF CopiesCover
<1>7. End' = End /\ (\A s, t, q : Between(s, t, q)' = Between(s, t, q)) /\ View(b)' = View(b)
      /\ View(ctx[p].base)' = View(b)'
  BY <1>1, <1>2, JournalStays DEF View
<1>8. \A r \in Ids : Settled(ctx[p].chain.end, r)' /\ Claimed(ctx[p].new, r)' => bases'[c].rows[r] = live'[r]
  <2> SUFFICES ASSUME NEW r \in Ids, Settled(ctx[p].chain.end, r)', Claimed(ctx[p].new, r)'
               PROVE  bases[c].rows[r] = live[r]
    BY <1>2
  <2>1. Settled(ctx[p].chain.end, r) /\ Claimed(c, r)
    BY <1>1, <1>2, <1>7 DEF Settled, Claimed, Between
  <2> QED
    BY <1>6, <2>1
<1>9. CompactInv(p)'
  BY <1>0, <1>1, <1>2, <1>3, <1>7, <1>8 DEF CompactInv
<1> QED
  BY <1>0, <1>1, <1>2, <1>3, <1>9 DEF OpInv, Building, Compacting

LEMMA ChainsCompaction ==
  ASSUME DatasetsInv, NEW p \in Procs, CompactChain(p)
  PROVE  OpInv(p)'
<1>0. /\ DatasetsTypeOK /\ OpInv(p) /\ CompactInv(p) /\ at[p] = "chain"
  BY DEF DatasetsInv, OpsInv, CompactChain, OpInv, Compacting
<1>1. PICK b, c : /\ b = ctx[p].base /\ c = ctx[p].new /\ b \in DOMAIN bases /\ c \in DOMAIN bases
                  /\ b < c /\ b # c /\ b \in Copies /\ c \in Copies /\ ctx[p].chain = chains[b]
  <2>1. ctx[p].base \in DOMAIN bases /\ ctx[p].new \in DOMAIN bases /\ ctx[p].base < ctx[p].new
    BY <1>0 DEF OpInv, CompactInv
  <2> QED
    BY <1>0, <2>1, Fields DEF OpInv
<1>2. /\ UNCHANGED <<journal, current, ctx>> /\ at' = [at EXCEPT ![p] = "switch"]
      /\ bases' = [bases EXCEPT ![c].present = TRUE]
      /\ chains' = [chains EXCEPT ![c] = [made |-> TRUE, deltas |-> <<>>, end |-> ctx[p].chain.end]]
  BY <1>1 DEF CompactChain, Reach, database
<1>3. /\ at'[p] = "switch" /\ DOMAIN bases' = DOMAIN bases /\ bases'[b] = bases[b]
      /\ bases'[c].rows = bases[c].rows /\ chains'[b] = chains[b] /\ chains'[c].deltas = <<>>
  <2>1. bases[c] \in Base
    BY <1>0, <1>1 DEF DatasetsTypeOK
  <2> QED
    BY <1>0, <1>1, <1>2, <2>1 DEF DatasetsTypeOK, Base
<1>4. View(b)' = View(b) /\ View(ctx[p].base)' = View(b)'
  BY <1>1, <1>2, <1>3 DEF View
<1>5. CompactInv(p)'
  BY <1>0, <1>1, <1>2, <1>3, <1>4 DEF CompactInv
<1> QED
  BY <1>0, <1>1, <1>2, <1>3, <1>5 DEF OpInv, Building, Compacting

LEMMA SwitchesCompaction ==
  ASSUME DatasetsInv, NEW p \in Procs, CompactSwitch(p)
  PROVE  OpInv(p)'
<1>0. /\ DatasetsTypeOK /\ OpInv(p) /\ CompactInv(p) /\ at[p] = "switch"
      /\ UNCHANGED <<journal, bases, chains, current, ctx>> /\ at' = [at EXCEPT ![p] = "record"]
  BY DEF DatasetsInv, OpsInv, CompactSwitch, OpInv, Compacting, Reach, database
<1>1. at'[p] = "record"
  BY <1>0 DEF DatasetsTypeOK
<1>2. View(ctx[p].base)' = View(ctx[p].base)
  BY <1>0 DEF View
<1>3. CompactInv(p)'
  BY <1>0, <1>1, <1>2 DEF CompactInv
<1> QED
  BY <1>0, <1>1, <1>3 DEF OpInv, Building, Compacting

LEMMA ChecksRollback ==
  ASSUME DatasetsInv, NEW p \in Procs, RollbackCheck(p)
  PROVE  OpInv(p)'
<1>0. /\ DatasetsTypeOK /\ Rollbackable /\ OpInv(p) /\ Resolves /\ current.new = pointer
      /\ chains[pointer].deltas = <<>>
      /\ ctx' = [ctx EXCEPT ![p] = [Resolved EXCEPT !.new = current.old]]
      /\ UNCHANGED <<bases, chains, current>> /\ at' = [at EXCEPT ![p] = "back"]
      /\ current.old \in 0..MaxBases
  BY DEF DatasetsInv, OpsInv, RollbackCheck, Reach, database, files, DatasetsTypeOK, Record
<1>1. PICK b, c : b = pointer /\ c = current.old /\ b \in DOMAIN bases /\ pointer # NoCopy
  BY <1>0, ResolvedType DEF Resolves
<1>2. /\ ctx'[p].base = b /\ ctx'[p].new = c /\ ctx'[p].chain = chains[b] /\ at'[p] = "back"
  BY <1>0, <1>1, ResolvedType DEF DatasetsTypeOK
<1>3. current # NoRecord
  BY <1>0, <1>1 DEF NoRecord
<1>4. bases[c].present /\ bases[b].present => View(c) = View(b)
  <2>1. View(b) = bases[b].rows
    BY <1>0, <1>1, ViewWithoutDeltas
  <2>2. View(current.old) = View(c)
    BY <1>1
  <2> QED
    BY <1>0, <1>1, <2>1, <2>2 DEF Rollbackable
<1>5. /\ View(b)' = View(b) /\ View(c)' = View(c)
      /\ View(ctx[p].base)' = View(b)' /\ View(ctx[p].new)' = View(c)'
  BY <1>0, <1>2 DEF View
<1>6. BackInv(p)'
  BY <1>0, <1>1, <1>2, <1>3, <1>4, <1>5 DEF BackInv
<1> QED
  BY <1>0, <1>1, <1>2, <1>6 DEF OpInv, Building, Compacting

LEMMA StepsOp ==
  ASSUME DatasetsInv, NEW p \in Procs, Step(p)
  PROVE  OpInv(p)'
<1>0. /\ DatasetsTypeOK /\ OpInv(p) /\ ctx[p] \in Context
  BY DEF DatasetsInv, OpsInv, DatasetsTypeOK
<1>1. CASE BuildStart(p)
  <2>1. /\ Resolves /\ ctx' = [ctx EXCEPT ![p] = Resolved] /\ UNCHANGED <<bases, chains>>
        /\ at' = [at EXCEPT ![p] = "install"]
    BY <1>1 DEF BuildStart, Reach, files
  <2>2. /\ ctx'[p].base = pointer /\ ctx'[p].new = NoCopy /\ ctx'[p].chain = chains[pointer]
        /\ at'[p] = "install" /\ pointer \in DOMAIN bases
    BY <1>0, <2>1, ResolvedType DEF DatasetsTypeOK
  <2> QED
    BY <2>1, <2>2 DEF OpInv, Building, Compacting
<1>2. CASE InstallJournal(p)
  <2>1. /\ UNCHANGED <<ctx, bases, chains>> /\ at'[p] = "read" /\ journal'.on /\ Building(p) /\ at[p] # "idle"
    BY <1>0, <1>2 DEF InstallJournal, Reach, files, DatasetsTypeOK, Building
  <2> QED
    BY <1>0, <2>1 DEF OpInv, Building, Compacting
<1>3. CASE ReadDelta(p)
  <2>1. /\ ctx' = [ctx EXCEPT ![p] = [@ EXCEPT !.delta = Captured(p), !.to = End]]
        /\ UNCHANGED <<journal, bases, chains>> /\ at'[p] = "publish" /\ Building(p) /\ at[p] = "read"
    BY <1>0, <1>3 DEF ReadDelta, Reach, files, database, DatasetsTypeOK, Building
  <2>2. /\ ctx'[p].base = ctx[p].base /\ ctx'[p].new = ctx[p].new /\ ctx'[p].chain = ctx[p].chain
    <3>1. ctx'[p] = [ctx[p] EXCEPT !.delta = Captured(p), !.to = End]
      BY <2>1 DEF DatasetsTypeOK, DatasetsInv
    <3> QED
      BY <1>0, <3>1 DEF Context
  <2> QED
    BY <1>0, <1>3, <2>1, <2>2, ReadsDelta DEF OpInv, Building, Compacting
<1>4. CASE CompactStart(p)
  BY <1>4, StartsCompaction
<1>5. CASE CompactCheck(p)
  BY <1>5, ChecksCompaction
<1>6. CASE CompactChain(p)
  BY <1>6, ChainsCompaction
<1>7. CASE CompactSwitch(p)
  BY <1>7, SwitchesCompaction
<1>8. CASE RollbackCheck(p)
  BY <1>8, ChecksRollback
<1>9. CASE PublishDelta(p) \/ CompactRecord(p) \/ RollbackSwitch(p) \/ Stops(p)
  <2>1. at'[p] = "idle" /\ ctx'[p] = NoContext
    BY <1>0, <1>9 DEF PublishDelta, CompactRecord, RollbackSwitch, Stops, Reach, DatasetsTypeOK
  <2> QED
    BY <2>1 DEF OpInv, Building, Compacting
<1> QED
  BY <1>1, <1>2, <1>3, <1>4, <1>5, <1>6, <1>7, <1>8, <1>9 DEF Step

LEMMA DatasetsStay ==
  ASSUME DatasetsInv, UNCHANGED datasetsVars
  PROVE  DatasetsInv'
<1>0. /\ UNCHANGED <<live, epoch, writes, journal, bases, chains, pointer, current, making, at, ctx>>
      /\ UNCHANGED database
  BY DEF datasetsVars, database, files
<1>1. /\ DatasetsTypeOK /\ CopiesCover /\ ChainsBehind /\ Original /\ DeletesSeen
      /\ MakingApart /\ Rollbackable /\ OpsInv
  BY DEF DatasetsInv
<1>2. DatasetsTypeOK'
  BY <1>0, <1>1 DEF DatasetsTypeOK
<1>3. Len(bases') \in Nat /\ DOMAIN bases' = 1..Len(bases') /\ Len(bases') = Len(bases)
  BY <1>0, <1>1, Fields
<1>4. CopiesCover' /\ ChainsBehind' /\ Original' /\ DeletesSeen'
  BY <1>0, <1>1, <1>3, CoverKept
<1>5. MakingApart'
  BY <1>0, <1>1 DEF MakingApart, Compacting
<1>6. Rollbackable'
  BY <1>0, <1>1 DEF Rollbackable, Building, View
<1>7. OpsInv'
  BY <1>0, <1>1, OpKept DEF OpsInv
<1> QED
  BY <1>2, <1>4, <1>5, <1>6, <1>7 DEF DatasetsInv

LEMMA DatasetsInvariant ==
  ASSUME Alone
  PROVE  DatasetsSpec => []DatasetsInv
<1>1. DatasetsInv /\ [DatasetsNext]_datasetsVars => DatasetsInv'
  <2> SUFFICES ASSUME DatasetsInv, [DatasetsNext]_datasetsVars PROVE DatasetsInv'
    OBVIOUS
  <2>1. CASE UNCHANGED datasetsVars
    BY <2>1, DatasetsStay
  <2>2. CASE InsertRow \/ UpdateRow \/ DeleteRow
    <3>1. DatasetsTypeOK'
      BY <2>2, WritersTypes DEF DatasetsInv
    <3> QED
      BY <2>2, <3>1, WritersKeep DEF DatasetsInv
  <2>3. CASE CreateStart \/ CreateCopy \/ CreatePoint \/ CreateEnd \/ CreateFails \/ Cleanup
    BY <2>3, MakersKeep
  <2>4. ASSUME NEW p \in Procs, Step(p) PROVE DatasetsInv'
    <3>1. DatasetsTypeOK'
      BY <2>4, StepTypes DEF DatasetsInv, OpsInv
    <3>2. OpsInv'
      BY <2>4, StepsOp DEF OpsInv, Alone
    <3> QED
      BY <2>4, <3>1, <3>2, StepsCover, StepsApart, StepsRollback DEF DatasetsInv
  <2> QED
    BY <2>1, <2>2, <2>3, <2>4 DEF DatasetsNext
<1> QED
  BY <1>1, InitDatasetsInv, PTL DEF DatasetsSpec

\* The datasets are well formed, and what ChainCovers says of the journal and the layered
\* view holds of the copy the pointer names: the promise that fast_preflight_candidate
\* (training_compaction.py) and build_delta (training_delta.py) rely on.
THEOREM TrainingDataSafe ==
  ASSUME Alone
  PROVE  DatasetsSpec => []DatasetsSafe
<1>1. DatasetsInv => DatasetsSafe
  <2> SUFFICES ASSUME DatasetsInv PROVE DatasetsSafe
    OBVIOUS
  <2>1. DatasetsTypeOK /\ CopiesCover
    BY DEF DatasetsInv
  <2>2. ASSUME Resolves PROVE pointer \in DOMAIN bases /\ bases[pointer].present
    BY <2>1, <2>2, ResolvedType DEF Resolves
  <2>3. ChainCovers
    BY <2>1, <2>2 DEF ChainCovers, CopiesCover, Settled, Claimed
  <2> QED
    BY <2>1, <2>3 DEF DatasetsSafe
<1> QED
  BY <1>1, DatasetsInvariant, PTL

\* Neither the switch of a compaction nor its rollback changes what the training data
\* says (training_compaction.py apply_compaction and rollback_compaction), as long as
\* what they have checked is still there.
THEOREM SwitchKeepsTrainingData ==
  ASSUME Alone
  PROVE  DatasetsSpec => SwitchKeepsView
<1>1. DatasetsInv /\ [DatasetsNext]_datasetsVars =>
        [\A p \in Procs :
           (/\ at[p] \in {"switch", "back"} /\ pointer' # pointer /\ at'[p] # at[p]
            /\ pointer = ctx[p].base /\ chains[pointer] = ctx[p].chain
            /\ Resolves /\ Resolves')
           => View(pointer)' = View(pointer)]_datasetsVars
  <2> SUFFICES ASSUME DatasetsInv, DatasetsNext, NEW p \in Procs,
                      at[p] \in {"switch", "back"}, pointer' # pointer, at'[p] # at[p],
                      pointer = ctx[p].base, Resolves, Resolves'
               PROVE  View(pointer)' = View(pointer)
    BY DEF datasetsVars
  <2>0. /\ DatasetsTypeOK /\ OpInv(p) /\ Rollbackable
    BY DEF DatasetsInv, OpsInv
  <2>1. CompactSwitch(p) \/ RollbackSwitch(p)
    <3>1. ~(InsertRow \/ UpdateRow \/ DeleteRow)
      BY DEF InsertRow, UpdateRow, DeleteRow, Change
    <3>2. ~(CreateStart \/ CreateCopy \/ CreatePoint \/ CreateEnd \/ CreateFails \/ Cleanup)
      BY DEF CreateStart, CreateCopy, CreatePoint, CreateEnd, CreateFails, Cleanup
    <3>3. PICK q \in Procs : Step(q)
      BY <3>1, <3>2 DEF DatasetsNext
    <3>4. q = p
      BY <2>0, <3>3, StepMoves DEF DatasetsTypeOK
    <3> QED
      BY <3>3, <3>4 DEF Step, BuildStart, InstallJournal, ReadDelta, PublishDelta, CompactStart, CompactCheck,
         CompactChain, CompactRecord, RollbackCheck, Stops, files
  <2>2. PICK b, c : /\ b = pointer /\ c = ctx[p].new /\ pointer' = c /\ b \in DOMAIN bases
                    /\ UNCHANGED <<bases, chains>> /\ bases[b].present /\ bases[c].present
    BY <2>0, <2>1, ResolvedType DEF CompactSwitch, RollbackSwitch, Resolves
  <2>3. View(pointer)' = View(c) /\ View(pointer) = View(b)
    BY <2>2 DEF View
  <2>4. CASE CompactSwitch(p)
    <3>1. CompactInv(p) /\ at[p] = "switch"
      BY <2>0, <2>4 DEF CompactSwitch, OpInv, Compacting
    <3>2. c \in DOMAIN bases /\ chains[c].deltas = <<>> /\ bases[c].rows = View(ctx[p].base)
      BY <2>2, <3>1 DEF CompactInv
    <3>3. View(c) = bases[c].rows
      BY <2>0, <3>2, ViewWithoutDeltas
    <3>4. View(ctx[p].base) = View(b)
      BY <2>2
    <3> QED
      BY <2>3, <3>2, <3>3, <3>4
  <2>5. CASE RollbackSwitch(p)
    <3>1. BackInv(p)
      BY <2>0, <2>5 DEF RollbackSwitch, OpInv
    <3>2. View(ctx[p].new) = View(ctx[p].base)
      BY <2>2, <3>1 DEF BackInv
    <3> QED
      BY <2>2, <2>3, <3>2
  <2> QED
    BY <2>1, <2>4, <2>5
<1> QED
  BY <1>1, DatasetsInvariant, PTL DEF DatasetsSpec, SwitchKeepsView
===============================================================================
