---------------------------- MODULE HistoryImport ----------------------------
(***************************************************************************)
(* Imports of historical measurements of one year, province and pollutant: *)
(* the resumable importer (smog_ai/collectors/gios_history.py), run by     *)
(* backfill-gios-history over the whole year and by fill-missing-ranges    *)
(* (smog_ai/range_backfill) over the gaps that an audit of the database    *)
(* has found.  The two hold leases of different names and share the cache  *)
(* directory: pages, workbook and state.json.                              *)
(*                                                                         *)
(* Hours are numbered from 1.  The archive answers in pages, in the order  *)
(* of time; a prepared annual workbook is read in batches of the same      *)
(* hours.  The hours are those older than the live window, and an hour is  *)
(* there when the database holds the rows that the audit asks for.  The    *)
(* cache is local; the metadata of stations and sensors is taken as known. *)
(***************************************************************************)
EXTENDS Integers, FiniteSets

CONSTANTS
    MaxHours,     \* bound: hours of the year
    PageRows,     \* hours of one page, or of one batch of the workbook
    Unmeasured,   \* hours whose value the source leaves empty for ever
    Sources,      \* "api", "prepared": how the year may be published
    Early,        \* imports may begin while the year still runs
    Requests,     \* the ranges, sets of hours, that the operator asks to fill
    MinGap,       \* --minimum-historical-gap-hours
    MaxAttempts,  \* --max-no-progress-attempts
    MaxFaults     \* bound on failed calls and killed processes

Hours == 1..MaxHours

ASSUME HistoryAssumption ==
    /\ MaxHours \in Nat \ {0} /\ PageRows \in Nat \ {0}
    /\ Unmeasured \subseteq Hours
    /\ Sources \subseteq {"api", "prepared"}
    /\ Early \in BOOLEAN /\ (Early => "prepared" \notin Sources)
    /\ Requests \subseteq SUBSET Hours /\ Hours \in Requests
    /\ MinGap \in Nat \ {0} /\ MaxAttempts \in Nat \ {0} /\ MaxFaults \in Nat

VARIABLES
    source,     \* the source of the year, fixed
    due,        \* hours of the year that have passed
    published,  \* hours that the archive covers so far
    db,         \* hours in air_measurements
    pages,      \* API pages in the cache, by number
    book,       \* the workbook extracted from the cached annual ZIP
    marks,      \* keys that state.json calls completed
    narrowed,   \* a history variable: a range import has marked a key
    attempts,   \* no_progress_count of each signature, that is, set of hours
    job,        \* the two commands
    faults

archive == <<source, due, published>>
cache == <<pages, book>>
vars == <<archive, db, cache, marks, narrowed, attempts, job, faults>>

Commands == {"history", "range"}

PageOf(h) == (h - 1) \div PageRows + 1
Pages == 1..PageOf(MaxHours)

Available == (1..published) \ Unmeasured

Page == [rows : SUBSET Hours, last : BOOLEAN]

\* "unit": the year, province and pollutant; "file": the workbook.
Keys == {"unit", "file"}

Steps == {"idle", "audit", "unpack", "writing", "parse", "read", "store",
          "file", "unit", "end"}

\* want is intervals_by_pollutant, every hour when it is None.
NoJob == [step |-> "idle", keys |-> {}, want |-> {}, before |-> 0, resume |-> FALSE,
          refresh |-> FALSE, page |-> 1, rows |-> {}, last |-> FALSE]

Init ==
    /\ source \in Sources
    /\ due = 0 /\ published = 0
    /\ db = {}
    /\ pages = [k \in {} |-> {}]
    /\ book = "absent"
    /\ marks = {} /\ narrowed = FALSE
    /\ attempts = [w \in SUBSET Hours |-> 0]
    /\ job = [c \in Commands |-> NoJob]
    /\ faults = 0

Fault == faults < MaxFaults /\ faults' = faults + 1

-----------------------------------------------------------------------------
(* Time: an hour passes, and the live collector has it or misses it. *)
HourPasses ==
    /\ due < MaxHours /\ due' = due + 1
    /\ db' \in {db, db \union ({due + 1} \ Unmeasured)}
    /\ UNCHANGED <<source, published, cache, marks, narrowed, attempts, job, faults>>

Publish ==
    /\ published < due /\ published' = published + 1
    /\ UNCHANGED <<source, due, db, cache, marks, narrowed, attempts, job, faults>>

-----------------------------------------------------------------------------
(* The two commands begin. *)
YearIsReady == Early \/ published = MaxHours

FirstStep == IF source = "api" THEN "read" ELSE "unpack"

Begins(c, fields) == job' = [job EXCEPT ![c] = fields]

\* With resume, a unit that the state file knows is skipped.
StartHistory ==
    /\ job["history"].step = "idle" /\ YearIsReady
    /\ \E resume, refresh \in BOOLEAN :
        /\ ~(resume /\ "unit" \in marks /\ ~refresh)
        /\ Begins("history", [NoJob EXCEPT !.step = FirstStep, !.keys = marks, !.want = Hours,
                                           !.resume = resume, !.refresh = refresh])
    /\ UNCHANGED <<archive, db, cache, marks, narrowed, attempts, faults>>

\* _missing_intervals and the planner: runs of missing hours of the requested
\* range, short ones ignored.
Missing(request) == {h \in request \ db : h <= due}
Planned(request) ==
    {h \in Missing(request) : \E a \in 1..h : \E b \in h..due :
        b - a + 1 >= MinGap /\ (a..b) \subseteq Missing(request)}

PlanRange(request) ==
    /\ job["range"].step = "idle" /\ YearIsReady
    /\ Planned(request) # {}
    /\ Begins("range", [NoJob EXCEPT !.step = "audit", !.want = Planned(request)])
    /\ UNCHANGED <<archive, db, cache, marks, narrowed, attempts, faults>>

\* Mutant: gives up one attempt too early.
BeginRangeEarly ==
    LET want == job["range"].want IN
    /\ job["range"].step = "audit"
    /\ IF want \ db = {} \/ attempts[want] >= MaxAttempts - 1
       THEN Begins("range", NoJob)
       ELSE Begins("range", [job["range"] EXCEPT !.step = FirstStep, !.keys = marks,
                                                 !.before = Cardinality(want \ db)])
    /\ UNCHANGED <<archive, db, cache, marks, narrowed, attempts, faults>>

\* The audit before the action: complete already, given up, or resume = False.
BeginRange ==
    LET want == job["range"].want IN
    /\ job["range"].step = "audit"
    /\ IF want \ db = {} \/ attempts[want] >= MaxAttempts
       THEN Begins("range", NoJob)
       ELSE Begins("range", [job["range"] EXCEPT !.step = FirstStep, !.keys = marks,
                                                 !.before = Cardinality(want \ db)])
    /\ UNCHANGED <<archive, db, cache, marks, narrowed, attempts, faults>>

-----------------------------------------------------------------------------
(* The importer *)
Goto(c, step) == job' = [job EXCEPT ![c].step = step]

Skips(c, key) == job[c].resume /\ key \in job[c].keys /\ ~job[c].refresh

\* xlsx_path.write_bytes: an existing file is taken for a whole one.
Unpack(c) ==
    /\ job[c].step = "unpack"
    /\ IF Skips(c, "file") THEN Goto(c, "unit") /\ UNCHANGED book
       ELSE IF job[c].refresh \/ book = "absent" THEN Goto(c, "writing") /\ book' = "partial"
       ELSE Goto(c, "parse") /\ UNCHANGED book
    /\ UNCHANGED <<archive, db, pages, marks, narrowed, attempts, faults>>

Unpacked(c) ==
    /\ job[c].step = "writing"
    /\ book' = "whole"
    /\ Goto(c, "parse")
    /\ UNCHANGED <<archive, db, pages, marks, narrowed, attempts, faults>>

\* A workbook cut short raises, and the handler of the unit ends it.
Parse(c) ==
    /\ job[c].step = "parse"
    /\ Goto(c, IF book = "whole" THEN "read" ELSE "end")
    /\ UNCHANGED <<archive, db, cache, marks, narrowed, attempts, faults>>

\* An empty value is a row of the page, and not a measurement.
SourcePage(k) == [rows |-> {h \in Available : PageOf(h) = k},
                  last |-> k >= PageOf(published)]

Cached(k, answer) ==
    [n \in {k} \union DOMAIN pages |-> IF n = k THEN answer ELSE pages[n]]

\* _cached_json_request: a cached page is good for ever.
ReadPage(c) ==
    LET k == job[c].page
        hit == source = "api" /\ k \in DOMAIN pages /\ ~job[c].refresh
        answer == IF hit THEN pages[k] ELSE SourcePage(k)
    IN  /\ job[c].step = "read"
        /\ pages' = IF source = "api" THEN Cached(k, answer) ELSE pages
        /\ job' = [job EXCEPT ![c].step = "store", ![c].last = answer.last,
                              ![c].rows = answer.rows \intersect job[c].want]
        /\ UNCHANGED <<archive, db, book, marks, narrowed, attempts, faults>>

\* INSERT OR IGNORE and COMMIT, page by page.
StorePage(c) ==
    /\ job[c].step = "store"
    /\ db' = db \union job[c].rows
    /\ job' = IF ~job[c].last THEN [job EXCEPT ![c].step = "read", ![c].page = @ + 1]
              ELSE [job EXCEPT ![c].step = IF source = "api" THEN "unit" ELSE "file"]
    /\ UNCHANGED <<archive, cache, marks, narrowed, attempts, faults>>

\* The state that was loaded when the importer was made, with one key more,
\* replaces the file.
Mark(c, key, next) ==
    /\ job[c].step = key
    /\ marks' = job[c].keys \union {key}
    /\ narrowed' = (narrowed \/ c = "range")
    /\ job' = [job EXCEPT ![c].step = next, ![c].keys = marks']
    /\ UNCHANGED <<archive, db, cache, attempts, faults>>

MarkFile(c) == Mark(c, "file", "unit")

MarkUnit(c) == Mark(c, "unit", "end")

EndHistory ==
    /\ job["history"].step = "end"
    /\ Begins("history", NoJob)
    /\ UNCHANGED <<archive, db, cache, marks, narrowed, attempts, faults>>

\* The audit after the action: progress or one attempt more without any.
EndRange ==
    LET want == job["range"].want IN
    /\ job["range"].step = "end"
    /\ attempts' = [attempts EXCEPT ![want] =
                      IF Cardinality(want \ db) < job["range"].before THEN 0 ELSE @ + 1]
    /\ Begins("range", NoJob)
    /\ UNCHANGED <<archive, db, cache, marks, narrowed, faults>>

-----------------------------------------------------------------------------
\* Where a call of the importer may raise: the network, the disk, the database.
Raises(c) == job[c].step \in {"unpack", "read", "store"}

\* Mutant: a unit that ends with an error is marked like any other.
ErrorMarked(c) ==
    /\ Raises(c)
    /\ Goto(c, "unit")
    /\ Fault
    /\ UNCHANGED <<archive, db, cache, marks, narrowed, attempts>>

\* Mutant: an error answer is cached as an empty page.
ErrorCached(c) ==
    /\ Raises(c)
    /\ Goto(c, "end")
    /\ pages' = Cached(job[c].page, [rows |-> {}, last |-> TRUE])
    /\ Fault
    /\ UNCHANGED <<archive, db, book, marks, narrowed, attempts>>

\* The handler of the unit: no mark, and the next run begins again.
Error(c) ==
    /\ Raises(c)
    /\ Goto(c, "end")
    /\ Fault
    /\ UNCHANGED <<archive, db, cache, marks, narrowed, attempts>>

Killed(c) ==
    /\ job[c].step # "idle"
    /\ Begins(c, NoJob)
    /\ Fault
    /\ UNCHANGED <<archive, db, cache, marks, narrowed, attempts>>

-----------------------------------------------------------------------------
Import(c) ==
    \/ Unpack(c) \/ Unpacked(c) \/ Parse(c) \/ ReadPage(c) \/ StorePage(c)
    \/ MarkFile(c) \/ MarkUnit(c)

History == Import("history") \/ EndHistory

Ranges == BeginRange \/ Import("range") \/ EndRange

Next ==
    \/ HourPasses \/ Publish
    \/ StartHistory \/ History
    \/ (\E request \in Requests : PlanRange(request)) \/ Ranges
    \/ \E c \in Commands : Error(c) \/ Killed(c)

Spec == Init /\ [][Next]_vars

\* The year goes on and is published, a command that runs goes on, and the
\* operator asks for every range again and again.  Nobody has to run the
\* history import, nor refresh the cache.
FairSpec ==
    /\ Spec
    /\ WF_vars(HourPasses) /\ WF_vars(Publish)
    /\ WF_vars(History) /\ WF_vars(Ranges)
    /\ \A request \in Requests : SF_vars(PlanRange(request))

-----------------------------------------------------------------------------
(* Properties *)

Job == [step : Steps, keys : SUBSET Keys, want : SUBSET Hours, before : 0..MaxHours,
        resume : BOOLEAN, refresh : BOOLEAN, page : Pages, rows : SUBSET Hours, last : BOOLEAN]

TypeOK ==
    /\ source \in Sources
    /\ due \in 0..MaxHours /\ published \in 0..due
    /\ db \subseteq Hours \ Unmeasured
    /\ DOMAIN pages \subseteq Pages /\ \A k \in DOMAIN pages : pages[k] \in Page
    /\ book \in {"absent", "partial", "whole"}
    /\ marks \subseteq Keys /\ narrowed \in BOOLEAN
    /\ attempts \in [SUBSET Hours -> 0..MaxAttempts]
    /\ job \in [Commands -> Job]
    /\ faults \in 0..MaxFaults

\* state.json is written "only after full success"
\* (docs/GIOS_PM25_IMPORT_TECHNICAL_PL.md:50): a unit that it calls completed
\* has every hour that the source has, so that a resumed import may skip it.
MarkMeansImported == "unit" \in marks => Available \subseteq db

\* It does, as long as no range import has written marks: through failing
\* pages, killed processes, repeated and concurrent imports.
OwnMarkMeansImported == ~narrowed => MarkMeansImported

\* A gap of a finished year is given up (skipped_no_progress) only for hours
\* that the archive does not have, as long as fewer calls fail than attempts
\* are allowed: no failure leaves something in the cache that later attempts
\* stumble over.
GivenUpIsUnmeasured ==
    source = "api" => \A w \in SUBSET Hours :
        attempts[w] = MaxAttempts => w \intersect Available \subseteq db

\* "Neither state.json nor the existence of a file in the cache is taken as
\* proof of completeness" (docs/platform/TECHNICAL_PROCESSING_PL.md:454): an
\* hour that is measured and planned, because the database misses it, does not
\* stay so while the operator fills the missing ranges again and again.
GapsClose ==
    \A h \in Hours \ Unmeasured :
        (source = "api" /\ h \in Planned(Hours)) ~> h \notin Planned(Hours)

\* The invariants of the import in one: its types and the meaning of its marks.
Safe == TypeOK /\ OwnMarkMeansImported
=============================================================================
