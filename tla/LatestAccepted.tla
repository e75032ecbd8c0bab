---------------------------- MODULE LatestAccepted ----------------------------
(* What a snapshot store promises its readers.  An answer is a snapshot that *)
(* was the latest one at some moment since the read began, or not longer     *)
(* than a window before it.  Where reads are loose, a read during which a    *)
(* newer one has come in may also answer nothing, or a twin: what is offered *)
(* under the same name as one that was the latest.                           *)
EXTENDS Integers, Sequences

CONSTANTS Values, Twins, Nothing, Readers

VARIABLES
    clock,
    log,      \* what has been the latest, with the time from which it was
    window,   \* how long a reader may stay behind, -1 for not at all
    loose,    \* whether a read may be overtaken by the snapshots that come in
    since,    \* since[r]: the first entry r may still answer, 0 when it does not read
    answer    \* answer[r]: what r answered, until it reads again

vars == <<clock, log, window, loose, since, answer>>

Entry(value, at) == [value |-> value, at |-> at]

Latest == log[Len(log)].value

\* Entries that are the latest, or were at time t or later.
Current(t) == {i \in DOMAIN log : i = Len(log) \/ log[i + 1].at >= t}

Oldest(t) == CHOOSE i \in Current(t) : \A j \in Current(t) : i <= j

Init ==
    /\ clock = 0
    /\ log = <<Entry(Nothing, 0)>>
    /\ window \in Int
    /\ loose \in BOOLEAN
    /\ since = [r \in Readers |-> 0]
    /\ answer = [r \in Readers |-> Nothing]

Tick ==
    /\ clock' = clock + 1
    /\ UNCHANGED <<log, window, loose, since, answer>>

Accept ==
    /\ \E v \in Values : log' = Append(log, Entry(v, clock))
    /\ UNCHANGED <<clock, window, loose, since, answer>>

Begin(r) ==
    /\ since[r] = 0
    /\ since' = [since EXCEPT ![r] = Oldest(clock - window)]
    /\ answer' = [answer EXCEPT ![r] = Nothing]
    /\ UNCHANGED <<clock, log, window, loose>>

Served(r) == {log[i].value : i \in since[r]..Len(log)}

Overtaken(r) == {Nothing} \cup {t[2] : t \in {t \in Twins : t[1] \in Served(r)}}

Answer(r) ==
    /\ since[r] # 0
    /\ \E v \in Served(r) \cup (IF loose /\ Len(log) > since[r] THEN Overtaken(r) ELSE {}) :
        answer' = [answer EXCEPT ![r] = v]
    /\ since' = [since EXCEPT ![r] = 0]
    /\ UNCHANGED <<clock, log, window, loose>>

\* The server ends: its reads are never answered.
Forget ==
    /\ \E R \in SUBSET Readers :
        /\ since' = [r \in Readers |-> IF r \in R THEN 0 ELSE since[r]]
        /\ answer' = [r \in Readers |-> IF r \in R THEN Nothing ELSE answer[r]]
    /\ UNCHANGED <<clock, log, window, loose>>

Next == Tick \/ Accept \/ (\E r \in Readers : Begin(r) \/ Answer(r)) \/ Forget

Spec == Init /\ [][Next]_vars
=============================================================================
