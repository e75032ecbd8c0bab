-------------------------- MODULE PublicationPromise --------------------------
(* What the publication outbox promises of each snapshot: it is delivered    *)
(* before it counts as published, and its verdict, published or given up,    *)
(* comes from a batch that took it while it was open.  So a verdict is final *)
(* but for the batches that held the snapshot when it was reached: each of   *)
(* them may judge it once more, and nothing else may.                        *)
CONSTANTS Pubs, Senders

VARIABLES queued, delivered, verdict, held

vars == <<queued, delivered, verdict, held>>

Init ==
    /\ queued = {}
    /\ delivered = {}
    /\ verdict = [p \in Pubs |-> "open"]
    /\ held = [s \in Senders |-> {}]

Queue ==
    /\ \E p \in Pubs \ queued : queued' = queued \cup {p}
    /\ UNCHANGED <<delivered, verdict, held>>

\* Only what a batch holds is delivered.
Deliver ==
    /\ \E s \in Senders : \E p \in held[s] \ delivered : delivered' = delivered \cup {p}
    /\ UNCHANGED <<queued, verdict, held>>

Hold(s, batch) == held' = [held EXCEPT ![s] = batch]

Take(s) ==
    /\ held[s] = {}
    /\ \E batch \in SUBSET {p \in queued : verdict[p] = "open"} : Hold(s, batch)
    /\ UNCHANGED <<queued, delivered, verdict>>

\* One transaction judges what the batch holds, or nothing of it.
Settle(s) ==
    /\ \E judged \in SUBSET held[s] : \E new \in [judged -> {"open", "published", "dead_letter"}] :
        /\ \A p \in judged : new[p] = "published" => p \in delivered
        /\ verdict' = [p \in Pubs |-> IF p \in judged THEN new[p] ELSE verdict[p]]
    /\ Hold(s, {})
    /\ UNCHANGED <<queued, delivered>>

Next == Queue \/ Deliver \/ \E s \in Senders : Take(s) \/ Settle(s)

Spec == Init /\ [][Next]_vars
=============================================================================
