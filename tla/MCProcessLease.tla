--------------------------- MODULE MCProcessLease ---------------------------
(* Small deployments of ProcessLease for TLC. *)
EXTENDS ProcessLease, TLC

CONSTANTS p1, p2, p3, pc1, pc2

BothHosts == {pc1, pc2}

OneHost == {pc1}

Three == {p1, p2, p3}

OneQuiet == {p1}

\* Three commands on one Windows machine, or one there and one on another machine.
OneOrTwo ==
    {[p \in Procs |-> pc1],
     [p \in Procs |-> CASE p = p1 -> pc1 [] p = p2 -> pc2 [] OTHER -> NoHost]}
=============================================================================
