---------------------------- MODULE MCModelRecovery ----------------------------
(* An instance of ModelRecovery for TLC: two targets, and a training without    *)
(* uploads beside the commands; a resume adds a weekly training and predictions. *)
EXTENDS ModelRecovery, TLC

TwoTargets == <<"pm10", "pm25">>
SomeJobs == {"local"}

Symmetry == Permutations(Procs)
==============================================================================
