---------------------------- MODULE MCHourlyModels ----------------------------
(* Instances of HourlyModels for TLC. *)
EXTENDS HourlyModels, TLC

OneTarget == <<"pm10">>
TwoTargets == <<"pm10", "pm25">>

Symmetry == Permutations(Procs)
==============================================================================
