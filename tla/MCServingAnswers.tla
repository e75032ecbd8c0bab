--------------------------- MODULE MCServingAnswers ---------------------------
(* Three releases for TLC, and a legacy snapshot that is missing or holds the *)
(* station forecasts of one hour.                                          *)
EXTENDS ServingAnswers, TLC

CONSTANTS PM10, O3

MCSnapshots == {{}, {1}}

Symmetric == Permutations(Parameters)
=============================================================================
