-------------------------- MODULE MCTrainingDatasets --------------------------
(* TrainingDatasets for TLC.  One process builds, compacts and rolls back: the   *)
(* PowerShell scripts refuse to start beside the scheduled task or another       *)
(* process of the project, and the scheduled run takes its stages in turn.       *)
EXTENDS TrainingDatasets
==============================================================================
