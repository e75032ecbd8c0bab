----------------------------- MODULE MCAutomation -----------------------------
EXTENDS Automation

\* 1 is snapshot-train-hourly in what it shows: a hint, progress files of its own, the lease,
\* partial results, MLflow.  2 is audit-hourly-serving-contract: no hint, and 4 is accepted.
MCStages == 1..2
===============================================================================
