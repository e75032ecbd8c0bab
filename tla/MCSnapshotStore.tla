---------------------------- MODULE MCSnapshotStore ----------------------------
EXTENDS SnapshotStore

\* The readers are threads of one server, beside its uploads and those of another.
MCHome == [r \in Readers |-> "api1"]

\* One server, as deployed, but two on the database; the pipeline puts its own snapshots.
MCPublishing ==
    [b \in Backends |-> CASE b = "file" -> {"api1"}
                         [] b = "database" -> {"api1", "api2"}
                         [] b = "object" -> {"api1", "pipeline"}]

\* One publication is uploaded with two contents.
MCUploads == {<<1, "a">>, <<1, "b">>, <<2, "a">>, <<3, "a">>}

\* Two uploads race in the object store, where nothing is pruned, three in the database; four
\* upload a publication of the file store again after retention has removed it.
MCSaves == [b \in Backends |-> CASE b = "object" -> 2 [] b = "database" -> 3 [] b = "file" -> 4]
=============================================================================
