--------------------------- MODULE TrainingDatasets ---------------------------
(***************************************************************************)
(* The training data of one profile: immutable copies of the live database  *)
(* (smog_ai/training_snapshot.py), the deltas stacked on the copy that the   *)
(* profile's pointer names (smog_ai/training_delta.py), and the compaction   *)
(* of a copy and its deltas into a new copy, with its rollback               *)
(* (smog_ai/training_compaction.py).  The importers write the live database  *)
(* all the while; triggers, once installed, journal what they change.        *)
(*                                                                         *)
(* One measurement table stands for the two: a row is the number of the      *)
(* write that produced it.  The dimension tables, which every delta copies    *)
(* whole, and the option that cuts a copy to a time window are left out.      *)
(*                                                                         *)
(* Names that HistoryImport has too carry Datasets, or another word: one      *)
(* module of proofs extends both.                                            *)
(***************************************************************************)
EXTENDS Integers, Sequences, FiniteSets

CONSTANTS
    Procs,      \* the processes that build deltas, compact and roll back
    Kept,       \* a delta says nothing of the row
    MaxId,      \* bound: primary keys
    MaxWrites,  \* bound: writes to the live table
    MaxBases,   \* bound: copies ever started
    MaxDeltas,  \* bound: deltas on one copy
    Retain      \* training_snapshot.retain_quick or retain_full

ASSUME DatasetsAssumption ==
    /\ Kept \notin Int
    /\ MaxId \in Nat \ {0} /\ MaxWrites \in Nat
    /\ MaxBases \in Nat \ {0} /\ MaxDeltas \in Nat
    /\ Retain \in Nat \ {0}

VARIABLES
    live,      \* id -> the live row
    epoch,     \* id -> copies started before the row's measurement time
    writes,    \* writes to the live table so far
    journal,   \* the change journal, and whether its triggers are installed
    bases,     \* the copies in order of creation
    chains,    \* copy -> its delta chain pointer
    pointer,   \* the copy that <profile>/latest.json names
    making,    \* the copy that create() is making, and its next step
    current,   \* the compaction record that current.json names
    at, ctx    \* process -> its step and what it has read

database == <<live, epoch, writes, journal>>
files == <<bases, chains, pointer, current>>
datasetsVars == <<database, files, making, at, ctx>>

Ids == 1..MaxId
Absent == 0
Rows == Absent..MaxWrites
Copies == 1..MaxBases
NoCopy == 0
Table == [Ids -> Rows]
Delta == [Ids -> Rows \union {Kept}]

(* seq: the length of the journal inside the copy, -1 without the triggers.   *)
(* top and since are history: the largest key of the copy that create() made, *)
(* and its number; a compacted copy has those of the copy it goes back to.    *)
Base == [rows : Table, seq : -1..MaxWrites, top : 0..MaxId, since : 0..MaxBases, present : BOOLEAN]
Chain == [made : BOOLEAN, deltas : Seq(Delta), end : 0..MaxWrites]
Entry == [id : Ids, op : {"put", "delete"}]
Context == [base : 0..MaxBases, chain : Chain, new : 0..MaxBases, delta : Delta, to : 0..MaxWrites]
Record == [old : 0..MaxBases, new : 0..MaxBases, boundary : 0..MaxWrites]

Empty == [r \in Ids |-> Absent]
Silent == [r \in Ids |-> Kept]
Gone == [rows |-> Empty, seq |-> -1, top |-> 0, since |-> NoCopy, present |-> FALSE]
NoChain == [made |-> FALSE, deltas |-> <<>>, end |-> 0]
NoContext == [base |-> NoCopy, chain |-> NoChain, new |-> NoCopy, delta |-> Silent, to |-> 0]
NotMaking == [copy |-> NoCopy, step |-> "idle"]
NoRecord == [old |-> NoCopy, new |-> NoCopy, boundary |-> 0]
BuildSteps == {"idle", "install", "read", "publish", "check", "chain", "switch", "record", "back"}

DatasetsTypeOK ==
    /\ live \in Table /\ epoch \in [Ids -> 0..MaxBases] /\ writes \in 0..MaxWrites
    /\ journal \in [on : BOOLEAN, log : Seq(Entry)] /\ Len(journal.log) <= writes
    /\ bases \in Seq(Base) /\ Len(bases) <= MaxBases
    /\ chains \in [Copies -> Chain]
    /\ pointer \in 0..Len(bases)
    /\ making \in [copy : 0..Len(bases), step : {"idle", "copy", "point", "end"}]
    /\ current \in Record
    /\ at \in [Procs -> BuildSteps]
    /\ ctx \in [Procs -> Context]

-----------------------------------------------------------------------------
End == Len(journal.log)
Present(table) == {r \in Ids : table[r] # Absent}
Newest(S) == CHOOSE x \in S : \A y \in S : y <= x
TopId(table) == Newest(Present(table) \union {0})

(* open_layered_connection: the last delta that has the row, or its tombstone. *)
Mentions(deltas, r) == {i \in DOMAIN deltas : deltas[i][r] # Kept}
Layered(table, deltas) ==
    [r \in Ids |-> IF Mentions(deltas, r) = {} THEN table[r]
                   ELSE deltas[Newest(Mentions(deltas, r))][r]]
View(copy) == Layered(bases[copy].rows, chains[copy].deltas)

(* _apply_delta, one delta after the other: its tombstones, then its rows. *)
ApplyDelta(table, delta) ==
    LET kept == [r \in Ids |-> IF delta[r] = Absent THEN Absent ELSE table[r]]
    IN  [r \in Ids |-> IF delta[r] \in {Kept, Absent} THEN kept[r] ELSE delta[r]]
Compacted(table, deltas) ==
    LET applied[n \in 0..Len(deltas)] ==
            IF n = 0 THEN table ELSE ApplyDelta(applied[n - 1], deltas[n])
    IN  applied[Len(deltas)]

Reach(p, step) == at' = [at EXCEPT ![p] = step]

(* _resolve_context: the pointer, the copy and its chain must all be there. *)
Resolves == pointer # NoCopy /\ bases[pointer].present
Resolved == [base |-> pointer, chain |-> chains[pointer], new |-> NoCopy, delta |-> Silent, to |-> 0]

DatasetsInit ==
    /\ live = Empty /\ epoch = [r \in Ids |-> 0] /\ writes = 0
    /\ journal = [on |-> FALSE, log |-> <<>>]
    /\ bases = <<>>
    /\ chains = [c \in Copies |-> NoChain]
    /\ pointer = NoCopy /\ making = NotMaking
    /\ current = NoRecord
    /\ at = [p \in Procs |-> "idle"]
    /\ ctx = [p \in Procs |-> NoContext]

-----------------------------------------------------------------------------
(* The importers, one committed change at a time, and the trigger that journals it. *)
Change(r, value, op) ==
    /\ writes < MaxWrites /\ writes' = writes + 1
    /\ live' = [live EXCEPT ![r] = value]
    /\ journal' = IF journal.on THEN [journal EXCEPT !.log = Append(@, [id |-> r, op |-> op])]
                  ELSE journal
    /\ UNCHANGED <<files, making, at, ctx>>

(* SQLite gives the next free key after the largest; a backfill inserts old hours. *)
InsertRow ==
    LET r == TopId(live) + 1 IN
    /\ r \in Ids
    /\ \E time \in {0, Len(bases)} : epoch' = [epoch EXCEPT ![r] = time]
    /\ Change(r, writes + 1, "put")

UpdateRow ==
    /\ \E r \in Present(live) : Change(r, writes + 1, "put")
    /\ UNCHANGED epoch

(* Nothing under smog_ai deletes measurements; tests/test_training_delta_hf21.py does. *)
DeleteRow ==
    \E r \in Present(live) : Change(r, Absent, "delete") /\ epoch' = [epoch EXCEPT ![r] = 0]

-----------------------------------------------------------------------------
(* create, under the lease training-snapshot-create. *)
CreateStart ==
    /\ making = NotMaking /\ Len(bases) < MaxBases
    /\ bases' = Append(bases, Gone)
    /\ making' = [copy |-> Len(bases) + 1, step |-> "copy"]
    /\ UNCHANGED <<database, chains, pointer, current, at, ctx>>

(* The online backup ends with the state of one instant; then the manifest. *)
CreateCopy ==
    /\ making.step = "copy" /\ making' = [making EXCEPT !.step = "point"]
    /\ bases' = [bases EXCEPT ![making.copy] =
                    [rows |-> live, seq |-> IF journal.on THEN End ELSE -1,
                     top |-> TopId(live), since |-> making.copy, present |-> TRUE]]
    /\ UNCHANGED <<database, chains, pointer, current, at, ctx>>

CreatePoint ==
    /\ making.step = "point" /\ making' = [making EXCEPT !.step = "end"]
    /\ pointer' = making.copy
    /\ UNCHANGED <<database, bases, chains, current, at, ctx>>

CreateEnd ==
    /\ making.step = "end" /\ making' = NotMaking
    /\ UNCHANGED <<database, files, at, ctx>>

(* The handler removes the directory, whatever has been written; a kill does not. *)
CreateFails ==
    /\ making # NotMaking /\ making' = NotMaking
    /\ bases' \in {bases, [bases EXCEPT ![making.copy] = Gone]}
    /\ UNCHANGED <<database, chains, pointer, current, at, ctx>>

(* cleanup after a training on a copy: the newest Retain stay.  A directory that  *)
(* cannot be moved aside stays as well.                                          *)
Cleanup ==
    LET kept == {c \in DOMAIN bases : bases[c].present}
        old == {c \in kept : Cardinality({d \in kept : d > c}) >= Retain}
    IN /\ \E removed \in SUBSET old \ {{}} :
             bases' = [c \in DOMAIN bases |-> IF c \in removed THEN Gone ELSE bases[c]]
       /\ UNCHANGED <<database, chains, pointer, current, making, at, ctx>>

-----------------------------------------------------------------------------
(* build_delta *)
BuildStart(p) ==
    /\ at[p] = "idle" /\ Resolves /\ Len(chains[pointer].deltas) < MaxDeltas
    /\ ctx' = [ctx EXCEPT ![p] = Resolved]
    /\ Reach(p, "install")
    /\ UNCHANGED <<database, files, making>>

InstallJournal(p) ==
    /\ at[p] = "install"
    /\ journal' = [journal EXCEPT !.on = TRUE]
    /\ Reach(p, "read")
    /\ UNCHANGED <<live, epoch, writes, files, making, ctx>>

(* _changed_ids_from_journal: the last operation on a row decides. *)
Between(start, end, r) == {i \in start + 1..end : journal.log[i].id = r}
LastOp(start, end, r) == journal.log[Newest(Between(start, end, r))].op

(* _bootstrap_measurement_ids: keys beyond those of the copy, and recent hours. *)
Bootstrapped(copy) ==
    {r \in Present(live) : r > TopId(bases[copy].rows) \/ epoch[r] >= copy}

(* A plausible bug: takes the new keys and forgets the recent hours. *)
BootstrappedByKey(copy) == {r \in Present(live) : r > TopId(bases[copy].rows)}

Captured(p) ==
    LET start == ctx[p].chain.end
        first == ~chains[ctx[p].base].made
    IN  [r \in Ids |->
            IF Between(start, End, r) # {} /\ LastOp(start, End, r) = "delete" THEN Absent
            ELSE IF Between(start, End, r) # {} \/ (first /\ r \in Bootstrapped(ctx[p].base))
                 THEN live[r]
            ELSE Kept]

(* One read transaction: the end of the journal and the rows belong together. *)
ReadDelta(p) ==
    /\ at[p] = "read"
    /\ ctx' = [ctx EXCEPT ![p] = [@ EXCEPT !.delta = Captured(p), !.to = End]]
    /\ Reach(p, "publish")
    /\ UNCHANGED <<database, files, making>>

PublishDelta(p) ==
    /\ at[p] = "publish"
    /\ chains' = [chains EXCEPT ![ctx[p].base] =
                    [made |-> TRUE, deltas |-> Append(ctx[p].chain.deltas, ctx[p].delta),
                     end |-> ctx[p].to]]
    /\ Reach(p, "idle") /\ ctx' = [ctx EXCEPT ![p] = NoContext]
    /\ UNCHANGED <<database, bases, pointer, current, making>>

-----------------------------------------------------------------------------
(* apply_compaction: the preflight, the rollback record and the new database. *)
CompactStart(p) ==
    /\ at[p] = "idle" /\ Resolves /\ Len(bases) < MaxBases
    /\ journal.on /\ End = chains[pointer].end /\ chains[pointer].deltas # <<>>
    /\ bases' = Append(bases, [bases[pointer] EXCEPT
                    !.rows = Compacted(bases[pointer].rows, chains[pointer].deltas),
                    !.present = FALSE])
    /\ ctx' = [ctx EXCEPT ![p] = [Resolved EXCEPT !.new = Len(bases) + 1]]
    /\ Reach(p, "check")
    /\ UNCHANGED <<database, chains, pointer, current, making>>

(* Compared with the layered view; pointer, chain and journal have not moved. *)
CompactCheck(p) ==
    /\ at[p] = "check" /\ Resolves
    /\ bases[ctx[p].new].rows = View(pointer)
    /\ pointer = ctx[p].base /\ chains[pointer] = ctx[p].chain
    /\ End = ctx[p].chain.end
    /\ Reach(p, "chain")
    /\ UNCHANGED <<database, files, making, ctx>>

(* A plausible bug: the chain of the new copy starts at the journal's end. *)
CompactChainAtEnd(p) ==
    /\ at[p] = "chain"
    /\ bases' = [bases EXCEPT ![ctx[p].new].present = TRUE]
    /\ chains' = [chains EXCEPT ![ctx[p].new] = [made |-> TRUE, deltas |-> <<>>, end |-> End]]
    /\ Reach(p, "switch")
    /\ UNCHANGED <<database, pointer, current, making, ctx>>

(* The new directory, then its chain, which starts where the old one ended. *)
CompactChain(p) ==
    /\ at[p] = "chain"
    /\ bases' = [bases EXCEPT ![ctx[p].new].present = TRUE]
    /\ chains' = [chains EXCEPT ![ctx[p].new] =
                    [made |-> TRUE, deltas |-> <<>>, end |-> ctx[p].chain.end]]
    /\ Reach(p, "switch")
    /\ UNCHANGED <<database, pointer, current, making, ctx>>

CompactSwitch(p) ==
    /\ at[p] = "switch"
    /\ pointer' = ctx[p].new
    /\ Reach(p, "record")
    /\ UNCHANGED <<database, bases, chains, current, making, ctx>>

CompactRecord(p) ==
    /\ at[p] = "record"
    /\ current' = [old |-> ctx[p].base, new |-> ctx[p].new, boundary |-> ctx[p].chain.end]
    /\ Reach(p, "idle") /\ ctx' = [ctx EXCEPT ![p] = NoContext]
    /\ UNCHANGED <<database, bases, chains, pointer, making>>

(* A plausible bug: does not look for deltas on the compacted copy. *)
RollbackUnguarded(p) ==
    /\ at[p] = "idle" /\ Resolves /\ current.new = pointer
    /\ bases[current.old].present
    /\ ctx' = [ctx EXCEPT ![p] = [Resolved EXCEPT !.new = current.old]]
    /\ Reach(p, "back")
    /\ UNCHANGED <<database, files, making>>

(* rollback_compaction: refused once a delta or a change has come after. *)
RollbackCheck(p) ==
    /\ at[p] = "idle" /\ Resolves /\ current.new = pointer
    /\ chains[pointer].deltas = <<>> /\ End = current.boundary
    /\ bases[current.old].present
    /\ ctx' = [ctx EXCEPT ![p] = [Resolved EXCEPT !.new = current.old]]
    /\ Reach(p, "back")
    /\ UNCHANGED <<database, files, making>>

RollbackSwitch(p) ==
    /\ at[p] = "back"
    /\ pointer' = ctx[p].new
    /\ Reach(p, "idle") /\ ctx' = [ctx EXCEPT ![p] = NoContext]
    /\ UNCHANGED <<database, bases, chains, current, making>>

(* An exception or a kill; nothing that is already in place is undone, and what    *)
(* is not yet in place no one will read.                                            *)
Stops(p) ==
    /\ at[p] # "idle"
    /\ Reach(p, "idle") /\ ctx' = [ctx EXCEPT ![p] = NoContext]
    /\ bases' = [c \in DOMAIN bases |->
                    IF c = ctx[p].new /\ ~bases[c].present THEN Gone ELSE bases[c]]
    /\ UNCHANGED <<database, chains, pointer, current, making>>

Step(p) ==
    \/ BuildStart(p) \/ InstallJournal(p) \/ ReadDelta(p) \/ PublishDelta(p)
    \/ CompactStart(p) \/ CompactCheck(p) \/ CompactChain(p) \/ CompactSwitch(p)
    \/ CompactRecord(p) \/ RollbackCheck(p) \/ RollbackSwitch(p) \/ Stops(p)

DatasetsNext ==
    \/ InsertRow \/ UpdateRow \/ DeleteRow
    \/ CreateStart \/ CreateCopy \/ CreatePoint \/ CreateEnd \/ CreateFails \/ Cleanup
    \/ \E p \in Procs : Step(p)

DatasetsSpec == DatasetsInit /\ [][DatasetsNext]_datasetsVars

-----------------------------------------------------------------------------
(* Up to where the data that the pointer names has followed the journal. *)
Boundary(copy) == IF chains[copy].made THEN chains[copy].end ELSE bases[copy].seq

(* fast_preflight_candidate relies on the journal's end alone: a row that has not *)
(* changed since the boundary reads in the layered view as it is in the live       *)
(* table, if the copy already had the journal, if the journal has the row, or if    *)
(* the bootstrap of the copy it goes back to must have taken it.  Whatever writers,  *)
(* copies, deltas, compactions, rollbacks, failures and the retention did before.    *)
ChainCovers ==
    Resolves =>
        \A r \in Ids :
            /\ Boundary(pointer) >= 0
            /\ Between(Boundary(pointer), End, r) = {}
            /\ \/ bases[pointer].seq >= 0
               \/ Between(0, End, r) # {}
               \/ live[r] # Absent /\ (r > bases[pointer].top \/ epoch[r] >= bases[pointer].since)
            => View(pointer)[r] = live[r]

(* The compaction ("switch after full verification") and its rollback change where *)
(* the training data lies and never what it says, unless another copy or delta has  *)
(* come between the checks and the switch, or retention has taken one of the copies. *)
SwitchKeepsView ==
    [][\A p \in Procs :
          (/\ at[p] \in {"switch", "back"} /\ pointer' # pointer /\ at'[p] # at[p]
           /\ pointer = ctx[p].base /\ chains[pointer] = ctx[p].chain
           /\ Resolves /\ Resolves')
          => View(pointer)' = View(pointer)]_datasetsVars

(* The invariants of the datasets in one: their types and the coverage of a chain. *)
DatasetsSafe == DatasetsTypeOK /\ ChainCovers
==============================================================================
