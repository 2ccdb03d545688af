------------------------------ MODULE Migration ------------------------------
(***************************************************************************)
(* cmd/migration and the start of cmd/main, as every pod runs them one     *)
(* after the other: the schema is stepped up to TargetSchemaVersion, code  *)
(* runs with some of the steps, an OpenFGA store and authorization model   *)
(* are made sure of and recorded in fga_migrations, and then the server    *)
(* uses the store it finds recorded.  Pods crash and are restarted, and    *)
(* several of them may start at once.                                      *)
(*                                                                         *)
(* golang-migrate and every write use the primary database.  The two reads *)
(* of fga_migrations are sent to the replica, where one is configured.     *)
(***************************************************************************)
EXTENDS Naturals, Sequences, FiniteSets

CONSTANTS
  Pods,         \* the pods of the deployment
  Deployments,  \* what it may start from: a schema version, how many stores
                \* earlier releases have left in OpenFGA (recorded in
                \* fga_migrations since FGAVersion), and whether
                \* Database.Replica.Host is configured
  MaxFaults     \* bound: how often a pod crashes, runFGAMigration's SELECT
                \* fails, or cmd/main panics for want of a record

TargetSchemaVersion == 6
FGAVersion          == 6   \* the version CodeMigrator has code for

ASSUME MigrationAssumption ==
  /\ Deployments \subseteq [version : 0..TargetSchemaVersion, stores : Nat, replica : BOOLEAN]
  /\ \A d \in Deployments : d.version >= FGAVersion => d.stores > 0
  /\ MaxFaults \in Nat

VARIABLES
  installed,  \* what the deployment has started from; never changes
  version,  \* schema_migrations.version
  dirty,    \* schema_migrations.dirty
  rows,     \* fga_migrations: the recorded stores, each with its model
  replica,  \* fga_migrations as reads have it; empty while the replica does
            \* not have the table
  wal,      \* what rows has become that the replica has yet to take, oldest
            \* first
  stores,   \* OpenFGA: how many stores there are, numbered in order of creation
  models,   \* OpenFGA: the stores that hold the current authorization model
  pc,       \* what each pod does next
  step,     \* local variable step of runMigration
  found,    \* local variable existingFgaMigration of runFGAMigration
  using,    \* the record each server has started with
  faults    \* how many of the MaxFaults have happened

schemaVars == <<version, dirty>>
tableVars  == <<rows, replica, wal>>
fgaVars    == <<stores, models>>
podVars    == <<pc, step, found, using>>
setup      == <<installed, faults>>
vars       == <<schemaVars, tableVars, fgaVars, podVars, setup>>

\* A record's model is "" at first, "stale" if an older release wrote it.
Models == {"", "stale", "current"}
Record == [store : Nat, model : Models]
NoRecord == [store |-> 0, model |-> ""]

PC == {"start", "steps", "applying", "version", "code", "codeInsert", "fgaRead",
       "createStore", "insertStore", "writeModel", "recordModel", "serve",
       "serving", "panicked"}

Init ==
  /\ installed \in Deployments
  /\ version = installed.version
  /\ dirty = FALSE
  /\ rows = IF installed.version >= FGAVersion
            THEN [store : 1..installed.stores, model : {"stale"}] ELSE {}
  /\ replica = rows
  /\ wal = <<>>
  /\ stores = installed.stores
  /\ models = {}
  /\ pc = [p \in Pods |-> "start"]
  /\ step = [p \in Pods |-> 0]
  /\ found = [p \in Pods |-> NoRecord]
  /\ using = [p \in Pods |-> NoRecord]
  /\ faults = 0

Goto(p, label) == pc' = [pc EXCEPT ![p] = label]

Fault ==
  /\ faults < MaxFaults
  /\ faults' = faults + 1

-----------------------------------------------------------------------------
\* The database: without a replica, reads are answered by the primary.

Commit(new) ==
  /\ rows' = new
  /\ IF installed.replica
     THEN wal' = Append(wal, new) /\ UNCHANGED replica
     ELSE replica' = new /\ UNCHANGED wal

Replicate ==
  /\ wal # <<>>
  /\ replica' = Head(wal)
  /\ wal' = Tail(wal)
  /\ UNCHANGED <<schemaVars, rows, fgaVars, podVars, setup>>

-----------------------------------------------------------------------------
\* runMigration: the schema

\* A mutant of AtTarget: off by one.
AtTargetExceeded(v) == TargetSchemaVersion < v

\* The loop's test.
AtTarget(v) == TargetSchemaVersion <= v

ReadVersion(p) ==
  /\ pc[p] = "start"
  /\ step' = [step EXCEPT ![p] = version]
  /\ Goto(p, IF dirty THEN "panicked"
             ELSE IF AtTarget(version) THEN "fgaRead" ELSE "steps")
  /\ UNCHANGED <<schemaVars, tableVars, fgaVars, found, using, setup>>

\* m.Steps(1) of golang-migrate takes the database's lock, refuses a dirty
\* database, and fails when there is no next version; it marks the next version
\* dirty, runs its SQL, and cleans the mark.
StepBegin(p) ==
  /\ pc[p] = "steps"
  /\ \A q \in Pods : pc[q] # "applying"
  /\ \/ /\ dirty \/ version = TargetSchemaVersion
        /\ Goto(p, "panicked")
        /\ UNCHANGED schemaVars
     \/ /\ ~dirty /\ version < TargetSchemaVersion
        /\ version' = version + 1
        /\ dirty' = TRUE
        /\ Goto(p, "applying")
  /\ UNCHANGED <<tableVars, fgaVars, step, found, using, setup>>

StepEnd(p) ==
  /\ pc[p] = "applying"
  /\ dirty' = FALSE
  /\ Goto(p, "version")
  /\ UNCHANGED <<version, tableVars, fgaVars, step, found, using, setup>>

\* The version is read again: another pod may have stepped on meanwhile.
ReadStep(p) ==
  /\ pc[p] = "version"
  /\ step' = [step EXCEPT ![p] = version]
  /\ Goto(p, "code")
  /\ UNCHANGED <<schemaVars, tableVars, fgaVars, found, using, setup>>

\* execCode(step): CodeMigrator.Migrate lists the stores of OpenFGA at version 6
\* and does nothing at the others.
NextStep(p) == Goto(p, IF AtTarget(step[p]) THEN "fgaRead" ELSE "steps")

ExecCode(p) ==
  /\ pc[p] = "code"
  /\ IF step[p] = FGAVersion /\ stores > 0
     THEN Goto(p, "codeInsert")
     ELSE NextStep(p)
  /\ UNCHANGED <<schemaVars, tableVars, fgaVars, step, found, using, setup>>

\* A mutant of CodeInsert: it replaces what is recorded.
CodeInsertReplacing(p) ==
  /\ pc[p] = "codeInsert"
  /\ Commit({[store |-> 1, model |-> ""]})
  /\ NextStep(p)
  /\ UNCHANGED <<schemaVars, fgaVars, step, found, using, setup>>

\* INSERT of the first store, without a model; (store, model) is the key.
CodeInsert(p) ==
  /\ pc[p] = "codeInsert"
  /\ LET legacy == [store |-> 1, model |-> ""]
     IN  \/ /\ legacy \in rows
            /\ Goto(p, "panicked")
            /\ UNCHANGED tableVars
         \/ /\ legacy \notin rows
            /\ Commit(rows \cup {legacy})
            /\ NextStep(p)
  /\ UNCHANGED <<schemaVars, fgaVars, step, found, using, setup>>

-----------------------------------------------------------------------------
\* runFGAMigration: the store and the model

\* A mutant of WithRecord: the hash of the model is not compared.
WithRecordUnhashed(p, r) ==
  /\ found' = [found EXCEPT ![p] = r]
  /\ Goto(p, IF r.model # "" THEN "serve" ELSE "writeModel")

\* What follows once existingFgaMigration is r.
WithRecord(p, r) ==
  /\ found' = [found EXCEPT ![p] = r]
  /\ Goto(p, IF r.model = "current" THEN "serve" ELSE "writeModel")

\* SELECT ... LIMIT 1, in no order.  One that fails is taken for one that finds
\* nothing.
FGARead(p) ==
  /\ pc[p] = "fgaRead"
  /\ \/ (\E r \in replica : WithRecord(p, r)) /\ UNCHANGED faults
     \/ replica = {} /\ Goto(p, "createStore") /\ UNCHANGED <<found, faults>>
     \/ Fault /\ Goto(p, "createStore") /\ UNCHANGED found
  /\ UNCHANGED <<schemaVars, tableVars, fgaVars, step, using, installed>>

\* A mutant of CreateStore: its error is dropped.
CreateStoreUnchecked(p) ==
  /\ pc[p] = "createStore"
  /\ found' = [found EXCEPT ![p] = [store |-> stores + 1, model |-> ""]]
  /\ Goto(p, "insertStore")
  /\ UNCHANGED <<schemaVars, tableVars, fgaVars, step, using, setup>>

CreateStore(p) ==
  /\ pc[p] = "createStore"
  /\ stores' = stores + 1
  /\ found' = [found EXCEPT ![p] = [store |-> stores + 1, model |-> ""]]
  /\ Goto(p, "insertStore")
  /\ UNCHANGED <<schemaVars, tableVars, models, step, using, setup>>

\* A mutant of InsertStore: it records the model that is to be written next.
InsertStoreWithModel(p) ==
  /\ pc[p] = "insertStore"
  /\ Commit(rows \cup {[found[p] EXCEPT !.model = "current"]})
  /\ WithRecord(p, found[p])
  /\ UNCHANGED <<schemaVars, fgaVars, step, using, setup>>

InsertStore(p) ==
  /\ pc[p] = "insertStore"
  /\ Commit(rows \cup {found[p]})
  /\ WithRecord(p, found[p])
  /\ UNCHANGED <<schemaVars, fgaVars, step, using, setup>>

WriteModel(p) ==
  /\ pc[p] = "writeModel"
  /\ models' = models \cup {found[p].store}
  /\ Goto(p, "recordModel")
  /\ UNCHANGED <<schemaVars, tableVars, stores, step, found, using, setup>>

\* UPDATE ... WHERE store_id sets the new model in every record of the store,
\* and violates the key when there are two.
RecordModel(p) ==
  /\ pc[p] = "recordModel"
  /\ LET ours == {r \in rows : r.store = found[p].store}
     IN  \/ /\ Cardinality(ours) > 1
            /\ Goto(p, "panicked")
            /\ UNCHANGED tableVars
         \/ /\ Cardinality(ours) = 1
            /\ Commit((rows \ ours)
                        \cup {[store |-> found[p].store, model |-> "current"]})
            /\ Goto(p, "serve")
  /\ UNCHANGED <<schemaVars, fgaVars, step, found, using, setup>>

-----------------------------------------------------------------------------
\* cmd/main

\* A mutant of Serve: the records come in no order.
ServeAny(p) ==
  /\ pc[p] = "serve"
  /\ \/ /\ \E r \in replica : using' = [using EXCEPT ![p] = r]
        /\ Goto(p, "serving")
        /\ UNCHANGED faults
     \/ replica = {} /\ Fault /\ Goto(p, "panicked") /\ UNCHANGED using
  /\ UNCHANGED <<schemaVars, tableVars, fgaVars, step, found, installed>>

\* GetFGAMigrationData takes the first record by store_id, whatever model it has.
\* Without a record cmd/main panics: the pod is started again, or cmd/main alone,
\* which then looks again (a step that changes nothing).
Serve(p) ==
  /\ pc[p] = "serve"
  /\ \/ /\ \E r \in replica :
             /\ \A s \in replica : r.store <= s.store
             /\ using' = [using EXCEPT ![p] = r]
        /\ Goto(p, "serving")
        /\ UNCHANGED faults
     \/ replica = {} /\ Fault /\ Goto(p, "panicked") /\ UNCHANGED using
  /\ UNCHANGED <<schemaVars, tableVars, fgaVars, step, found, installed>>

-----------------------------------------------------------------------------
\* The orchestrator

Restarted(p) ==
  /\ Goto(p, "start")
  /\ step' = [step EXCEPT ![p] = 0]
  /\ found' = [found EXCEPT ![p] = NoRecord]
  /\ using' = [using EXCEPT ![p] = NoRecord]
  /\ UNCHANGED <<schemaVars, tableVars, fgaVars>>

\* A process that panicked is started again, from its first command.
Restart(p) ==
  /\ pc[p] = "panicked"
  /\ Restarted(p)
  /\ UNCHANGED setup

\* A crash at any point, half-way through the SQL of a step included.
Crash(p) ==
  /\ Fault
  /\ pc[p] \notin {"start", "panicked"}
  /\ Restarted(p)
  /\ UNCHANGED installed

Run(p) ==
  \/ ReadVersion(p) \/ StepBegin(p) \/ StepEnd(p) \/ ReadStep(p) \/ ExecCode(p)
  \/ CodeInsert(p) \/ FGARead(p) \/ CreateStore(p) \/ InsertStore(p)
  \/ WriteModel(p) \/ RecordModel(p) \/ Serve(p) \/ Restart(p)

Next ==
  \/ \E p \in Pods : Run(p) \/ Crash(p)
  \/ Replicate

Spec == Init /\ [][Next]_vars

\* Every pod that can take a step is eventually scheduled, and restarted; the
\* replica catches up.
FairSpec ==
  /\ Spec
  /\ \A p \in Pods : WF_vars(Run(p))
  /\ WF_vars(Replicate)

-----------------------------------------------------------------------------
\* Properties

\* Every variable has its type, and stores are counted.
TypeOK ==
  /\ installed \in Deployments
  /\ version \in 0..TargetSchemaVersion
  /\ dirty \in BOOLEAN
  /\ rows \in SUBSET Record
  /\ replica \in SUBSET Record
  /\ wal \in Seq(SUBSET Record)
  /\ stores \in Nat
  /\ models \subseteq 1..stores
  /\ pc \in [Pods -> PC]
  /\ step \in [Pods -> 0..TargetSchemaVersion]
  /\ found \in [Pods -> Record]
  /\ using \in [Pods -> Record]
  /\ faults \in 0..MaxFaults

\* As long as fga_migrations has one record, whichever pod wrote it and whatever
\* crashes came before, a server that starts uses a store that holds the current
\* model, and checks permissions by that model: only when the replica does not
\* have the record as it is may it start on a model of an older release, or on
\* none.  (It keeps to that until it is restarted.)
ServesReadyStore ==
  [][\A p \in Pods :
       pc[p] = "serve" /\ pc'[p] = "serving" /\ Cardinality(rows) = 1 =>
         /\ using'[p].store \in models
         /\ using'[p].model = "current" \/ replica # rows]_vars

\* Where an earlier deployment has recorded its stores, all servers, before and
\* after crashes, use one store: the permissions written through one are those
\* the others check.  (runFGAMigration may have updated another.)
ServersAgree ==
  [][\A p, q \in Pods :
       installed.version >= FGAVersion /\ pc[p] = "serving" /\ pc'[q] = "serving"
         => using[p].store = using'[q].store]_vars

\* A record is never lost and never goes back: a model once recorded stays.
RecordsKept ==
  [][\A r \in rows : \E s \in rows' :
       s.store = r.store /\ (r.model = "current" => s.model = "current")]_vars

\* Every pod gets to serve, unless a crash has left the schema dirty, from
\* where only an operator leads out (runMigration panics), or the code of
\* version 6 has run twice, after which RecordModel panics.
PodsServe ==
  \A p \in Pods :
    \/ <>[](pc[p] = "serving")
    \/ <>[]dirty
    \/ <>[](\E r, s \in rows : r # s /\ r.store = s.store)
=============================================================================
