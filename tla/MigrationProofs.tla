-------------------------- MODULE MigrationProofs --------------------------
(***************************************************************************)
(* Theorems about Migration, for any number of pods and crashes, and       *)
(* whatever the deployment starts from.                                    *)
(***************************************************************************)
EXTENDS Migration, FiniteSetTheorems, TLAPS

-----------------------------------------------------------------------------
\* The inductive invariant

\* fga_migrations as a read may find it, now or later.
Tables == {rows, replica} \cup {wal[i] : i \in DOMAIN wal}

\* A store with a number has been created: those recorded, the one a pod has
\* at hand, and the legacy one that CodeInsert is about to record.
StoresExist ==
  /\ \A t \in Tables : \A r \in t : r.store \in 1..stores
  /\ \A p \in Pods :
       /\ pc[p] \in {"insertStore", "writeModel", "recordModel"} =>
            found[p].store \in 1..stores
       /\ pc[p] = "codeInsert" => stores > 0

\* A model is recorded after it has been written.
ModelsWritten ==
  /\ \A t \in Tables : \A r \in t : r.model = "current" => r.store \in models
  /\ \A p \in Pods :
       /\ pc[p] = "insertStore" => found[p].model = ""
       /\ pc[p] = "recordModel" => found[p].store \in models

\* A table has the records of another, one that is as old or older.
Keeps(table, older) ==
  \A r \in older : \E s \in table :
    s.store = r.store /\ (r.model = "current" => s.model = "current")

\* However old the table that is read, what it has is recorded still.
StoresKept == \A t \in Tables : Keeps(rows, t)

\* A pod that has run runFGAMigration has left a record with the model, its own
\* or another pod's.
MigratedFirst ==
  \A p \in Pods :
    pc[p] \in {"serve", "serving"} => \E r \in rows : r.model = "current"

\* Where stores were recorded before, the oldest is the first store, and every
\* server has started with it.
OldestIsFirst ==
  installed.version >= FGAVersion =>
    /\ \A t \in Tables : \E r \in t : r.store = 1
    /\ \A p \in Pods : pc[p] = "serving" => using[p].store = 1

MigrationInv ==
  /\ TypeOK
  /\ IsFiniteSet(rows)
  /\ StoresExist
  /\ ModelsWritten
  /\ StoresKept
  /\ MigratedFirst
  /\ OldestIsFirst

-----------------------------------------------------------------------------
\* Lemmas

LEMMA RecordType ==
  ASSUME NEW n \in Nat, NEW m \in Models
  PROVE  [store |-> n, model |-> m] \in Record
  BY DEF Record

\* What is committed is, besides what was there, what may be read from now on.
LEMMA CommitTables ==
  ASSUME TypeOK, NEW new \in SUBSET Record, Commit(new)
  PROVE  /\ rows' = new /\ replica' \in SUBSET Record /\ wal' \in Seq(SUBSET Record)
         /\ \A t \in Tables' : t = new \/ t \in Tables
<1>1. wal \in Seq(SUBSET Record) /\ replica \in SUBSET Record
  BY DEF TypeOK
<1>2. CASE installed.replica
  <2>1. rows' = new /\ wal' = Append(wal, new) /\ replica' = replica
    BY <1>2 DEF Commit
  <2>2. /\ wal' \in Seq(SUBSET Record) /\ DOMAIN wal' = 1..(Len(wal) + 1)
        /\ DOMAIN wal = 1..Len(wal)
        /\ \A i \in DOMAIN wal' : wal'[i] = new \/ (i \in DOMAIN wal /\ wal'[i] = wal[i])
    BY <1>1, <2>1
  <2> QED
    BY <1>1, <2>1, <2>2 DEF Tables
<1>3. CASE ~installed.replica
  BY <1>1, <1>3 DEF Commit, Tables
<1> QED
  BY <1>2, <1>3

\* The replica takes what was to be read later.
LEMMA ReplicateTables ==
  ASSUME TypeOK, Replicate
  PROVE  /\ rows' = rows /\ replica' \in SUBSET Record /\ wal' \in Seq(SUBSET Record)
         /\ Tables' \subseteq Tables
<1>1. /\ wal \in Seq(SUBSET Record) /\ wal # <<>>
      /\ rows' = rows /\ replica' = Head(wal) /\ wal' = Tail(wal)
  BY DEF TypeOK, Replicate
<1>2. /\ 1 \in DOMAIN wal /\ Head(wal) = wal[1] /\ Head(wal) \in SUBSET Record
      /\ Tail(wal) \in Seq(SUBSET Record)
      /\ \A i \in DOMAIN Tail(wal) : i + 1 \in DOMAIN wal /\ Tail(wal)[i] = wal[i + 1]
  BY <1>1
<1> QED
  BY <1>1, <1>2 DEF Tables

LEMMA SameTables ==
  ASSUME UNCHANGED tableVars
  PROVE  Tables' = Tables /\ rows' = rows /\ replica' = replica /\ wal' = wal
  BY DEF Tables, tableVars

\* What the deployment starts from has one record of each store.
LEMMA InitInv == Init => MigrationInv
<1> SUFFICES ASSUME Init PROVE MigrationInv
  OBVIOUS
<1> USE MigrationAssumption DEF FGAVersion
<1>1. /\ installed \in Deployments /\ version = installed.version
      /\ stores = installed.stores /\ stores \in Nat
      /\ version \in 0..TargetSchemaVersion /\ models = {}
      /\ \A p \in Pods : pc[p] = "start"
      /\ replica = rows /\ wal = <<>> /\ Tables = {rows}
  BY DEF Init, Tables
<1>4. ASSUME rows \subseteq Record PROVE TypeOK
  <2>1. /\ pc \in [Pods -> PC] /\ step \in [Pods -> 0..TargetSchemaVersion]
        /\ faults \in 0..MaxFaults
    BY DEF Init, PC, TargetSchemaVersion
  <2>3. dirty \in BOOLEAN
    BY DEF Init
  <2>2. found \in [Pods -> Record] /\ using \in [Pods -> Record]
    BY DEF Init, NoRecord, Record, Models
  <2> QED
    BY <1>1, <1>4, <2>1, <2>2, <2>3 DEF TypeOK
<1>5. StoresKept
  BY <1>1 DEF StoresKept, Keeps
<1>2. CASE installed.version >= FGAVersion
  <2> DEFINE f == [i \in 1..stores |-> [store |-> i, model |-> "stale"]]
  <2>1. rows = [store : 1..stores, model : {"stale"}] /\ stores > 0
    BY <1>1, <1>2 DEF Init
  <2>2. f \in Surjection(1..stores, rows)
    <3>1. \A i \in 1..stores : f[i] \in rows
      BY <2>1
    <3>2. ASSUME NEW r \in rows PROVE r.store \in 1..stores /\ f[r.store] = r
      BY <2>1
    <3>3. f \in [1..stores -> rows]
      BY <3>1
    <3>4. \A r \in rows : \E i \in 1..stores : f[i] = r
      BY <3>2
    <3> QED
      BY <3>3, <3>4 DEF Surjection
  <2>3. IsFiniteSet(rows)
    <3>1. IsFiniteSet(1..stores)
      BY <1>1, FS_Interval
    <3> QED
      BY <2>2, <3>1, FS_Surjection
  <2>4. \E r \in rows : r.store = 1
    <3>1. [store |-> 1, model |-> "stale"] \in rows
      BY <1>1, <2>1
    <3> QED
      BY <3>1
  <2> HIDE DEF f
  <2>5. TypeOK
    <3>1. ASSUME NEW r \in [store : 1..stores, model : {"stale"}] PROVE r \in Record
      <4>1. r.store \in Nat /\ r.model = "stale"
        BY <1>1, <3>1
      <4>2. r = [store |-> r.store, model |-> r.model]
        BY <3>1
      <4> QED
        BY <4>1, <4>2, RecordType DEF Models
    <3> QED
      BY <1>4, <2>1, <3>1
  <2>6. \A r \in rows : r.store \in 1..stores /\ r.model = "stale"
    BY <2>1
  <2>7. StoresExist /\ ModelsWritten
    BY <1>1, <2>6 DEF StoresExist, ModelsWritten
  <2> QED
    BY <1>1, <1>5, <2>3, <2>4, <2>5, <2>7
       DEF MigrationInv, MigratedFirst, OldestIsFirst
<1>3. CASE ~(installed.version >= FGAVersion)
  <2>1. rows = {}
    BY <1>1, <1>3 DEF Init
  <2>2. TypeOK
    BY <1>4, <2>1
  <2> QED
    BY <1>1, <1>3, <1>5, <2>1, <2>2, FS_EmptySet
       DEF MigrationInv, StoresExist, ModelsWritten, MigratedFirst, OldestIsFirst
<1> QED
  BY <1>2, <1>3

\* A step that adds nothing to what may be read and leaves OpenFGA alone, of a
\* pod p that is not left where something must have happened.
LEMMA QuietStep ==
  ASSUME MigrationInv, TypeOK', Tables' \subseteq Tables, UNCHANGED <<rows, fgaVars, installed>>,
         NEW p \in Pods,
         pc'[p] \notin {"codeInsert", "insertStore", "writeModel", "recordModel",
                       "serve", "serving"},
         \A q \in Pods \ {p} :
           pc'[q] = pc[q] /\ found'[q] = found[q] /\ using'[q] = using[q]
  PROVE  MigrationInv'
<1>1. StoresExist' /\ ModelsWritten' /\ StoresKept'
  BY DEF MigrationInv, StoresExist, ModelsWritten, StoresKept, fgaVars
<1>2. MigratedFirst' /\ OldestIsFirst'
  BY DEF MigrationInv, MigratedFirst, OldestIsFirst, fgaVars
<1> QED
  BY <1>1, <1>2 DEF MigrationInv

\* A write that keeps what is recorded: what is true of every table.
LEMMA WriteTables ==
  ASSUME MigrationInv, Keeps(rows', rows), UNCHANGED <<fgaVars, installed>>,
         \A t \in Tables' : t \in Tables \/ t = rows',
         \A s \in rows' : s.store \in 1..stores /\ (s.model = "current" => s.store \in models)
  PROVE  /\ \A t \in Tables' : \A s \in t :
              s.store \in 1..stores' /\ (s.model = "current" => s.store \in models')
         /\ StoresKept'
         /\ installed'.version >= FGAVersion => \A t \in Tables' : \E s \in t : s.store = 1
         /\ (\E s \in rows : s.model = "current") => \E s \in rows' : s.model = "current"
<1>1. \A t \in Tables' : \A s \in t :
        s.store \in 1..stores' /\ (s.model = "current" => s.store \in models')
  BY DEF MigrationInv, StoresExist, ModelsWritten, fgaVars
<1>2. StoresKept'
  BY DEF MigrationInv, StoresKept, Keeps
<1>3. installed'.version >= FGAVersion => \A t \in Tables' : \E s \in t : s.store = 1
  BY DEF MigrationInv, OldestIsFirst, Keeps, Tables
<1> QED
  BY <1>1, <1>2, <1>3 DEF Keeps

\* A pod that goes on with the record r, which it has read or inserted.
LEMMA WithRecordInv ==
  ASSUME MigrationInv, NEW p \in Pods, NEW r \in Record, WithRecord(p, r), TypeOK',
         IsFiniteSet(rows'), Keeps(rows', rows),
         \A t \in Tables' : t \in Tables \/ t = rows',
         \A s \in rows' \cup {r} :
           s.store \in 1..stores /\ (s.model = "current" => s.store \in models),
         r.model = "current" => \E s \in rows' : s.model = "current",
         UNCHANGED <<fgaVars, using, installed>>
  PROVE  MigrationInv'
<1>1. /\ pc' = [pc EXCEPT ![p] = pc'[p]] /\ pc'[p] \in {"serve", "writeModel"}
      /\ found' = [found EXCEPT ![p] = r]
      /\ pc'[p] = "serve" => r.model = "current"
      /\ pc \in [Pods -> PC] /\ found \in [Pods -> Record]
  BY DEF WithRecord, Goto, MigrationInv, TypeOK
<1>2. /\ \A t \in Tables' : \A s \in t :
           s.store \in 1..stores' /\ (s.model = "current" => s.store \in models')
      /\ StoresKept'
      /\ installed'.version >= FGAVersion => \A t \in Tables' : \E s \in t : s.store = 1
      /\ (\E s \in rows : s.model = "current") => \E s \in rows' : s.model = "current"
  BY WriteTables
<1>3. \A q \in Pods \ {p} : pc'[q] = pc[q] /\ found'[q] = found[q]
  BY <1>1
<1>4. StoresExist' /\ ModelsWritten'
  BY <1>1, <1>2, <1>3 DEF MigrationInv, StoresExist, ModelsWritten, fgaVars
<1>5. MigratedFirst' /\ OldestIsFirst'
  BY <1>1, <1>2, <1>3 DEF MigrationInv, MigratedFirst, OldestIsFirst
<1> QED
  BY <1>2, <1>4, <1>5 DEF MigrationInv

LEMMA NextInv == MigrationInv /\ [Next]_vars => MigrationInv'
<1> SUFFICES ASSUME MigrationInv, [Next]_vars PROVE MigrationInv'
  OBVIOUS
<1> USE DEF Goto
<1>1. /\ TypeOK /\ stores \in Nat /\ IsFiniteSet(rows)
      /\ rows \in SUBSET Record /\ replica \in SUBSET Record
  BY DEF MigrationInv, TypeOK

\* The schema's steps.
<1>2. ASSUME NEW p \in Pods, ReadVersion(p) PROVE MigrationInv'
  <2>1. /\ pc'[p] \in {"panicked", "fgaRead", "steps"}
        /\ pc' = [pc EXCEPT ![p] = pc'[p]]
        /\ step' = [step EXCEPT ![p] = version]
        /\ UNCHANGED <<schemaVars, tableVars, fgaVars, found, using, setup>>
    BY <1>1, <1>2 DEF ReadVersion, TypeOK
  <2>2. TypeOK'
    BY <1>1, <2>1 DEF TypeOK, PC, schemaVars, tableVars, fgaVars, setup
  <2> QED
    BY <1>1, <2>1, <2>2, QuietStep, SameTables DEF TypeOK, setup
<1>3. ASSUME NEW p \in Pods, StepBegin(p) PROVE MigrationInv'
  <2>1. /\ pc'[p] \in {"panicked", "applying"}
        /\ pc' = [pc EXCEPT ![p] = pc'[p]]
        /\ UNCHANGED <<tableVars, fgaVars, step, found, using, setup>>
    BY <1>1, <1>3 DEF StepBegin, TypeOK
  <2>2. version' \in 0..TargetSchemaVersion
    BY <1>1, <1>3 DEF StepBegin, TypeOK, schemaVars, TargetSchemaVersion
  <2>3. dirty' \in BOOLEAN
    BY <1>1, <1>3 DEF StepBegin, TypeOK, schemaVars
  <2>4. TypeOK'
    BY <1>1, <2>1, <2>2, <2>3 DEF TypeOK, PC, tableVars, fgaVars, setup
  <2> QED
    BY <1>1, <2>1, <2>4, QuietStep, SameTables DEF TypeOK, setup
<1>4. ASSUME NEW p \in Pods, StepEnd(p) PROVE MigrationInv'
  <2>1. /\ pc' = [pc EXCEPT ![p] = "version"] /\ dirty' \in BOOLEAN
        /\ UNCHANGED <<version, tableVars, fgaVars, step, found, using, setup>>
    BY <1>4 DEF StepEnd
  <2>2. TypeOK'
    BY <1>1, <2>1 DEF TypeOK, PC, tableVars, fgaVars, setup
  <2> QED
    BY <1>1, <2>1, <2>2, QuietStep, SameTables DEF TypeOK, setup
<1>5. ASSUME NEW p \in Pods, ReadStep(p) PROVE MigrationInv'
  <2>1. /\ pc' = [pc EXCEPT ![p] = "code"] /\ step' = [step EXCEPT ![p] = version]
        /\ UNCHANGED <<schemaVars, tableVars, fgaVars, found, using, setup>>
    BY <1>5 DEF ReadStep
  <2>2. TypeOK'
    BY <1>1, <2>1 DEF TypeOK, PC, schemaVars, tableVars, fgaVars, setup
  <2> QED
    BY <1>1, <2>1, <2>2, QuietStep, SameTables DEF TypeOK, setup
<1>6. ASSUME NEW p \in Pods, ExecCode(p) PROVE MigrationInv'
  <2>1. /\ pc' = [pc EXCEPT ![p] = pc'[p]]
        /\ pc'[p] \in {"codeInsert", "fgaRead", "steps"}
        /\ pc'[p] = "codeInsert" => stores > 0
        /\ UNCHANGED <<schemaVars, tableVars, fgaVars, step, found, using, setup>>
    BY <1>1, <1>6 DEF ExecCode, NextStep, TypeOK
  <2>2. TypeOK'
    BY <1>1, <2>1 DEF TypeOK, PC, schemaVars, tableVars, fgaVars, setup
  <2>3. CASE pc'[p] # "codeInsert"
    BY <1>1, <2>1, <2>2, <2>3, QuietStep, SameTables DEF TypeOK, setup
  <2>4. CASE pc'[p] = "codeInsert"
    <3>1. StoresExist' /\ ModelsWritten'
      BY <1>1, <2>1, <2>4, SameTables
         DEF MigrationInv, StoresExist, ModelsWritten, TypeOK, fgaVars
    <3>2. StoresKept' /\ MigratedFirst' /\ OldestIsFirst'
      BY <1>1, <2>1, <2>4, SameTables
         DEF MigrationInv, StoresKept, MigratedFirst, OldestIsFirst, TypeOK, setup
    <3> QED
      BY <1>1, <2>1, <2>2, <3>1, <3>2, SameTables DEF MigrationInv
  <2> QED
    BY <2>3, <2>4
<1>7. ASSUME NEW p \in Pods, CodeInsert(p) PROVE MigrationInv'
  <2> DEFINE legacy == [store |-> 1, model |-> ""]
  <2>1. /\ pc[p] = "codeInsert" /\ stores > 0
        /\ pc' = [pc EXCEPT ![p] = pc'[p]]
        /\ pc'[p] \in {"panicked", "fgaRead", "steps"}
        /\ UNCHANGED <<schemaVars, fgaVars, step, found, using, setup>>
    BY <1>1, <1>7 DEF CodeInsert, NextStep, TypeOK, MigrationInv, StoresExist
  <2>2. legacy \in Record /\ legacy.store = 1 /\ legacy.model = ""
    BY DEF Record, Models
  <2>3. UNCHANGED tableVars \/ Commit(rows \cup {legacy})
    BY <1>7 DEF CodeInsert
  <2> HIDE DEF legacy
  <2>4. CASE UNCHANGED tableVars
    <3>1. TypeOK'
      BY <1>1, <2>1, <2>4 DEF TypeOK, PC, schemaVars, tableVars, fgaVars, setup
    <3> QED
      BY <1>1, <2>1, <2>4, <3>1, QuietStep, SameTables DEF TypeOK, setup
  <2>5. CASE Commit(rows \cup {legacy})
    <3>1. /\ rows' = rows \cup {legacy}
          /\ replica' \in SUBSET Record /\ wal' \in Seq(SUBSET Record)
          /\ \A t \in Tables' : t = rows' \/ t \in Tables
      <4>1. rows \cup {legacy} \in SUBSET Record
        BY <1>1, <2>2
      <4> QED
        BY <1>1, <2>5, <4>1, CommitTables
    <3>2. IsFiniteSet(rows') /\ Keeps(rows', rows)
      BY <1>1, <3>1, FS_AddElement DEF Keeps
    <3>3. TypeOK'
      BY <1>1, <2>1, <2>2, <3>1 DEF TypeOK, PC, schemaVars, fgaVars, setup
    <3>4. \A s \in rows' : s.store \in 1..stores /\ (s.model = "current" => s.store \in models)
      <4>1. 1 \in 1..stores
        BY <1>1, <2>1
      <4> QED
        BY <2>2, <3>1, <4>1 DEF MigrationInv, StoresExist, ModelsWritten, Tables
    <3>5. /\ \A t \in Tables' : \A s \in t :
               s.store \in 1..stores' /\ (s.model = "current" => s.store \in models')
          /\ StoresKept'
          /\ installed'.version >= FGAVersion => \A t \in Tables' : \E s \in t : s.store = 1
          /\ (\E s \in rows : s.model = "current") => \E s \in rows' : s.model = "current"
      BY <2>1, <3>1, <3>2, <3>4, WriteTables DEF setup
    <3>6. \A q \in Pods :
            pc'[q] \in {"insertStore", "writeModel", "recordModel", "codeInsert", "serve",
                       "serving"} => pc'[q] = pc[q]
      BY <1>1, <2>1 DEF TypeOK
    <3>7. StoresExist' /\ ModelsWritten'
      BY <2>1, <3>5, <3>6 DEF MigrationInv, StoresExist, ModelsWritten, fgaVars
    <3>8. MigratedFirst' /\ OldestIsFirst'
      BY <2>1, <3>5, <3>6 DEF MigrationInv, MigratedFirst, OldestIsFirst, setup
    <3> QED
      BY <3>2, <3>3, <3>5, <3>7, <3>8 DEF MigrationInv
  <2> QED
    BY <2>3, <2>4, <2>5

\* The store and the model.
<1>8. ASSUME NEW p \in Pods, FGARead(p) PROVE MigrationInv'
  <2>1. /\ UNCHANGED <<schemaVars, tableVars, fgaVars, step, using, installed>>
        /\ faults' \in 0..MaxFaults
    BY <1>1, <1>8, MigrationAssumption DEF FGARead, Fault, TypeOK
  <2>2. ASSUME NEW r \in replica, WithRecord(p, r) PROVE MigrationInv'
    <3>1. r \in Record /\ replica \in Tables /\ rows \in Tables
      BY <1>1 DEF Tables
    <3>2. /\ pc' = [pc EXCEPT ![p] = pc'[p]] /\ pc'[p] \in {"serve", "writeModel"}
          /\ found' = [found EXCEPT ![p] = r]
      BY <1>1, <2>2 DEF WithRecord, TypeOK
    <3>3. TypeOK'
      BY <1>1, <2>1, <3>1, <3>2 DEF TypeOK, PC, schemaVars, tableVars, fgaVars
    <3>4. /\ \A s \in rows \cup {r} :
               s.store \in 1..stores /\ (s.model = "current" => s.store \in models)
          /\ r.model = "current" => \E s \in rows : s.model = "current"
      BY <2>2, <3>1 DEF MigrationInv, StoresExist, ModelsWritten, StoresKept, Keeps
    <3>5. Keeps(rows', rows) /\ rows' = rows /\ Tables' = Tables
      BY <2>1, SameTables DEF Keeps
    <3> QED
      BY <1>1, <2>1, <2>2, <3>1, <3>3, <3>4, <3>5, WithRecordInv
  <2>3. ASSUME Goto(p, "createStore"), UNCHANGED found PROVE MigrationInv'
    <3>1. TypeOK'
      BY <1>1, <2>1, <2>3 DEF TypeOK, PC, schemaVars, tableVars, fgaVars
    <3> QED
      BY <1>1, <2>1, <2>3, <3>1, QuietStep, SameTables DEF TypeOK
  <2> QED
    BY <1>8, <2>2, <2>3 DEF FGARead
<1>9. ASSUME NEW p \in Pods, CreateStore(p) PROVE MigrationInv'
  <2> DEFINE new == [store |-> stores + 1, model |-> ""]
  <2>1. /\ stores' = stores + 1 /\ pc' = [pc EXCEPT ![p] = "insertStore"]
        /\ found' = [found EXCEPT ![p] = new]
        /\ UNCHANGED <<schemaVars, tableVars, models, step, using, setup>>
    BY <1>9 DEF CreateStore
  <2>2. new \in Record /\ new.store = stores + 1 /\ new.model = ""
    <3>1. stores + 1 \in Nat /\ "" \in Models
      BY <1>1 DEF Models
    <3>2. new \in Record
      BY <3>1, RecordType
    <3> QED
      BY <3>2
  <2> HIDE DEF new
  <2>3. stores' \in Nat /\ 1..stores \subseteq 1..stores' /\ stores + 1 \in 1..stores'
    BY <1>1, <2>1
  <2>4. TypeOK'
    BY <1>1, <2>1, <2>2, <2>3 DEF TypeOK, PC, schemaVars, tableVars, setup
  <2>5. StoresExist' /\ ModelsWritten'
    <3>1. /\ pc'[p] = "insertStore" /\ found'[p] = new
          /\ \A q \in Pods \ {p} : pc'[q] = pc[q] /\ found'[q] = found[q]
      BY <1>1, <2>1 DEF TypeOK
    <3>2. \A q \in Pods : pc'[q] = "codeInsert" => stores' > 0
      BY <1>1, <2>1, <3>1 DEF MigrationInv, StoresExist
    <3>3. StoresExist'
      <4>1. \A t \in Tables' : \A r \in t : r.store \in 1..stores'
        BY <2>1, <2>3, SameTables DEF MigrationInv, StoresExist
      <4>2. ASSUME NEW q \in Pods, pc'[q] \in {"insertStore", "writeModel", "recordModel"}
            PROVE  found'[q].store \in 1..stores'
        BY <2>2, <2>3, <3>1, <4>2 DEF MigrationInv, StoresExist
      <4> QED
        BY <3>2, <4>1, <4>2 DEF StoresExist
    <3>4. ModelsWritten'
      <4>1. Tables' = Tables /\ models' = models
        BY <2>1, SameTables
      <4>2. ASSUME NEW q \in Pods
            PROVE  /\ pc'[q] = "insertStore" => found'[q].model = ""
                   /\ pc'[q] = "recordModel" => found'[q].store \in models'
        <5>1. CASE q = p
          BY <2>2, <3>1, <5>1
        <5>2. CASE q # p
          <6>1. pc'[q] = pc[q] /\ found'[q] = found[q]
            BY <3>1, <5>2
          <6> QED
            BY <4>1, <6>1 DEF MigrationInv, ModelsWritten
        <5> QED
          BY <5>1, <5>2
      <4> QED
        BY <4>1, <4>2 DEF MigrationInv, ModelsWritten
    <3> QED
      BY <3>3, <3>4
  <2>6. StoresKept' /\ MigratedFirst' /\ OldestIsFirst'
    BY <1>1, <2>1, SameTables
       DEF MigrationInv, StoresKept, MigratedFirst, OldestIsFirst, TypeOK, setup
  <2> QED
    BY <1>1, <2>1, <2>4, <2>5, <2>6, SameTables DEF MigrationInv
<1>10. ASSUME NEW p \in Pods, InsertStore(p) PROVE MigrationInv'
  <2>1. /\ pc[p] = "insertStore" /\ Commit(rows \cup {found[p]}) /\ WithRecord(p, found[p])
        /\ UNCHANGED <<schemaVars, fgaVars, step, using, setup>>
    BY <1>10 DEF InsertStore
  <2>2. found[p] \in Record /\ found[p].store \in 1..stores /\ found[p].model = ""
    BY <1>1, <2>1 DEF TypeOK, MigrationInv, StoresExist, ModelsWritten
  <2>3. /\ rows' = rows \cup {found[p]}
        /\ replica' \in SUBSET Record /\ wal' \in Seq(SUBSET Record)
        /\ \A t \in Tables' : t = rows' \/ t \in Tables
    <3>1. rows \cup {found[p]} \in SUBSET Record
      BY <1>1, <2>2
    <3> QED
      BY <1>1, <2>1, <3>1, CommitTables
  <2>4. IsFiniteSet(rows') /\ Keeps(rows', rows)
    BY <1>1, <2>3, FS_AddElement DEF Keeps
  <2>5. /\ pc' = [pc EXCEPT ![p] = pc'[p]] /\ pc'[p] \in {"serve", "writeModel"}
        /\ found' = [found EXCEPT ![p] = found[p]]
    BY <1>1, <2>1 DEF WithRecord, TypeOK
  <2>6. TypeOK'
    BY <1>1, <2>1, <2>2, <2>3, <2>5 DEF TypeOK, PC, schemaVars, fgaVars, setup
  <2>7. \A s \in rows' \cup {found[p]} :
          s.store \in 1..stores /\ (s.model = "current" => s.store \in models)
    BY <2>2, <2>3 DEF MigrationInv, StoresExist, ModelsWritten, Tables
  <2>8. found[p].model # "current"
    BY <2>2
  <2> QED
    BY <2>1, <2>2, <2>3, <2>4, <2>6, <2>7, <2>8, WithRecordInv DEF setup
<1>11. ASSUME NEW p \in Pods, WriteModel(p) PROVE MigrationInv'
  <2>1. /\ pc[p] = "writeModel" /\ pc' = [pc EXCEPT ![p] = "recordModel"]
        /\ models' = models \cup {found[p].store} /\ found[p].store \in 1..stores
        /\ UNCHANGED <<schemaVars, tableVars, stores, step, found, using, setup>>
    BY <1>11 DEF WriteModel, MigrationInv, StoresExist
  <2>2. TypeOK'
    BY <1>1, <2>1 DEF TypeOK, PC, schemaVars, tableVars, setup
  <2>3. StoresExist' /\ ModelsWritten'
    BY <1>1, <2>1, SameTables DEF MigrationInv, StoresExist, ModelsWritten, TypeOK
  <2>4. StoresKept' /\ MigratedFirst' /\ OldestIsFirst'
    BY <1>1, <2>1, SameTables
       DEF MigrationInv, StoresKept, MigratedFirst, OldestIsFirst, TypeOK, setup
  <2> QED
    BY <1>1, <2>1, <2>2, <2>3, <2>4, SameTables DEF MigrationInv
<1>12. ASSUME NEW p \in Pods, RecordModel(p) PROVE MigrationInv'
  <2> DEFINE ours == {r \in rows : r.store = found[p].store}
             new  == [store |-> found[p].store, model |-> "current"]
  <2>1. /\ pc[p] = "recordModel"
        /\ UNCHANGED <<schemaVars, fgaVars, step, found, using, setup>>
    BY <1>12 DEF RecordModel
  <2>2. CASE pc' = [pc EXCEPT ![p] = "panicked"] /\ UNCHANGED tableVars
    <3>1. TypeOK'
      BY <1>1, <2>1, <2>2 DEF TypeOK, PC, schemaVars, tableVars, fgaVars, setup
    <3> QED
      BY <1>1, <2>1, <2>2, <3>1, QuietStep, SameTables DEF TypeOK, setup
  <2>3. CASE Commit((rows \ ours) \cup {new}) /\ pc' = [pc EXCEPT ![p] = "serve"]
    <3>1. /\ new \in Record /\ new.store = found[p].store /\ new.model = "current"
          /\ new.store \in 1..stores /\ new.store \in models
      <4>1. found[p].store \in 1..stores /\ found[p].store \in models
        BY <2>1 DEF MigrationInv, StoresExist, ModelsWritten
      <4>2. found[p].store \in Nat /\ "current" \in Models
        BY <1>1, <4>1 DEF Models
      <4>3. new \in Record
        BY <4>2, RecordType
      <4> QED
        BY <4>1, <4>3
    <3>2. /\ \A r \in rows : r \in ours => r.store = new.store
          /\ IsFiniteSet((rows \ ours) \cup {new})
      BY <1>1, FS_Subset, FS_AddElement
    <3> HIDE DEF ours, new
    <3>3. /\ rows' = (rows \ ours) \cup {new}
          /\ replica' \in SUBSET Record /\ wal' \in Seq(SUBSET Record)
          /\ \A t \in Tables' : t = rows' \/ t \in Tables
      <4>1. (rows \ ours) \cup {new} \in SUBSET Record
        BY <1>1, <3>1
      <4> QED
        BY <1>1, <2>3, <4>1, CommitTables
    <3>4. Keeps(rows', rows) /\ \E s \in rows' : s.model = "current"
      BY <3>1, <3>2, <3>3 DEF Keeps
    <3>5. \A s \in rows' : s.store \in 1..stores /\ (s.model = "current" => s.store \in models)
      BY <3>1, <3>3 DEF MigrationInv, StoresExist, ModelsWritten, Tables
    <3>6. /\ \A t \in Tables' : \A s \in t :
               s.store \in 1..stores' /\ (s.model = "current" => s.store \in models')
          /\ StoresKept'
          /\ installed'.version >= FGAVersion => \A t \in Tables' : \E s \in t : s.store = 1
      BY <2>1, <3>3, <3>4, <3>5, WriteTables DEF setup
    <3>7. TypeOK'
      BY <1>1, <2>1, <2>3, <3>1, <3>3 DEF TypeOK, PC, schemaVars, fgaVars, setup
    <3>8. StoresExist' /\ ModelsWritten'
      BY <1>1, <2>1, <2>3, <3>6
         DEF MigrationInv, StoresExist, ModelsWritten, TypeOK, fgaVars
    <3>9. MigratedFirst' /\ OldestIsFirst'
      BY <1>1, <2>1, <2>3, <3>4, <3>6
         DEF MigrationInv, MigratedFirst, OldestIsFirst, TypeOK, setup
    <3> QED
      BY <3>2, <3>3, <3>6, <3>7, <3>8, <3>9 DEF MigrationInv
  <2> QED
    BY <1>12, <2>2, <2>3 DEF RecordModel
<1>13. ASSUME NEW p \in Pods, Serve(p) PROVE MigrationInv'
  <2>1. /\ pc[p] = "serve" /\ faults' \in 0..MaxFaults
        /\ UNCHANGED <<schemaVars, tableVars, fgaVars, step, found, installed>>
    BY <1>1, <1>13, MigrationAssumption DEF Serve, Fault, TypeOK
  <2>2. CASE Goto(p, "panicked") /\ UNCHANGED using
    <3>1. TypeOK'
      BY <1>1, <2>1, <2>2 DEF TypeOK, PC, schemaVars, tableVars, fgaVars
    <3> QED
      BY <1>1, <2>1, <2>2, <3>1, QuietStep, SameTables DEF TypeOK
  <2>3. ASSUME NEW r \in replica, \A s \in replica : r.store <= s.store,
               using' = [using EXCEPT ![p] = r], Goto(p, "serving")
        PROVE  MigrationInv'
    <3>1. TypeOK'
      BY <1>1, <2>1, <2>3 DEF TypeOK, PC, schemaVars, tableVars, fgaVars
    <3>2. StoresExist' /\ ModelsWritten' /\ StoresKept' /\ MigratedFirst'
      BY <1>1, <2>1, <2>3, SameTables
         DEF MigrationInv, StoresExist, ModelsWritten, StoresKept, MigratedFirst, TypeOK, fgaVars
    <3>3. OldestIsFirst'
      <4>1. ASSUME NEW f \in replica, f.store = 1 PROVE r.store = 1
        <5>1. r.store \in Nat /\ r.store >= 1
          BY <1>1 DEF MigrationInv, StoresExist, Tables
        <5> QED
          BY <2>3, <4>1, <5>1
      <4>2. replica \in Tables
        BY DEF Tables
      <4> QED
        BY <1>1, <2>1, <2>3, <4>1, <4>2, SameTables DEF MigrationInv, OldestIsFirst, TypeOK
    <3> QED
      BY <1>1, <2>1, <3>1, <3>2, <3>3, SameTables DEF MigrationInv
  <2> QED
    BY <1>13, <2>2, <2>3 DEF Serve

\* The orchestrator and the replica.
<1>14. ASSUME NEW p \in Pods, Restart(p) \/ Crash(p) PROVE MigrationInv'
  <2>1. /\ pc' = [pc EXCEPT ![p] = "start"] /\ step' = [step EXCEPT ![p] = 0]
        /\ found' = [found EXCEPT ![p] = NoRecord]
        /\ using' = [using EXCEPT ![p] = NoRecord]
        /\ UNCHANGED <<schemaVars, tableVars, fgaVars, installed>>
    BY <1>14 DEF Restart, Crash, Restarted, setup
  <2>2. NoRecord \in Record /\ 0 \in 0..TargetSchemaVersion
    BY DEF NoRecord, Record, Models, TargetSchemaVersion
  <2>3. faults' \in 0..MaxFaults
    BY <1>1, <1>14, MigrationAssumption DEF Restart, Crash, Fault, setup, TypeOK
  <2>4. TypeOK'
    BY <1>1, <2>1, <2>2, <2>3 DEF TypeOK, PC, schemaVars, tableVars, fgaVars
  <2> QED
    BY <1>1, <2>1, <2>4, QuietStep, SameTables DEF TypeOK
<1>15. CASE UNCHANGED vars \/ Replicate
  <2>1. /\ UNCHANGED <<schemaVars, rows, fgaVars, podVars, setup>>
        /\ replica' \in SUBSET Record /\ wal' \in Seq(SUBSET Record)
        /\ Tables' \subseteq Tables
    <3>1. CASE UNCHANGED vars
      BY <1>1, <3>1, SameTables DEF vars, tableVars, TypeOK
    <3>2. CASE Replicate
      BY <1>1, <3>2, ReplicateTables DEF Replicate
    <3> QED
      BY <1>15, <3>1, <3>2
  <2>2. TypeOK'
    BY <1>1, <2>1 DEF TypeOK, schemaVars, fgaVars, podVars, setup
  <2>3. StoresExist' /\ ModelsWritten' /\ StoresKept'
    BY <2>1 DEF MigrationInv, StoresExist, ModelsWritten, StoresKept, podVars, fgaVars
  <2>4. MigratedFirst' /\ OldestIsFirst'
    BY <2>1 DEF MigrationInv, MigratedFirst, OldestIsFirst, podVars, setup
  <2> QED
    BY <1>1, <2>1, <2>2, <2>3, <2>4 DEF MigrationInv
<1> QED
  BY <1>2, <1>3, <1>4, <1>5, <1>6, <1>7, <1>8, <1>9, <1>10, <1>11, <1>12, <1>13,
     <1>14, <1>15 DEF Next, Run

\* What is true of every reachable state.
LEMMA Inductive == Spec => []MigrationInv
  BY InitInv, NextInv, PTL DEF Spec
-----------------------------------------------------------------------------
\* The theorems

\* Every variable has its type, whatever pods do and wherever they crash.
THEOREM TypeCorrect == Spec => []TypeOK
  BY Inductive, PTL DEF MigrationInv

\* cmd/migration before cmd/main: as long as one record is there, a server starts
\* on a store that holds the authorization model, and uses that model unless the
\* replica it has read lags.
THEOREM ReadyStore == Spec => ServesReadyStore
<1>1. MigrationInv /\ [Next]_vars =>
        [\A p \in Pods :
           pc[p] = "serve" /\ pc'[p] = "serving" /\ Cardinality(rows) = 1 =>
             /\ using'[p].store \in models
             /\ using'[p].model = "current" \/ replica # rows]_vars
  <2> SUFFICES ASSUME MigrationInv, Next, NEW p \in Pods,
                      pc[p] = "serve", pc'[p] = "serving", Cardinality(rows) = 1
               PROVE  /\ using'[p].store \in models
                      /\ using'[p].model = "current" \/ replica # rows
    OBVIOUS
  <2>1. /\ pc \in [Pods -> PC] /\ using \in [Pods -> Record]
    BY DEF MigrationInv, TypeOK
  <2>2. Serve(p)
    <3> USE <2>1 DEF Goto
    <3>1. ASSUME NEW q \in Pods, ReadVersion(q) \/ StepBegin(q) \/ StepEnd(q) \/ ReadStep(q)
          PROVE  FALSE
      BY <3>1 DEF ReadVersion, StepBegin, StepEnd, ReadStep
    <3>2. ASSUME NEW q \in Pods, ExecCode(q) \/ CodeInsert(q)
          PROVE  FALSE
      BY <3>2 DEF ExecCode, CodeInsert, NextStep
    <3>3. ASSUME NEW q \in Pods, FGARead(q) \/ InsertStore(q) PROVE FALSE
      BY <3>3 DEF FGARead, InsertStore, WithRecord
    <3>4. ASSUME NEW q \in Pods, CreateStore(q) \/ WriteModel(q) \/ RecordModel(q) PROVE FALSE
      BY <3>4 DEF CreateStore, WriteModel, RecordModel
    <3>5. ASSUME NEW q \in Pods, Restart(q) \/ Crash(q) PROVE FALSE
      BY <3>5 DEF Restart, Crash, Restarted
    <3>6. ASSUME Replicate PROVE FALSE
      BY <3>6 DEF Replicate, podVars
    <3>7. ASSUME NEW q \in Pods, Serve(q) PROVE q = p
      BY <3>7 DEF Serve
    <3> QED
      BY <3>1, <3>2, <3>3, <3>4, <3>5, <3>6, <3>7 DEF Next, Run
  <2>3. PICK r \in replica : using' = [using EXCEPT ![p] = r]
    BY <2>1, <2>2 DEF Serve, Goto
  <2>4. PICK c : rows = {c}
    BY FS_Singleton DEF MigrationInv
  <2>5. c.model = "current" /\ c.store \in models /\ r.store = c.store
    BY <2>4 DEF MigrationInv, MigratedFirst, ModelsWritten, StoresKept, Keeps, Tables
  <2> QED
    BY <2>1, <2>3, <2>4, <2>5
<1> QED
  BY <1>1, Inductive, PTL DEF Spec, ServesReadyStore

\* GetFGAMigrationData orders by store: where stores were recorded before, all
\* servers use the first, whatever migrations run or crash in between.
THEOREM OneStore == Spec => ServersAgree
<1>1. MigrationInv /\ MigrationInv' /\ [Next]_vars =>
        [\A p, q \in Pods :
           installed.version >= FGAVersion /\ pc[p] = "serving" /\ pc'[q] = "serving"
             => using[p].store = using'[q].store]_vars
  <2>1. [Next]_vars => UNCHANGED installed
    BY DEF Next, Run, ReadVersion, StepBegin, StepEnd, ReadStep, ExecCode, CodeInsert,
       FGARead, CreateStore, InsertStore, WriteModel, RecordModel, Serve, Restart, Crash,
       Replicate, vars, setup
  <2> QED
    BY <2>1 DEF MigrationInv, OldestIsFirst
<1> QED
  BY <1>1, Inductive, PTL DEF Spec, ServersAgree

\* runFGAMigration, CodeMigrator: a store once recorded stays recorded, and so
\* does its model.
THEOREM NoRecordLost == Spec => RecordsKept
<1>1. MigrationInv /\ [Next]_vars =>
        [\A r \in rows : \E s \in rows' :
           s.store = r.store /\ (r.model = "current" => s.model = "current")]_vars
  <2> SUFFICES ASSUME MigrationInv, Next, NEW r \in rows
               PROVE  \E s \in rows' :
                        s.store = r.store /\ (r.model = "current" => s.model = "current")
    OBVIOUS
  <2>1. ASSUME NEW p \in Pods, RecordModel(p), r.store = found[p].store,
               rows' # rows
        PROVE  \E s \in rows' : s.store = r.store /\ s.model = "current"
    <3>1. [store |-> found[p].store, model |-> "current"] \in rows'
      BY <2>1 DEF RecordModel, Commit, tableVars
    <3> QED
      BY <2>1, <3>1
  <2>2. ASSUME NEW p \in Pods, RecordModel(p), r.store # found[p].store
        PROVE  r \in rows'
    BY <2>2 DEF RecordModel, Commit, tableVars
  <2>3. ASSUME NEW p \in Pods, CodeInsert(p) \/ InsertStore(p) PROVE r \in rows'
    BY <2>3 DEF CodeInsert, InsertStore, Commit, tableVars
  <2>4. ASSUME NEW p \in Pods, Run(p) \/ Crash(p),
               ~RecordModel(p), ~CodeInsert(p), ~InsertStore(p)
        PROVE  rows' = rows
    BY <2>4 DEF Run, ReadVersion, StepBegin, StepEnd, ReadStep, ExecCode, FGARead,
       CreateStore, WriteModel, Serve, Restart, Restarted, Crash, tableVars
  <2>5. Replicate => rows' = rows
    BY DEF Replicate
  <2> QED
    BY <2>1, <2>2, <2>3, <2>4, <2>5 DEF Next
<1> QED
  BY <1>1, Inductive, PTL DEF Spec, RecordsKept
=============================================================================
