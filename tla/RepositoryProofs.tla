-------------------------- MODULE RepositoryProofs --------------------------
(***************************************************************************)
(* Lemmas about the operators of Repository, for every set of keys, of     *)
(* rows and of writers: what the components' proofs know of a read, a      *)
(* write and a step of the replica.                                        *)
(***************************************************************************)
EXTENDS Repository, TLAPS

Records(K, R, W) == [key : K, row : R, by : W]

\* Well-formed tables of rows R under keys K, and a log of writes made for W.
WellFormed(K, R, W) ==
  /\ primary \in [K -> R]
  /\ replica \in [K -> R]
  /\ wal \in Seq(Records(K, R, W))

\* A record of the log.
LEMMA LogRecords ==
  ASSUME NEW K, NEW R, NEW W, WellFormed(K, R, W)
  PROVE  /\ Len(wal) \in Nat /\ DOMAIN wal = 1..Len(wal)
         /\ \A i \in DOMAIN wal : wal[i].key \in K /\ wal[i].row \in R /\ wal[i].by \in W
<1>1. Len(wal) \in Nat /\ DOMAIN wal = 1..Len(wal)
  BY DEF WellFormed
<1>2. ASSUME NEW i \in DOMAIN wal
      PROVE  wal[i].key \in K /\ wal[i].row \in R /\ wal[i].by \in W
  <2>1. wal[i] \in Records(K, R, W)
    BY DEF WellFormed
  <2> QED
    BY <2>1 DEF Records
<1> QED
  BY <1>1, <1>2

\* A read is served from the primary or from the replica.
LEMMA ReadsTables ==
  ASSUME NEW u, NEW t \in Snapshots(u)
  PROVE  t = primary \/ t = replica
  BY DEF Snapshots

\* While Redis answers, a read goes to the replica only for a user without the
\* mark.
LEMMA ReadsPinned ==
  ASSUME "redis" \notin Environment, NEW u, NEW t \in Snapshots(u)
  PROVE  \/ t = primary
         \/ HasReplica /\ u \notin pinned /\ t = replica
  BY DEF Snapshots, RedisMayFail

\* While Redis answers, PinUser sets the mark.
LEMMA PinSets ==
  ASSUME "redis" \notin Environment, NEW u, PinUser(u)
  PROVE  pinned' = pinned \cup {u}
  BY DEF PinUser, RedisMayFail

\* A write keeps the tables well formed ...
LEMMA CommitWellFormed ==
  ASSUME NEW K, NEW R, NEW W, WellFormed(K, R, W),
         NEW k \in K, NEW row \in R, NEW u \in W, Commit(k, row, u)
  PROVE  WellFormed(K, R, W)'
<1>1. [key |-> k, row |-> row, by |-> u] \in Records(K, R, W)
  BY DEF Records
<1>2. Append(wal, [key |-> k, row |-> row, by |-> u]) \in Seq(Records(K, R, W))
  BY <1>1 DEF WellFormed
<1>3. wal' \in Seq(Records(K, R, W))
  BY <1>2 DEF WellFormed, Commit
<1> QED
  BY <1>3 DEF Commit, WellFormed

\* ... changes one row of the primary, none of the replica, and goes to the end
\* of the log.
LEMMA CommitEffect ==
  ASSUME NEW K, NEW R, NEW W, WellFormed(K, R, W),
         NEW k \in K, NEW row \in R, NEW u \in W, Commit(k, row, u)
  PROVE  /\ primary'[k] = row
         /\ \A j \in K \ {k} : primary'[j] = primary[j]
         /\ replica' = replica
         /\ ~HasReplica => wal' = wal
         /\ HasReplica =>
              /\ DOMAIN wal' = 1..(Len(wal) + 1)
              /\ \A i \in DOMAIN wal : wal'[i] = wal[i]
              /\ wal'[Len(wal) + 1].key = k /\ wal'[Len(wal) + 1].row = row
              /\ wal'[Len(wal) + 1].by = u
         /\ \A i \in DOMAIN wal' :
              \/ i \in DOMAIN wal /\ wal'[i] = wal[i]
              \/ /\ i = Len(wal) + 1
                 /\ wal'[i].key = k /\ wal'[i].row = row /\ wal'[i].by = u
<1> DEFINE record == [key |-> k, row |-> row, by |-> u]
<1>1. /\ primary'[k] = row
      /\ \A j \in K \ {k} : primary'[j] = primary[j]
      /\ replica' = replica
  BY DEF Commit, WellFormed
<1>2. ~HasReplica => wal' = wal
  BY DEF Commit
<1>3. HasReplica => /\ DOMAIN wal' = 1..(Len(wal) + 1)
                    /\ \A i \in DOMAIN wal : wal'[i] = wal[i]
                    /\ wal'[Len(wal) + 1] = record
  <2>1. record \in Records(K, R, W)
    BY DEF Records
  <2>2. HasReplica => wal' = Append(wal, record)
    BY DEF Commit
  <2> HIDE DEF record
  <2> QED
    BY <2>1, <2>2 DEF WellFormed
<1>4. record.key = k /\ record.row = row /\ record.by = u
  OBVIOUS
<1>5. Len(wal) \in Nat /\ DOMAIN wal = 1..Len(wal)
  BY DEF WellFormed
<1>6. ASSUME NEW i \in DOMAIN wal'
      PROVE  \/ i \in DOMAIN wal /\ wal'[i] = wal[i]
             \/ /\ i = Len(wal) + 1
                /\ wal'[i].key = k /\ wal'[i].row = row /\ wal'[i].by = u
  <2> HIDE DEF record
  <2>1. CASE ~HasReplica
    BY <1>2, <1>6, <2>1
  <2>2. CASE HasReplica
    BY <1>3, <1>4, <1>5, <1>6, <2>2
  <2> QED
    BY <2>1, <2>2
<1> QED
  BY <1>1, <1>2, <1>3, <1>4, <1>6

\* The replica's step keeps the tables well formed, and moves the oldest write
\* of the log into the replica.
LEMMA ReplicateEffect ==
  ASSUME NEW K, NEW R, NEW W, WellFormed(K, R, W), Replicate
  PROVE  /\ WellFormed(K, R, W)'
         /\ primary' = primary /\ pinned' = pinned
         /\ Len(wal) \in Nat \ {0} /\ 1 \in DOMAIN wal
         /\ wal[1].key \in K /\ wal[1].row \in R
         /\ DOMAIN wal' = 1..(Len(wal) - 1)
         /\ \A i \in DOMAIN wal' : i + 1 \in DOMAIN wal /\ wal'[i] = wal[i + 1]
         /\ replica'[wal[1].key] = wal[1].row
         /\ \A j \in K \ {wal[1].key} : replica'[j] = replica[j]
<1>1. wal \in Seq(Records(K, R, W)) /\ wal # <<>>
  BY DEF WellFormed, Replicate
<1>2. Head(wal) \in Records(K, R, W) /\ Tail(wal) \in Seq(Records(K, R, W))
  BY <1>1
<1>3. /\ Len(wal) \in Nat \ {0} /\ DOMAIN wal = 1..Len(wal) /\ Head(wal) = wal[1]
      /\ DOMAIN Tail(wal) = 1..(Len(wal) - 1)
      /\ \A i \in DOMAIN Tail(wal) : Tail(wal)[i] = wal[i + 1]
  BY <1>1
<1>4. wal[1].key \in K /\ wal[1].row \in R
  BY <1>2, <1>3 DEF Records
<1>5. /\ WellFormed(K, R, W)'
      /\ replica'[wal[1].key] = wal[1].row
      /\ \A j \in K \ {wal[1].key} : replica'[j] = replica[j]
  <2>1. replica' = [replica EXCEPT ![wal[1].key] = wal[1].row] /\ replica \in [K -> R]
    BY <1>3 DEF Replicate, WellFormed
  <2>2. replica' \in [K -> R]
    BY <1>4, <2>1
  <2>3. wal' \in Seq(Records(K, R, W)) /\ primary' \in [K -> R]
    BY <1>2 DEF Replicate, WellFormed
  <2> QED
    BY <1>4, <2>1, <2>2, <2>3 DEF WellFormed
<1>6. /\ DOMAIN wal' = 1..(Len(wal) - 1)
      /\ \A i \in DOMAIN wal' : i + 1 \in DOMAIN wal /\ wal'[i] = wal[i + 1]
  BY <1>3 DEF Replicate
<1> QED
  BY <1>3, <1>4, <1>5, <1>6 DEF Replicate
=============================================================================
