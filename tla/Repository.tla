----------------------------- MODULE Repository -----------------------------
(***************************************************************************)
(* The data layer shared by every component of the backend                 *)
(* (pkg/repository): one primary database, at most one read replica that   *)
(* applies the primary's writes with a lag, and the Redis marks            *)
(* "db_pin_user:<uid>" that send the reads of a user who has just written  *)
(* to the primary.                                                         *)
(*                                                                         *)
(* A table is a function from keys to rows.  A component that EXTENDS this *)
(* module says what its keys and rows are and composes the operators below *)
(* into its handlers.                                                      *)
(***************************************************************************)
EXTENDS Naturals, Sequences, FiniteSets

CONSTANTS
  Users,              \* user UIDs
  NoUser,             \* uuid.Nil, and the value a context without
                      \* UserUIDCtxKey yields
  NoRow,              \* the absence of a row
  HasReplica,         \* is Database.Replica.Host configured?
  TimelyReplication,  \* does ReplicationTimeFrame really bound the lag?
  Environment         \* what the environment may do, a set of:
                      \*   "redis"  a Redis call fails
                      \*   "abort"  a request's context is cancelled, or the
                      \*            process that serves it dies
                      \*   "rng"    the data race on the token generator's
                      \*            source makes two requests draw one token
                      \*   "clock"  the expire_time of a token passes

ASSUME RepositoryAssumption ==
  /\ NoUser \notin Users
  /\ HasReplica \in BOOLEAN
  /\ TimelyReplication \in BOOLEAN
  /\ Environment \subseteq {"redis", "abort", "rng", "clock"}

VARIABLES
  primary,  \* the primary database's table
  replica,  \* the replica's table
  wal,      \* the primary's writes the replica has not applied, oldest first
  pinned    \* the users (or NoUser) whose db_pin_user mark is set

repoVars == <<primary, replica, wal, pinned>>

RedisMayFail == "redis" \in Environment

RepoInit(table) ==
  /\ primary = table
  /\ replica = table
  /\ wal = <<>>
  /\ pinned = {}

-----------------------------------------------------------------------------
\* Operators the handlers are composed of

\* A mutant of PinUser: the mark is not set.
PinUserForgotten(u) == UNCHANGED pinned

\* PinUser ignores the error of Set, so under a Redis fault it does nothing.
PinUser(u) ==
  \/ pinned' = pinned \cup {u}
  \/ RedisMayFail /\ UNCHANGED pinned

\* A mutant of Snapshots: reads do not look for the mark.
SnapshotsIgnoringPin(u) == IF HasReplica THEN {replica} ELSE {primary}

\* The tables a read made for u may be served from.  CheckPinnedUser goes to
\* the primary unless Redis answers that the key is absent: a failing Redis
\* also means the primary.
Snapshots(u) ==
  IF ~HasReplica \/ u \in pinned
  THEN {primary}
  ELSE {replica} \cup (IF RedisMayFail THEN {primary} ELSE {})

\* A write made for u: it reaches the primary now and the replica later.
Commit(k, row, u) ==
  /\ primary' = [primary EXCEPT ![k] = row]
  /\ wal' = IF HasReplica
            THEN Append(wal, [key |-> k, row |-> row, by |-> u])
            ELSE wal
  /\ UNCHANGED replica

-----------------------------------------------------------------------------
\* Steps of the database and of Redis

Replicate ==
  /\ wal # <<>>
  /\ replica' = [replica EXCEPT ![Head(wal).key] = Head(wal).row]
  /\ wal' = Tail(wal)
  /\ UNCHANGED <<primary, pinned>>

Lagging(k) == \E i \in DOMAIN wal : wal[i].key = k

\* The mark expires ReplicationTimeFrame seconds after PinUser set it.  When
\* the frame bounds the lag, the replica has by then what the user wrote;
\* writing is the component's statement that a request still is between its
\* PinUser and its write.
PinExpire(u, writing) ==
  /\ u \in pinned
  /\ TimelyReplication =>
       ~writing /\ \A i \in DOMAIN wal : wal[i].by # u
  /\ pinned' = pinned \ {u}
  /\ UNCHANGED <<primary, replica, wal>>
=============================================================================
