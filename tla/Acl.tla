-------------------------------- MODULE Acl --------------------------------
(***************************************************************************)
(* The access control client (pkg/acl/acl.go): the OpenFGA tuples that say *)
(* which role a user has in an organization, written through the primary   *)
(* and read from the primary or a replica.                                 *)
(*                                                                         *)
(* OpenFGA writes set the Redis mark "db_pin_user:<uid>" that the          *)
(* repository's PinUser sets before database writes, each with a time      *)
(* frame of its own.  Time is therefore explicit here: a Tick ages what is *)
(* under way and brings the marks closer to their expiration.              *)
(***************************************************************************)
EXTENDS Naturals, Sequences, FiniteSets

CONSTANTS
  Users,       \* the users on whose behalf requests are made
  Members,     \* the users whose memberships are changed
  Codes,       \* the codes other services write tuples for, before the run
  Orgs,        \* organizations, and other objects
  Roles,       \* the roles, in the order of the loop that deletes them
  Requests,    \* request slots
  None,        \* no value of the kind
  HasReplica,  \* is OpenFGA.Replica.Host, Database.Replica.Host configured?
  Frame,       \* ReplicationTimeFrame of "database" and of "openfga", in ticks
  Latency,     \* how long a write takes at most, from its mark to its commit
  Lag,         \* how long a replica takes at most to apply a write
  Faults,      \* a set of: "write"  a write to OpenFGA fails
               \*           "abort"  a request is cancelled, or its process dies
  MaxChanges   \* bound: how many requests that write arrive

Stores    == {"database", "openfga"}
RoleNames == {Roles[i] : i \in DOMAIN Roles}

Subjects   == Members \cup Codes
Membership == Members \X Orgs
Grant      == Subjects \X Orgs

\* The frames are meant to outlast a write and its replication.  As the two
\* stores share the mark, each frame has to do so for both of them.
ASSUME AclAssumption ==
  /\ Roles \in Seq(RoleNames)
  /\ HasReplica \in BOOLEAN
  /\ Frame \in [Stores -> Nat] /\ Lag \in [Stores -> Nat] /\ Latency \in Nat
  /\ \A s, t \in Stores : Frame[s] > Latency + Lag[t]
  /\ Faults \subseteq {"write", "abort"}
  /\ MaxChanges \in Nat
  /\ IsFiniteSet(Grant)
  /\ None \notin Users \cup Subjects \cup RoleNames

VARIABLES
  primary,  \* the tuples in OpenFGA's primary
  replica,  \* the tuples in its replica
  wal,      \* per store: the writes its replica has not applied, oldest first
  ids,      \* how many tuples have been written
  ttl,      \* per user: how long the mark still lives, 0 without one
  pc,       \* what each request does next
  req,      \* the inputs and local variables of each request
  changes,  \* how many requests that write have arrived
  lost      \* history: the memberships a request may have ended

stores  == <<primary, replica, wal, ids>>
reqVars == <<pc, req>>
vars    == <<stores, ttl, reqVars, changes, lost>>

\* A tuple is stored under a number (a ULID), which continuation tokens name.
Stored == [member : Subjects, org : Orgs, role : RoleNames, id : Nat]

NoReq == [op     |-> "none",
          ctx    |-> None,   \* the user of the Instill-User-Uid header
          member |-> None,
          org    |-> None,
          role   |-> None,
          code   |-> None,   \* CheckPermission: the code to check next
          i      |-> 1,      \* the role the loop is at; past the last: Write
          age    |-> 0,      \* time since the mark of the write under way
          alone  |-> TRUE,   \* history: no other write, and no failed one
          token  |-> 0,      \* the continuation token
          got    |-> <<>>,   \* the tuples listed so far
          steady |-> {},     \* history: what both stores had when a listing began
          answer |-> FALSE]

ReadOps == {"Check", "CheckPermission", "Get"}
ListOps == {"GetUsers", "GetOrganizations"}
SetOps  == {"Set", "Delete"}
DonePC  == {"done", "failed"}
PC      == {"idle", "mark", "execute", "read", "page"} \cup DonePC

Key(t)            == <<t.member, t.org>>
RolesOf(mo, store) == {t.role : t \in {x \in store : Key(x) = mo}}

\* Up to one tuple for each subject and object when the run starts; codes come
\* last, and with one of the roles only.
Init ==
  /\ \E first \in [Grant -> RoleNames \cup {None}],
       order \in [Grant -> 1..Cardinality(Grant)] :
       /\ \A x, y \in Grant : order[x] = order[y] => x = y
       /\ \A x, y \in Grant : x[1] \in Codes =>
            /\ first[x] \in {Roles[1], None}
            /\ y[1] \in Members => order[y] < order[x]
       /\ primary = {[member |-> mo[1], org |-> mo[2],
                      role |-> first[mo], id |-> order[mo]] :
                       mo \in {x \in Grant : first[x] # None}}
  /\ replica = primary
  /\ wal = [s \in Stores |-> <<>>]
  /\ ids = Cardinality(Grant)
  /\ ttl = [u \in Users |-> 0]
  /\ pc = [r \in Requests |-> "idle"]
  /\ req = [r \in Requests |-> NoReq]
  /\ changes = 0
  /\ lost = {mo \in Membership : RolesOf(mo, primary) = {}}

-----------------------------------------------------------------------------
\* Helpers

Goto(r, label) == pc' = [pc EXCEPT ![r] = label]

Become(r, label, record) ==
  /\ Goto(r, label)
  /\ req' = [req EXCEPT ![r] = record]

\* A mutant of GetClient: a user with a mark is sent to the replica.
GetClientInverted(u) ==
  IF ttl[u] = 0 \/ ~HasReplica THEN primary ELSE replica

\* getClient in ReadMode: the primary for a user with a mark, and when there
\* is no client for a replica.
GetClient(u) == IF ttl[u] > 0 \/ ~HasReplica THEN primary ELSE replica

\* A mutant of PinFrame: OpenFGA's frame is taken for the lag alone.
PinFrameOfLag(store) == IF store = "openfga" THEN Lag[store] ELSE Frame[store]

\* The time to live the mark of a write gets.
PinFrame(store) == Frame[store]

Log(store, change, t, u) ==
  wal' = IF HasReplica
         THEN [wal EXCEPT ![store] =
                 Append(@, [change |-> change, tuple |-> t, by |-> u, age |-> 0])]
         ELSE wal

\* A request writes to its membership: another that changes it is not alone.
Touched(r, next) ==
  req' = [s \in Requests |->
            IF s = r THEN next
            ELSE IF req[s].op = "Set" /\ Key(req[s]) = Key(req[r]) THEN [req[s] EXCEPT !.alone = FALSE]
            ELSE req[s]]

-----------------------------------------------------------------------------
\* SetOrganizationUserMembership and DeleteOrganizationUserMembership, and any
\* database write, of which only the mark and the lag matter here

Change(r) ==
  \E op \in SetOps \cup {"database"}, u \in Users, mo \in Membership,
     role \in RoleNames :
    /\ pc[r] = "idle"
    /\ changes < MaxChanges
    /\ op = "database" => mo = CHOOSE x \in Membership : TRUE
    /\ op # "Set" => role = Roles[1]
    /\ changes' = changes + 1
    /\ Become(r, "mark",
              IF op = "database" THEN [NoReq EXCEPT !.op = op, !.ctx = u]
              ELSE [NoReq EXCEPT !.op = op, !.ctx = u, !.member = mo[1],
                                 !.org = mo[2], !.role = role])
    /\ lost' = IF op = "Delete" THEN lost \cup {mo} ELSE lost
    /\ UNCHANGED <<stores, ttl>>

\* getClient in WriteMode, and PinUser: the mark's time starts again.
Mark(r) ==
  /\ pc[r] = "mark"
  /\ ttl' = [ttl EXCEPT ![req[r].ctx] =
               PinFrame(IF req[r].op = "database" THEN "database" ELSE "openfga")]
  /\ Become(r, "execute", [req[r] EXCEPT !.age = 0])
  /\ UNCHANGED <<stores, changes, lost>>

DatabaseWrite(r) ==
  /\ pc[r] = "execute" /\ req[r].op = "database"
  /\ Log("database", "put", None, req[r].ctx)
  /\ Goto(r, "done")
  /\ UNCHANGED <<primary, replica, ids, ttl, req, changes, lost>>

\* A mutant of LoopEnds: the last role is left out.
LoopEndsEarly(i) == i >= Len(Roles)

LoopEnds(i) == i > Len(Roles)

\* One role of the loop.  OpenFGA refuses to delete a tuple that is not there;
\* this error and any other is dropped.
DeleteRole(r) ==
  /\ pc[r] = "execute" /\ req[r].op \in SetOps /\ ~LoopEnds(req[r].i)
  /\ LET q    == req[r]
         old  == {t \in primary : Key(t) = Key(q) /\ t.role = Roles[q.i]}
         next == [q EXCEPT !.i = q.i + 1, !.age = 0]
     IN  /\ Goto(r, IF q.op = "Delete" /\ LoopEnds(q.i + 1) THEN "done" ELSE "mark")
         /\ \/ /\ old = {}
               /\ Touched(r, next)
               /\ UNCHANGED stores
            \/ \E t \in old :
                 /\ primary' = primary \ {t}
                 /\ Log("openfga", "delete", t, q.ctx)
                 /\ Touched(r, next)
                 /\ UNCHANGED <<replica, ids>>
            \/ /\ "write" \in Faults
               /\ Touched(r, [next EXCEPT !.alone = FALSE])
               /\ UNCHANGED stores
  /\ UNCHANGED <<ttl, changes, lost>>

\* A mutant of NewTuple: the tuple is about the user who asks.
NewTupleOfCaller(q) ==
  [member |-> q.ctx, org |-> q.org, role |-> q.role, id |-> ids + 1]

NewTuple(q) ==
  [member |-> q.member, org |-> q.org, role |-> q.role, id |-> ids + 1]

\* A mutant of Writable: nothing to write for a user who has the role already,
\* says the replica.
WritableSaysReplica(q) == q.role \notin RolesOf(Key(q), replica)

\* OpenFGA refuses to write a tuple that is there.
Writable(q) == q.role \notin RolesOf(Key(q), primary)

\* The new tuple; the error is returned.
WriteRole(r) ==
  /\ pc[r] = "execute" /\ req[r].op = "Set" /\ LoopEnds(req[r].i)
  /\ LET q   == req[r]
         new == NewTuple(q)
     IN  \/ /\ Writable(q)
            /\ primary' = primary \cup {new}
            /\ ids' = ids + 1
            /\ Log("openfga", "put", new, q.ctx)
            /\ Goto(r, "done")
            /\ Touched(r, [q EXCEPT !.age = 0])
            /\ lost' = IF \E s \in Requests : /\ pc[s] \in {"mark", "execute"}
                                              /\ req[s].op = "Delete"
                                              /\ Key(req[s]) = Key(q)
                       THEN lost ELSE lost \ {Key(q)}
            /\ UNCHANGED replica
         \/ /\ ~Writable(q)
            /\ Become(r, "failed", NoReq)
            /\ UNCHANGED <<stores, lost>>
         \/ /\ "write" \in Faults
            /\ Become(r, "failed", NoReq)
            /\ lost' = lost \cup {Key(q)}
            /\ UNCHANGED stores
  /\ UNCHANGED <<ttl, changes>>

-----------------------------------------------------------------------------
\* CheckOrganizationUserMembership, CheckPermission and
\* GetOrganizationUserMembership

Ask(r) ==
  \E op \in ReadOps, u \in Users, mo \in Membership, role \in RoleNames,
     code \in Codes \cup {None} :
    /\ pc[r] = "idle"
    /\ code = None <=> op # "CheckPermission"
    /\ op = "Get" => role = Roles[1]
    /\ Become(r, "read",
              [NoReq EXCEPT !.op = op, !.ctx = u, !.member = mo[1],
                            !.org = mo[2], !.role = role, !.code = code])
    /\ UNCHANGED <<stores, ttl, changes, lost>>

\* Check asks for the tuple, Get for the first one of the user and organization.
Holds(q, store) ==
  IF q.op = "Get" THEN RolesOf(Key(q), store) # {}
                  ELSE q.role \in RolesOf(Key(q), store)

\* CheckPermission asks again, for the code, when the user does not have it.
Read(r) ==
  /\ pc[r] = "read"
  /\ LET q     == req[r]
         holds == Holds(q, GetClient(q.ctx))
     IN  IF ~holds /\ q.code # None
         THEN Become(r, "read", [q EXCEPT !.member = q.code, !.code = None])
         ELSE Become(r, "done", [q EXCEPT !.answer = holds])
  /\ UNCHANGED <<stores, ttl, changes, lost>>

-----------------------------------------------------------------------------
\* GetOrganizationUsers and GetUserOrganizations: pages of one tuple, each
\* from the client getClient returns for it

Selected(q, store) ==
  {t \in store : IF q.op = "GetUsers" THEN t.org = q.org ELSE t.member = q.member}

List(r) ==
  \E op \in ListOps, u \in Users, mo \in Membership :
    /\ pc[r] = "idle"
    /\ LET q == IF op = "GetUsers"
                THEN [NoReq EXCEPT !.op = op, !.ctx = u, !.org = mo[2]]
                ELSE [NoReq EXCEPT !.op = op, !.ctx = u, !.member = mo[1]]
       IN  Become(r, "page", [q EXCEPT !.steady = Selected(q, primary \cap replica)])
    /\ UNCHANGED <<stores, ttl, changes, lost>>

\* The tuples from the one the continuation token names on.
Rest(q, store) == {t \in Selected(q, store) : t.id >= q.token}

IsFirst(t, ts) == t \in ts /\ \A x \in ts : t.id <= x.id

\* A mutant of ReadPage: the loop ends before the last page is kept.
ReadPageDropsLast(r) ==
  /\ pc[r] = "page"
  /\ LET q    == req[r]
         rest == Rest(q, GetClient(q.ctx))
     IN  \/ /\ Cardinality(rest) < 2
            /\ Become(r, "done", q)
         \/ \E t \in rest : \E next \in rest \ {t} :
              /\ IsFirst(t, rest) /\ IsFirst(next, rest \ {t})
              /\ Become(r, "page", [q EXCEPT !.got = Append(q.got, t),
                                            !.token = next.id])
  /\ UNCHANGED <<stores, ttl, changes, lost>>

\* The continuation token names the tuple after the page; the last page has none.
ReadPage(r) ==
  /\ pc[r] = "page"
  /\ LET q    == req[r]
         rest == Rest(q, GetClient(q.ctx))
     IN  \/ /\ rest = {}
            /\ Become(r, "done", q)
         \/ \E t \in rest :
              /\ rest = {t}
              /\ Become(r, "done", [q EXCEPT !.got = Append(q.got, t)])
         \/ \E t \in rest : \E next \in rest \ {t} :
              /\ IsFirst(t, rest) /\ IsFirst(next, rest \ {t})
              /\ Become(r, "page", [q EXCEPT !.got = Append(q.got, t),
                                            !.token = next.id])
  /\ UNCHANGED <<stores, ttl, changes, lost>>

-----------------------------------------------------------------------------
\* Time, replication, and requests that end

InProgress(r) == pc[r] \notin DonePC \cup {"idle"}

Finish(r) ==
  /\ pc[r] \in DonePC
  /\ Become(r, "idle", NoReq)
  /\ UNCHANGED <<stores, ttl, changes, lost>>

Abort(r) ==
  /\ "abort" \in Faults
  /\ InProgress(r)
  /\ Become(r, "idle", NoReq)
  /\ lost' = IF req[r].op = "Set" THEN lost \cup {Key(req[r])} ELSE lost
  /\ UNCHANGED <<stores, ttl, changes>>

Replicate(s) ==
  /\ wal[s] # <<>>
  /\ wal' = [wal EXCEPT ![s] = Tail(@)]
  /\ replica' = LET w == Head(wal[s])
                IN  IF s = "database" THEN replica
                    ELSE IF w.change = "put" THEN replica \cup {w.tuple}
                    ELSE replica \ {w.tuple}
  /\ UNCHANGED <<primary, ids, ttl, reqVars, changes, lost>>

Older(log) == [i \in DOMAIN log |-> [log[i] EXCEPT !.age = @ + 1]]

\* Time passes unless a write or a replica has had all the time it may take.
Tick ==
  /\ \A r \in Requests : pc[r] = "execute" => req[r].age < Latency
  /\ \A s \in Stores : \A i \in DOMAIN wal[s] : wal[s][i].age < Lag[s]
  /\ ttl' = [u \in Users |-> IF ttl[u] = 0 THEN 0 ELSE ttl[u] - 1]
  /\ wal' = [s \in Stores |-> Older(wal[s])]
  /\ req' = [r \in Requests |->
               IF pc[r] = "execute" THEN [req[r] EXCEPT !.age = @ + 1] ELSE req[r]]
  /\ UNCHANGED <<primary, replica, ids, pc, changes, lost>>

Next ==
  \/ \E r \in Requests :
       \/ Change(r) \/ Mark(r) \/ DatabaseWrite(r) \/ DeleteRole(r) \/ WriteRole(r)
       \/ Ask(r) \/ Read(r)
       \/ List(r) \/ ReadPage(r)
       \/ Finish(r) \/ Abort(r)
  \/ \E s \in Stores : Replicate(s)
  \/ Tick

Spec == Init /\ [][Next]_vars

-----------------------------------------------------------------------------
\* Properties

LogEntry(s) == [change : {"put", "delete"},
                tuple  : IF s = "openfga" THEN Stored ELSE {None},
                by     : Users,
                age    : 0..Lag[s]]

Request ==
  [op     : ReadOps \cup ListOps \cup SetOps \cup {"database", "none"},
   ctx    : Users \cup {None},
   member : Subjects \cup {None},
   org    : Orgs \cup {None},
   role   : RoleNames \cup {None},
   code   : Codes \cup {None},
   i      : 1..(Len(Roles) + 1),
   age    : 0..Latency,
   alone  : BOOLEAN,
   token  : Nat,
   got    : Seq(Stored),
   steady : SUBSET Stored,
   answer : BOOLEAN]

\* Every variable has its type; no write and no replica takes longer than it may.
TypeOK ==
  /\ primary \subseteq Stored /\ replica \subseteq Stored
  /\ DOMAIN wal = Stores /\ \A s \in Stores : wal[s] \in Seq(LogEntry(s))
  /\ ids \in Nat
  /\ ttl \in [Users -> Nat]
  /\ pc \in [Requests -> PC]
  /\ req \in [Requests -> Request]
  /\ changes \in 0..MaxChanges
  /\ lost \subseteq Membership

Writing(u) ==
  \E r \in Requests : pc[r] = "execute" /\ req[r].ctx = u

\* acl.go:58-60 and repository.go:113-117, and what Repository's PinExpire
\* assumes of the untimed components: a mark expires only when every write of
\* its user, to OpenFGA or to the database, has reached the replica, although
\* a mark is set before its write, and the two share one key.
MarksOutliveWrites ==
  [][\A u \in Users :
       ttl[u] > 0 /\ ttl'[u] = 0 =>
         /\ ~Writing(u)
         /\ \A s \in Stores : \A i \in DOMAIN wal[s] : wal[s][i].by # u]_vars

\* acl.go:58-60: who has changed a membership sees it changed.  A check, or a
\* look-up of the role, by the only user whose writes to that membership are
\* not replicated yet is answered as the primary would.
OwnChangesSeen ==
  [][\A r \in Requests :
       pc[r] = "read" /\ pc'[r] = "done" =>
         ((\A i \in DOMAIN wal["openfga"] :
             Key(wal["openfga"][i].tuple) = Key(req'[r])
               => wal["openfga"][i].by = req[r].ctx)
          => req'[r].answer = Holds(req'[r], primary))]_vars

\* acl.go:75-94: a role is changed by deletions and then a write, each a call
\* of its own.  However several changes of one membership interleave, once
\* they have ended the user still has a role in the organization, unless
\* somebody asked for its deletion, or a change failed or died on its way.
RoleNotLost ==
  \A mo \in Membership \ lost :
    (\A r \in Requests :
       Key(req[r]) = mo /\ req[r].op = "Set" => ~InProgress(r))
      => RolesOf(mo, primary) # {}

\* acl.go:75: a change that nobody else's write interferes with, and none of
\* whose own calls failed, leaves the user exactly the role it names, whichever
\* roles there were before.
LoneChangeExact ==
  \A r \in Requests :
    pc[r] = "done" /\ req[r].op = "Set" /\ req[r].alone
      => RolesOf(Key(req[r]), primary) = {req[r].role}

\* acl.go:150 and 183: a listing in pages, which may come from the primary and
\* from the replica in turn, has every tuple that was in both from its first
\* page to its last, and no tuple twice.
ListingExact ==
  \A r \in Requests :
    /\ \A i, j \in DOMAIN req[r].got : req[r].got[i] = req[r].got[j] => i = j
    /\ pc[r] = "done" /\ req[r].op \in ListOps
         => \A t \in req[r].steady \cap primary :
              \E i \in DOMAIN req[r].got : req[r].got[i] = t
=============================================================================
