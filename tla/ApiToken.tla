------------------------------ MODULE ApiToken ------------------------------
(***************************************************************************)
(* API tokens: CreateToken, GetToken, DeleteToken and ValidateToken of     *)
(* pkg/handler/publichandler.go, the service methods below them, the token *)
(* table of pkg/repository and the Redis cache from access token to owner  *)
(* of pkg/service/cache.go.                                                *)
(*                                                                         *)
(* A request is a small program whose every call to Redis or to the        *)
(* database is a step of its own; the steps of concurrent requests         *)
(* interleave freely.  pc[r] names the call request r makes next.          *)
(***************************************************************************)
EXTENDS Repository

CONSTANTS
  AccessTokens,  \* the strings GenerateToken may return
  Ids,           \* token ids, chosen by the client, unique for an owner
  Requests,      \* request slots: how many requests are served at once
  NoToken,       \* no access token
  NoId           \* no token id

ASSUME ApiTokenAssumption ==
  /\ NoToken \notin AccessTokens
  /\ NoId \notin Ids
  /\ NoRow \notin [owner : Users, id : Ids]

VARIABLES
  cache,     \* Redis api_token:<at>:user_uid, NoUser when absent
  pc,        \* what each request does next
  req,       \* the inputs and local variables of each request
  \* history, read by the properties and by the choice of fresh inputs only
  issued,    \* the users each access token was ever inserted for
  expired    \* the access tokens whose expire_time has passed

reqVars  == <<pc, req>>
history  == <<issued, expired>>
vars     == <<repoVars, cache, reqVars, history>>

Row == [owner : Users, id : Ids]

CreatePC   == {"createPin", "createInsert", "createCache", "createReadBack"}
DeletePC   == {"deleteCheck", "deleteGet", "deleteUncache", "deletePin",
               "deleteRow"}
ValidatePC == {"validateCache", "validateLookup", "validateFill",
               "validatePin", "validateTouch", "validateUser"}
DonePC     == {"created", "createFailed", "deleted", "deleteFailed",
               "accepted", "rejected"}
PC == {"idle"} \cup CreatePC \cup DeletePC \cup ValidatePC \cup DonePC

\* What was true of the validated token when the request arrived.
Facts == {"expired", "created"}

Req == [user  : Users \cup {NoUser},         \* the context's user
        id    : Ids \cup {NoId},             \* the token id asked for
        at    : AccessTokens \cup {NoToken}, \* the access token at hand
        uid   : Users \cup {NoUser},         \* the user a token resolves to
        facts : SUBSET Facts]

NoReq == [user |-> NoUser, id |-> NoId, at |-> NoToken, uid |-> NoUser,
          facts |-> {}]

Init ==
  /\ RepoInit([at \in AccessTokens |-> NoRow])
  /\ cache = [at \in AccessTokens |-> NoUser]
  /\ pc = [r \in Requests |-> "idle"]
  /\ req = [r \in Requests |-> NoReq]
  /\ issued = [at \in AccessTokens |-> {}]
  /\ expired = {}

-----------------------------------------------------------------------------
\* Helpers

Goto(r, label) == pc' = [pc EXCEPT ![r] = label]

Arrive(r, label, inputs) ==
  /\ pc[r] = "idle"
  /\ Goto(r, label)
  /\ req' = [req EXCEPT ![r] = inputs]

\* The access tokens a table holds for (owner, id): at most one, by the
\* unique index of migration 000002.
Named(table, u, id) ==
  {at \in AccessTokens : table[at] # NoRow /\ table[at].owner = u
                                           /\ table[at].id = id}

SetCache(at, u) == cache' = [cache EXCEPT ![at] = u]

RedisFault == RedisMayFail /\ UNCHANGED cache

\* GenerateToken returns a string nobody has seen; when its unsynchronised
\* source races, it can be the one a concurrent CreateToken is drawing.
GeneratedTokens ==
  {at \in AccessTokens :
     /\ issued[at] = {}
     /\ (\E s \in Requests : pc[s] \in CreatePC /\ req[s].at = at)
          => "rng" \in Environment}

-----------------------------------------------------------------------------
\* CreateToken

CreateToken(r) ==
  \E u \in Users, id \in Ids, at \in GeneratedTokens :
    /\ Arrive(r, "createPin", [NoReq EXCEPT !.user = u, !.id = id, !.at = at])
    /\ UNCHANGED <<repoVars, cache, history>>

CreatePin(r) ==
  /\ pc[r] = "createPin"
  /\ PinUser(req[r].user)
  /\ Goto(r, "createInsert")
  /\ UNCHANGED <<primary, replica, wal, cache, req, history>>

\* The INSERT fails on either unique index: access_token, (owner, id).
Conflicts(at, u, id) == primary[at] # NoRow \/ Named(primary, u, id) # {}

\* A mutant of CreateInsert: its error is dropped.
CreateInsertUnchecked(r) ==
  /\ pc[r] = "createInsert"
  /\ LET at == req[r].at
         u  == req[r].user
         id == req[r].id
     IN  \/ Conflicts(at, u, id) /\ UNCHANGED <<repoVars, issued>>
         \/ /\ ~Conflicts(at, u, id)
            /\ Commit(at, [owner |-> u, id |-> id], u)
            /\ issued' = [issued EXCEPT ![at] = @ \cup {u}]
            /\ UNCHANGED pinned
  /\ Goto(r, "createCache")
  /\ UNCHANGED <<cache, req, expired>>

CreateInsert(r) ==
  /\ pc[r] = "createInsert"
  /\ LET at == req[r].at
         u  == req[r].user
         id == req[r].id
     IN  \/ /\ Conflicts(at, u, id)
            /\ Goto(r, "createFailed")
            /\ UNCHANGED <<repoVars, issued>>
         \/ /\ ~Conflicts(at, u, id)
            /\ Commit(at, [owner |-> u, id |-> id], u)
            /\ issued' = [issued EXCEPT ![at] = @ \cup {u}]
            /\ Goto(r, "createCache")
            /\ UNCHANGED pinned
  /\ UNCHANGED <<cache, req, expired>>

\* A mutant of CreateCache: the new token is left to the first validation.
CreateCacheForgotten(r) ==
  /\ pc[r] = "createCache"
  /\ Goto(r, "createReadBack")
  /\ UNCHANGED <<repoVars, cache, req, history>>

\* The error of setAPITokenToCache is dropped.
CreateCache(r) ==
  /\ pc[r] = "createCache"
  /\ SetCache(req[r].at, req[r].user) \/ RedisFault
  /\ Goto(r, "createReadBack")
  /\ UNCHANGED <<repoVars, req, history>>

\* The handler answers with what it reads back by (owner, id): after a deletion
\* and a second CreateToken, that is not the token it has inserted.
CreateReadBack(r) ==
  /\ pc[r] = "createReadBack"
  /\ \E t \in Snapshots(req[r].user) :
       \/ \E at \in Named(t, req[r].user, req[r].id) :
            /\ req' = [req EXCEPT ![r].at = at]
            /\ Goto(r, "created")
       \/ /\ Named(t, req[r].user, req[r].id) = {}
          /\ Goto(r, "createFailed")
          /\ UNCHANGED req
  /\ UNCHANGED <<repoVars, cache, history>>

-----------------------------------------------------------------------------
\* DeleteToken

DeleteToken(r) ==
  \E u \in Users, id \in Ids :
    /\ Arrive(r, "deleteCheck", [NoReq EXCEPT !.user = u, !.id = id])
    /\ UNCHANGED <<repoVars, cache, history>>

\* The handler's own GetToken.
DeleteCheck(r) ==
  /\ pc[r] = "deleteCheck"
  /\ \E t \in Snapshots(req[r].user) :
       Goto(r, IF Named(t, req[r].user, req[r].id) = {}
               THEN "deleteFailed" ELSE "deleteGet")
  /\ UNCHANGED <<repoVars, cache, req, history>>

\* The service reads the row again: this read says which cache entry to drop.
DeleteGet(r) ==
  /\ pc[r] = "deleteGet"
  /\ \E t \in Snapshots(req[r].user) :
       \/ \E at \in Named(t, req[r].user, req[r].id) :
            /\ req' = [req EXCEPT ![r].at = at]
            /\ Goto(r, "deleteUncache")
       \/ /\ Named(t, req[r].user, req[r].id) = {}
          /\ Goto(r, "deleteFailed")
          /\ UNCHANGED req
  /\ UNCHANGED <<repoVars, cache, history>>

\* The error of deleteAPITokenFromCache is dropped.
DeleteUncache(r) ==
  /\ pc[r] = "deleteUncache"
  /\ SetCache(req[r].at, NoUser) \/ RedisFault
  /\ Goto(r, "deletePin")
  /\ UNCHANGED <<repoVars, req, history>>

DeletePin(r) ==
  /\ pc[r] = "deletePin"
  /\ PinUser(req[r].user)
  /\ Goto(r, "deleteRow")
  /\ UNCHANGED <<primary, replica, wal, cache, req, history>>

\* DELETE ... WHERE id AND owner: the row it removes need not be the one read.
DeleteRow(r) ==
  /\ pc[r] = "deleteRow"
  /\ \/ \E at \in Named(primary, req[r].user, req[r].id) :
          /\ Commit(at, NoRow, req[r].user)
          /\ Goto(r, "deleted")
          /\ UNCHANGED pinned
     \/ /\ Named(primary, req[r].user, req[r].id) = {}
        /\ Goto(r, "deleteFailed")
        /\ UNCHANGED repoVars
  /\ UNCHANGED <<cache, req, history>>

-----------------------------------------------------------------------------
\* ValidateToken.  Its context carries no UserUIDCtxKey, so that every one of
\* its database calls is made, and pinned, under NoUser.

BeingCreated(at) ==
  \E r \in Requests : pc[r] \in CreatePC /\ req[r].at = at

FactsOf(at) ==
  {f \in Facts : \/ f = "expired" /\ at \in expired
                 \/ f = "created" /\ primary[at] # NoRow /\ ~BeingCreated(at)}

ValidateToken(r) ==
  \E at \in {a \in AccessTokens : issued[a] # {}} :
    /\ Arrive(r, "validateCache",
              [NoReq EXCEPT !.at = at, !.facts = FactsOf(at)])
    /\ UNCHANGED <<repoVars, cache, history>>

ValidateCache(r) ==
  /\ pc[r] = "validateCache"
  /\ LET uid == cache[req[r].at]
     IN  \/ /\ uid # NoUser
            /\ req' = [req EXCEPT ![r].uid = uid]
            /\ Goto(r, "validatePin")
         \/ /\ uid = NoUser \/ RedisMayFail
            /\ Goto(r, "validateLookup")
            /\ UNCHANGED req
  /\ UNCHANGED <<repoVars, cache, history>>

\* A mutant of ValidateLookup: the empty row of a failed read is used.
ValidateLookupUnchecked(r) ==
  /\ pc[r] = "validateLookup"
  /\ \E t \in Snapshots(NoUser) :
       req' = [req EXCEPT ![r].uid =
                 IF t[req[r].at] = NoRow THEN NoRow ELSE t[req[r].at].owner]
  /\ Goto(r, "validateFill")
  /\ UNCHANGED <<repoVars, cache, history>>

\* LookupToken compares access_token and nothing else.
ValidateLookup(r) ==
  /\ pc[r] = "validateLookup"
  /\ \E t \in Snapshots(NoUser) :
       \/ /\ t[req[r].at] # NoRow
          /\ req' = [req EXCEPT ![r].uid = t[req[r].at].owner]
          /\ Goto(r, "validateFill")
       \/ /\ t[req[r].at] = NoRow
          /\ Goto(r, "rejected")
          /\ UNCHANGED req
  /\ UNCHANGED <<repoVars, cache, history>>

ValidateFill(r) ==
  /\ pc[r] = "validateFill"
  /\ SetCache(req[r].at, req[r].uid) \/ RedisFault
  /\ Goto(r, "validatePin")
  /\ UNCHANGED <<repoVars, req, history>>

\* UpdateTokenLastUseTime pins NoUser ...
ValidatePin(r) ==
  /\ pc[r] = "validatePin"
  /\ PinUser(NoUser)
  /\ Goto(r, "validateTouch")
  /\ UNCHANGED <<primary, replica, wal, cache, req, history>>

\* A mutant of RowsAffected: the result of the UPDATE is not looked at.
RowsAffectedIgnored(at) == TRUE

\* ... and updates the primary: no row updated is an error.
RowsAffected(at) == primary[at] # NoRow

ValidateTouch(r) ==
  /\ pc[r] = "validateTouch"
  /\ Goto(r, IF RowsAffected(req[r].at) THEN "validateUser" ELSE "rejected")
  /\ UNCHANGED <<repoVars, cache, req, history>>

\* GetUserByUIDAdmin: the user exists, since no handler removes one, but the
\* error of writing it to the user cache is returned.
ValidateUser(r) ==
  /\ pc[r] = "validateUser"
  /\ Goto(r, "accepted") \/ (RedisMayFail /\ Goto(r, "rejected"))
  /\ UNCHANGED <<repoVars, cache, req, history>>

-----------------------------------------------------------------------------
\* The environment

Finish(r) ==
  /\ pc[r] \in DonePC
  /\ Goto(r, "idle")
  /\ req' = [req EXCEPT ![r] = NoReq]
  /\ UNCHANGED <<repoVars, cache, history>>

\* A cancelled context makes every later call fail, and so does a crash: the
\* request goes no further and its client gets no answer.
Abort(r) ==
  /\ "abort" \in Environment
  /\ pc[r] \notin DonePC \cup {"idle"}
  /\ Goto(r, "idle")
  /\ req' = [req EXCEPT ![r] = NoReq]
  /\ UNCHANGED <<repoVars, cache, history>>

\* A mutant of CacheExpire: entries are written without an expiration.
CacheNeverExpires(at) == FALSE

\* A cache entry lives five minutes: longer than a lag that
\* ReplicationTimeFrame (60 seconds by default) bounds.
CacheExpire(at) ==
  /\ cache[at] # NoUser
  /\ TimelyReplication => ~Lagging(at)
  /\ SetCache(at, NoUser)
  /\ UNCHANGED <<repoVars, reqVars, history>>

TokenExpire(at) ==
  /\ "clock" \in Environment
  /\ issued[at] # {}
  /\ at \notin expired
  /\ expired' = expired \cup {at}
  /\ UNCHANGED <<repoVars, cache, reqVars, issued>>

Writing(u) ==
  \E r \in Requests :
    /\ pc[r] \in {"createInsert", "deleteRow", "validateTouch"}
    /\ req[r].user = u

Backend ==
  \/ Replicate /\ UNCHANGED <<cache, reqVars, history>>
  \/ \E u \in Users \cup {NoUser} :
       PinExpire(u, Writing(u)) /\ UNCHANGED <<cache, reqVars, history>>
  \/ \E at \in AccessTokens : CacheExpire(at) \/ TokenExpire(at)

Proceed(r) ==
  \/ CreatePin(r) \/ CreateInsert(r) \/ CreateCache(r) \/ CreateReadBack(r)
  \/ DeleteCheck(r) \/ DeleteGet(r) \/ DeleteUncache(r) \/ DeletePin(r)
  \/ DeleteRow(r)
  \/ ValidateCache(r) \/ ValidateLookup(r) \/ ValidateFill(r)
  \/ ValidatePin(r) \/ ValidateTouch(r) \/ ValidateUser(r)
  \/ Finish(r)

Next ==
  \/ \E r \in Requests :
       \/ CreateToken(r) \/ DeleteToken(r) \/ ValidateToken(r)
       \/ Proceed(r) \/ Abort(r)
  \/ Backend

Spec == Init /\ [][Next]_vars

-----------------------------------------------------------------------------
\* Safety

\* Every variable has its type; the write-ahead log holds well-formed records.
TypeOK ==
  /\ primary \in [AccessTokens -> Row \cup {NoRow}]
  /\ replica \in [AccessTokens -> Row \cup {NoRow}]
  /\ wal \in Seq([key : AccessTokens, row : Row \cup {NoRow}, by : Users])
  /\ pinned \subseteq Users \cup {NoUser}
  /\ cache \in [AccessTokens -> Users \cup {NoUser}]
  /\ pc \in [Requests -> PC]
  /\ req \in [Requests -> Req]
  /\ issued \in [AccessTokens -> SUBSET Users]
  /\ expired \subseteq AccessTokens

\* No access token is ever tied to a user it was not inserted for: not in the
\* cache, not in a validation that is under way or answered.  The cache is
\* filled from local variables of CreateToken and of ValidateToken, long after
\* they were computed, and a failed INSERT must leave nothing behind.
OnlyIssuedOwners ==
  /\ \A at \in AccessTokens : cache[at] # NoUser => cache[at] \in issued[at]
  /\ \A r \in Requests :
       req[r].uid # NoUser => req[r].uid \in issued[req[r].at]

\* The service implements TokenAuthority: a validation takes effect when the
\* UPDATE of last_use_time reaches the primary, whatever the cache, the
\* replica and the other requests did in between.  A revoked token that is
\* still cached, or still on the replica, is not accepted.
Decided == {"validateUser", "accepted"}

Authority == INSTANCE TokenAuthority WITH
  owner   <- [at \in AccessTokens |->
                IF primary[at] = NoRow THEN NoUser ELSE primary[at].owner],
  spent   <- {at \in AccessTokens : issued[at] # {}},
  verdict <- [r \in Requests |->
                IF pc[r] \in Decided
                THEN [at |-> req[r].at, uid |-> req[r].uid]
                ELSE [at |-> NoToken, uid |-> NoUser]]

ImplementsAuthority == Authority!Spec

\* What CreateToken answers is true of the table at that moment: the token shown
\* is the one that has this id then, and an error says that there is none.  The
\* replica may lag behind the INSERT, or behind the deletion of an older token
\* of the same id, which it would show; PinUser is for this
\* (repository.go:102-104).
ReadBackIsCurrent ==
  [][\A r \in Requests :
       /\ pc[r] = "createReadBack" /\ pc'[r] = "created"
            => req'[r].at \in Named(primary, req[r].user, req[r].id)
       /\ pc[r] = "createReadBack" /\ pc'[r] = "createFailed"
            => Named(primary, req[r].user, req[r].id) = {}]_vars

BeingDeleted(at) ==
  \E r \in Requests : pc[r] \in {"deletePin", "deleteRow"} /\ req[r].at = at

\* A token whose CreateToken has answered is accepted by every validation that
\* starts later, until somebody deletes it: ValidateToken reads as NoUser,
\* which CreateToken has not pinned, so what covers the lag of the replica is
\* the cache entry CreateToken leaves.  (A deletion that names a string which was
\* drawn twice removes the entry of the second token: with "rng", this holds of
\* two requests and not of three.)
CreatedTokenIsAccepted ==
  [][\A r \in Requests :
       pc'[r] = "rejected" /\ pc[r] # "rejected" /\ "created" \in req[r].facts
         => primary[req[r].at] = NoRow \/ BeingDeleted(req[r].at)]_vars

\* datamodel.go:25-27 says that current_time < expire_time decides whether a
\* token has expired: a token that had expired when the request arrived is not
\* accepted.
ExpiredTokenRejected ==
  \A r \in Requests : pc[r] = "accepted" => "expired" \notin req[r].facts

-----------------------------------------------------------------------------
\* Liveness.  The replica applies what it has been sent; Redis drops entries
\* after five minutes.  A request may be stuck for ever between two calls.

Fairness ==
  /\ WF_vars(Replicate /\ UNCHANGED <<cache, reqVars, history>>)
  /\ \A at \in AccessTokens : WF_vars(CacheExpire(at))

FairSpec == Spec /\ Fairness

\* From some point on, the cache names no token that is not in the table: a
\* stale entry that DeleteToken left behind, or that a validation re-created
\* from the replica, does not stay, even though no request removes it.
RevokedLeavesCache ==
  \A at \in AccessTokens :
    <>[](cache[at] # NoUser => primary[at] # NoRow)

=============================================================================
