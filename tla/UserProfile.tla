----------------------------- MODULE UserProfile -----------------------------
(***************************************************************************)
(* User profiles: the reads GetUser, GetUserAdmin, GetUserByUIDAdmin and   *)
(* GetAuthenticatedUser, PatchAuthenticatedUser with the service method    *)
(* UpdateAuthenticatedUser, CreateAuthenticatedUser and DeleteUser of      *)
(* pkg/service/service.go, over the owner table and the Redis user cache,  *)
(* which keeps a profile under two keys, "user:<id>" and "user:<uid>".     *)
(*                                                                         *)
(* As in ApiToken, every call to Redis or to the database is a step.       *)
(***************************************************************************)
EXTENDS Repository

CONSTANTS
  Registered,  \* the users that have a row when the server starts
  Fields,      \* the profile fields the model tells apart
  Blank,       \* the avatar "data:text/plain;base64,": present, and empty
  Requests,    \* request slots
  NoEntry,     \* no cache entry
  MaxPatches   \* bound: how many PATCH requests arrive

ASSUME UserProfileAssumption ==
  /\ Registered \subseteq Users
  /\ Fields \subseteq {"bio", "role", "avatar"}
  /\ MaxPatches \in Nat
  /\ Blank \notin Nat

VARIABLES
  cache,    \* Redis user:<id> and user:<uid>
  pc,       \* what each request does next
  req,      \* the inputs and local variables of each request
  patches,  \* how many PATCH requests have arrived
  latest    \* history: how often each user's row has been written

reqVars == <<pc, req>>
vars    == <<repoVars, cache, reqVars, patches, latest>>

\* An id, or a UID in its string form: both are spelled "user:<...>" in Redis.
Keys == {"id", "uid"} \X Users

\* 0 is the value every field starts with; a PATCH brings a value of its own.
Values == 0..MaxPatches \cup {Blank}

\* Row ver is the row after its ver-th write (its update_time, in order).
Row   == [ver : Nat, val : [Fields -> Values]]
Entry == [user : Users, ver : Nat]

NoKey == <<"id", NoUser>>

ReadPC   == {"getCache", "getRead", "getFill", "uidCache", "uidRead",
             "uidFillId", "uidFillUid", "authRead"}
PatchPC  == {"patchRead", "patchExisting", "patchAvatar", "patchDelId",
             "patchDelUid", "patchPin", "patchWrite", "patchReadBack"}
DeletePC == {"deleteRead", "deleteDelId", "deleteDelUid", "deletePin",
             "deleteRow"}
CreatePC == {"createPin", "createInsert", "createReadBack"}
DonePC   == {"answered", "patched", "deleted", "created", "failed"}
PC == {"idle"} \cup ReadPC \cup PatchPC \cup DeletePC \cup CreatePC
               \cup DonePC

NoReq == [op    |-> "none",    \* which endpoint
          ctx   |-> NoUser,    \* the user whose UID the context carries
          key   |-> NoKey,     \* the user asked for, as the request names it
          mask  |-> "none",    \* PATCH: the field of the update mask
          val   |-> [f \in Fields |-> 0],  \* PATCH: the fields to be written
          entry |-> NoEntry,   \* whose profile is at hand, in which version
          floor |-> 0]         \* history: the version of ctx's row on arrival
                               \* or, from its UPDATE on, as a PATCH wrote it

Init ==
  /\ RepoInit([u \in Users |-> IF u \in Registered
                               THEN [ver |-> 1, val |-> [f \in Fields |-> 0]]
                               ELSE NoRow])
  /\ cache = [k \in Keys |-> NoEntry]
  /\ pc = [r \in Requests |-> "idle"]
  /\ req = [r \in Requests |-> NoReq]
  /\ patches = 0
  /\ latest = [u \in Users |-> IF u \in Registered THEN 1 ELSE 0]

-----------------------------------------------------------------------------
\* Helpers

Goto(r, label) == pc' = [pc EXCEPT ![r] = label]

Become(r, label, record) ==
  /\ Goto(r, label)
  /\ req' = [req EXCEPT ![r] = record]

Arrive(r, label, inputs) ==
  /\ pc[r] = "idle"
  /\ Become(r, label, inputs)

SetCache(k, entry) == cache' = [cache EXCEPT ![k] = entry]

\* A call to Redis that fails, and with it the request.
RedisFailure(r) ==
  /\ RedisMayFail
  /\ Goto(r, "failed")
  /\ UNCHANGED cache

Version(table, u) == IF table[u] = NoRow THEN 0 ELSE table[u].ver

\* Every write of u's row gives it its next version.
Write(u, val, by) ==
  /\ latest' = [latest EXCEPT ![u] = @ + 1]
  /\ Commit(u, [ver |-> latest[u] + 1, val |-> val], by)

Profile(table, u) == [user |-> u, ver |-> table[u].ver]

-----------------------------------------------------------------------------
\* GetUser (public, for the context's user) and GetUserAdmin (private, and
\* CheckNamespace; without a context user): by the name in the request.

GetUser(r) ==
  \E ctx \in Users \cup {NoUser}, k \in Keys :
    /\ Arrive(r, "getCache", [NoReq EXCEPT !.op = "get", !.ctx = ctx, !.key = k])
    /\ UNCHANGED <<repoVars, cache, patches, latest>>

\* convertUserIDAlias: "me" is looked up by the context's UID first.
GetMe(r) ==
  \E ctx \in Users :
    /\ Arrive(r, "uidCache",
              [NoReq EXCEPT !.op = "me", !.ctx = ctx, !.key = <<"uid", ctx>>])
    /\ UNCHANGED <<repoVars, cache, patches, latest>>

\* The cache is asked for whatever the request names, id or not.
GetCache(r) ==
  /\ pc[r] = "getCache"
  /\ LET entry == cache[req[r].key]
     IN  \/ /\ entry # NoEntry
            /\ Become(r, "answered", [req[r] EXCEPT !.entry = entry])
         \/ /\ entry = NoEntry \/ RedisMayFail
            /\ Goto(r, "getRead")
            /\ UNCHANGED req
  /\ UNCHANGED <<repoVars, cache, patches, latest>>

\* A mutant of GetRead: the error of the read is dropped.
GetReadUnchecked(r) ==
  /\ pc[r] = "getRead"
  /\ \E t \in Snapshots(req[r].ctx) :
       LET u == req[r].key[2]
       IN  Become(r, "getFill",
                  [req[r] EXCEPT !.entry = IF t[u] = NoRow
                                           THEN [user |-> NoUser, ver |-> 0]
                                           ELSE Profile(t, u)])
  /\ UNCHANGED <<repoVars, cache, patches, latest>>

\* SELECT ... WHERE id: the string form of a UID is no user's id.
GetRead(r) ==
  /\ pc[r] = "getRead"
  /\ LET u == req[r].key[2]
     IN  \E t \in Snapshots(req[r].ctx) :
           \/ /\ req[r].key[1] = "id" /\ t[u] # NoRow
              /\ Become(r, "getFill",
                        [req[r] EXCEPT !.entry = Profile(t, u)])
           \/ /\ req[r].key[1] = "uid" \/ t[u] = NoRow
              /\ Goto(r, "failed")
              /\ UNCHANGED req
  /\ UNCHANGED <<repoVars, cache, patches, latest>>

\* setUserToCache: under the id only.  Its error is returned.
GetFill(r) ==
  /\ pc[r] = "getFill"
  /\ \/ SetCache(<<"id", req[r].entry.user>>, req[r].entry) /\ Goto(r, "answered")
     \/ RedisFailure(r)
  /\ UNCHANGED <<repoVars, req, patches, latest>>

-----------------------------------------------------------------------------
\* GetUserByUIDAdmin, called by ValidateToken, by the private LookUpUserAdmin
\* (both without a context user) and for the alias "me".

LookUpUser(r) ==
  \E u \in Users :
    /\ Arrive(r, "uidCache", [NoReq EXCEPT !.op = "lookup", !.key = <<"uid", u>>])
    /\ UNCHANGED <<repoVars, cache, patches, latest>>

\* What follows once the UID is resolved: "me" goes on as GetUser by id.
Resolved(r, entry) ==
  IF req[r].op = "me"
  THEN Become(r, "getCache", [req[r] EXCEPT !.key = <<"id", entry.user>>])
  ELSE Become(r, "answered", [req[r] EXCEPT !.entry = entry])

UidCache(r) ==
  /\ pc[r] = "uidCache"
  /\ LET entry == cache[req[r].key]
     IN  \/ entry # NoEntry /\ Resolved(r, entry)
         \/ /\ entry = NoEntry \/ RedisMayFail
            /\ Goto(r, "uidRead")
            /\ UNCHANGED req
  /\ UNCHANGED <<repoVars, cache, patches, latest>>

UidRead(r) ==
  /\ pc[r] = "uidRead"
  /\ LET u == req[r].key[2]
     IN  \E t \in Snapshots(req[r].ctx) :
           \/ /\ t[u] # NoRow
              /\ Become(r, "uidFillId",
                        [req[r] EXCEPT !.entry = Profile(t, u)])
           \/ /\ t[u] = NoRow
              /\ Goto(r, "failed")
              /\ UNCHANGED req
  /\ UNCHANGED <<repoVars, cache, patches, latest>>

\* setUserToCacheWithUID writes both keys, one call after the other.
UidFillId(r) ==
  /\ pc[r] = "uidFillId"
  /\ \/ SetCache(<<"id", req[r].entry.user>>, req[r].entry) /\ Goto(r, "uidFillUid")
     \/ RedisFailure(r)
  /\ UNCHANGED <<repoVars, req, patches, latest>>

UidFillUid(r) ==
  /\ pc[r] = "uidFillUid"
  /\ \/ SetCache(req[r].key, req[r].entry) /\ Resolved(r, req[r].entry)
     \/ RedisFailure(r) /\ UNCHANGED req
  /\ UNCHANGED <<repoVars, patches, latest>>

-----------------------------------------------------------------------------
\* GetAuthenticatedUser: the context's own row, never cached

ReadOwnRow(r, found) ==
  \E t \in Snapshots(req[r].ctx) :
    \/ /\ t[req[r].ctx] # NoRow
       /\ Become(r, found, [req[r] EXCEPT !.entry = Profile(t, req[r].ctx)])
    \/ /\ t[req[r].ctx] = NoRow
       /\ Goto(r, "failed")
       /\ UNCHANGED req

GetAuthenticatedUser(r) ==
  \E ctx \in Users :
    /\ Arrive(r, "authRead",
              [NoReq EXCEPT !.op = "auth", !.ctx = ctx,
                            !.floor = Version(primary, ctx)])
    /\ UNCHANGED <<repoVars, cache, patches, latest>>

AuthRead(r) ==
  /\ pc[r] = "authRead"
  /\ ReadOwnRow(r, "answered")
  /\ UNCHANGED <<repoVars, cache, patches, latest>>

-----------------------------------------------------------------------------
\* PatchAuthenticatedUser

\* The value of the masked field is the number of the PATCH: no other request
\* brings the same.
PatchUser(r) ==
  \E ctx \in Users, f \in Fields :
    /\ patches < MaxPatches
    /\ patches' = patches + 1
    /\ Arrive(r, "patchRead",
              [NoReq EXCEPT !.op = "patch", !.ctx = ctx, !.mask = f,
                            !.val[f] = patches + 1,
                            !.floor = Version(primary, ctx)])
    /\ UNCHANGED <<repoVars, cache, latest>>

\* A mutant of Masked: what the request brings is written as it is.
MaskedFromRequest(r, val) == req[r].val

\* The handler reads the whole profile and copies the masked field into it.
Masked(r, val) == [val EXCEPT ![req[r].mask] = req[r].val[req[r].mask]]

PatchRead(r) ==
  /\ pc[r] = "patchRead"
  /\ \E t \in Snapshots(req[r].ctx) :
       LET row == t[req[r].ctx]
       IN  \/ /\ row # NoRow
              /\ Become(r, "patchExisting",
                        [req[r] EXCEPT !.val = Masked(r, row.val)])
           \/ /\ row = NoRow
              /\ Goto(r, "failed")
              /\ UNCHANGED req
  /\ UNCHANGED <<repoVars, cache, patches, latest>>

\* UpdateAuthenticatedUser reads the row again, for its id and UID.
PatchExisting(r) ==
  /\ pc[r] = "patchExisting"
  /\ \E t \in Snapshots(req[r].ctx) :
       Goto(r, IF t[req[r].ctx] = NoRow THEN "failed"
               ELSE IF "avatar" \in Fields \ {req[r].mask} THEN "patchAvatar"
               ELSE "patchDelId")
  /\ UNCHANGED <<repoVars, cache, req, patches, latest>>

\* The profile at hand holds not the avatar but its URL.  compressAvatar gets
\* it over HTTP from this very backend (HandleAvatar, a read without a context
\* user); it takes the body of any answer, a "no content" or "not found" too,
\* and drops the avatar if there is no answer.
FetchedAvatars(u) ==
  {IF t[u] = NoRow \/ t[u].val["avatar"] = 0 THEN Blank ELSE t[u].val["avatar"] :
     t \in Snapshots(NoUser)}
    \cup {0}

PatchAvatar(r) ==
  /\ pc[r] = "patchAvatar"
  /\ \E avatar \in FetchedAvatars(req[r].ctx) :
       Become(r, "patchDelId", [req[r] EXCEPT !.val["avatar"] = avatar])
  /\ UNCHANGED <<repoVars, cache, patches, latest>>

\* deleteUserFromCacheByIDAndUID: both keys, and an error ends the request.
PatchDelId(r) ==
  /\ pc[r] = "patchDelId"
  /\ \/ SetCache(<<"id", req[r].ctx>>, NoEntry) /\ Goto(r, "patchDelUid")
     \/ RedisFailure(r)
  /\ UNCHANGED <<repoVars, req, patches, latest>>

\* Mutants of PatchDelUid: the entry is not removed ...
PatchDelUidForgotten(r) ==
  /\ pc[r] = "patchDelUid"
  /\ Goto(r, "patchPin")
  /\ UNCHANGED <<repoVars, cache, req, patches, latest>>

\* ... or it is replaced by the profile that is about to be written.
PatchDelUidWriteThrough(r) ==
  /\ pc[r] = "patchDelUid"
  /\ SetCache(<<"uid", req[r].ctx>>,
              [user |-> req[r].ctx, ver |-> latest[req[r].ctx] + 1])
  /\ Goto(r, "patchPin")
  /\ UNCHANGED <<repoVars, req, patches, latest>>

PatchDelUid(r) ==
  /\ pc[r] = "patchDelUid"
  /\ \/ SetCache(<<"uid", req[r].ctx>>, NoEntry) /\ Goto(r, "patchPin")
     \/ RedisFailure(r)
  /\ UNCHANGED <<repoVars, req, patches, latest>>

PatchPin(r) ==
  /\ pc[r] = "patchPin"
  /\ PinUser(req[r].ctx)
  /\ Goto(r, "patchWrite")
  /\ UNCHANGED <<primary, replica, wal, cache, req, patches, latest>>

\* UPDATE ... WHERE id, every column; that no row was there is not noticed.
PatchWrite(r) ==
  /\ pc[r] = "patchWrite"
  /\ \/ /\ primary[req[r].ctx] # NoRow
        /\ Write(req[r].ctx, req[r].val, req[r].ctx)
        /\ Become(r, "patchReadBack",
                  [req[r] EXCEPT !.floor = latest[req[r].ctx] + 1])
        /\ UNCHANGED pinned
     \/ /\ primary[req[r].ctx] = NoRow
        /\ Goto(r, "patchReadBack")
        /\ UNCHANGED <<repoVars, req, latest>>
  /\ UNCHANGED <<cache, patches>>

PatchReadBack(r) ==
  /\ pc[r] = "patchReadBack"
  /\ ReadOwnRow(r, "patched")
  /\ UNCHANGED <<repoVars, cache, patches, latest>>

-----------------------------------------------------------------------------
\* DeleteUser: like the update, the cache first and the row after it

DeleteUser(r) ==
  \E ctx, u \in Users :
    /\ Arrive(r, "deleteRead",
              [NoReq EXCEPT !.op = "delete", !.ctx = ctx, !.key = <<"id", u>>])
    /\ UNCHANGED <<repoVars, cache, patches, latest>>

DeleteRead(r) ==
  /\ pc[r] = "deleteRead"
  /\ \E t \in Snapshots(req[r].ctx) :
       Goto(r, IF t[req[r].key[2]] = NoRow THEN "failed" ELSE "deleteDelId")
  /\ UNCHANGED <<repoVars, cache, req, patches, latest>>

DeleteDelId(r) ==
  /\ pc[r] = "deleteDelId"
  /\ \/ SetCache(req[r].key, NoEntry) /\ Goto(r, "deleteDelUid")
     \/ RedisFailure(r)
  /\ UNCHANGED <<repoVars, req, patches, latest>>

DeleteDelUid(r) ==
  /\ pc[r] = "deleteDelUid"
  /\ \/ SetCache(<<"uid", req[r].key[2]>>, NoEntry) /\ Goto(r, "deletePin")
     \/ RedisFailure(r)
  /\ UNCHANGED <<repoVars, req, patches, latest>>

DeletePin(r) ==
  /\ pc[r] = "deletePin"
  /\ PinUser(req[r].ctx)
  /\ Goto(r, "deleteRow")
  /\ UNCHANGED <<primary, replica, wal, cache, req, patches, latest>>

DeleteRow(r) ==
  /\ pc[r] = "deleteRow"
  /\ \/ /\ primary[req[r].key[2]] # NoRow
        /\ Commit(req[r].key[2], NoRow, req[r].ctx)
        /\ Goto(r, "deleted")
        /\ UNCHANGED pinned
     \/ /\ primary[req[r].key[2]] = NoRow
        /\ Goto(r, "failed")
        /\ UNCHANGED repoVars
  /\ UNCHANGED <<cache, req, patches, latest>>

-----------------------------------------------------------------------------
\* CreateAuthenticatedUser: the new user gets a fresh UID; what is read back
\* is the row of the context's user.

CreateUser(r) ==
  \E ctx, u \in Users :
    /\ latest[u] = 0
    /\ \A s \in Requests : pc[s] \in CreatePC => req[s].key # <<"id", u>>
    /\ Arrive(r, "createPin",
              [NoReq EXCEPT !.op = "create", !.ctx = ctx, !.key = <<"id", u>>])
    /\ UNCHANGED <<repoVars, cache, patches, latest>>

CreatePin(r) ==
  /\ pc[r] = "createPin"
  /\ PinUser(req[r].ctx)
  /\ Goto(r, "createInsert")
  /\ UNCHANGED <<primary, replica, wal, cache, req, patches, latest>>

\* The INSERT may fail on the unique index of the e-mail addresses.
CreateInsert(r) ==
  /\ pc[r] = "createInsert"
  /\ \/ /\ Write(req[r].key[2], [f \in Fields |-> 0], req[r].ctx)
        /\ Goto(r, "createReadBack")
        /\ UNCHANGED pinned
     \/ /\ Goto(r, "failed")
        /\ UNCHANGED <<repoVars, latest>>
  /\ UNCHANGED <<cache, req, patches>>

CreateReadBack(r) ==
  /\ pc[r] = "createReadBack"
  /\ ReadOwnRow(r, "created")
  /\ UNCHANGED <<repoVars, cache, patches, latest>>

-----------------------------------------------------------------------------
\* The environment

Finish(r) ==
  /\ pc[r] \in DonePC
  /\ Become(r, "idle", NoReq)
  /\ UNCHANGED <<repoVars, cache, patches, latest>>

Abort(r) ==
  /\ "abort" \in Environment
  /\ pc[r] \notin DonePC \cup {"idle"}
  /\ Become(r, "idle", NoReq)
  /\ UNCHANGED <<repoVars, cache, patches, latest>>

\* A mutant of CacheExpire: entries are written without an expiration.
CacheNeverExpires(k) == FALSE

CacheExpire(k) ==
  /\ cache[k] # NoEntry
  /\ SetCache(k, NoEntry)
  /\ UNCHANGED <<repoVars, reqVars, patches, latest>>

Writing(u) ==
  \E r \in Requests :
    /\ pc[r] \in {"patchWrite", "deleteRow", "createInsert"}
    /\ req[r].ctx = u

Backend ==
  \/ Replicate /\ UNCHANGED <<cache, reqVars, patches, latest>>
  \/ \E u \in Users : PinExpire(u, Writing(u))
                        /\ UNCHANGED <<cache, reqVars, patches, latest>>
  \/ \E k \in Keys : CacheExpire(k)

Proceed(r) ==
  \/ GetCache(r) \/ GetRead(r) \/ GetFill(r)
  \/ UidCache(r) \/ UidRead(r) \/ UidFillId(r) \/ UidFillUid(r)
  \/ AuthRead(r)
  \/ PatchRead(r) \/ PatchExisting(r) \/ PatchAvatar(r) \/ PatchDelId(r)
  \/ PatchDelUid(r) \/ PatchPin(r) \/ PatchWrite(r) \/ PatchReadBack(r)
  \/ DeleteRead(r) \/ DeleteDelId(r) \/ DeleteDelUid(r) \/ DeletePin(r)
  \/ DeleteRow(r)
  \/ CreatePin(r) \/ CreateInsert(r) \/ CreateReadBack(r)
  \/ Finish(r)

Next ==
  \/ \E r \in Requests :
       \/ GetUser(r) \/ GetMe(r) \/ LookUpUser(r) \/ GetAuthenticatedUser(r)
       \/ PatchUser(r) \/ DeleteUser(r) \/ CreateUser(r)
       \/ Proceed(r) \/ Abort(r)
  \/ Backend

Spec == Init /\ [][Next]_vars

-----------------------------------------------------------------------------
\* Safety

\* Every variable has its type.
TypeOK ==
  /\ primary \in [Users -> Row \cup {NoRow}]
  /\ replica \in [Users -> Row \cup {NoRow}]
  /\ wal \in Seq([key : Users, row : Row \cup {NoRow}, by : Users])
  /\ pinned \subseteq Users
  /\ cache \in [Keys -> Entry \cup {NoEntry}]
  /\ pc \in [Requests -> PC]
  /\ req \in [Requests ->
               [op    : {"none", "get", "me", "lookup", "auth", "patch",
                         "delete", "create"},
                ctx   : Users \cup {NoUser},
                key   : Keys \cup {NoKey},
                mask  : Fields \cup {"none"},
                val   : [Fields -> Values],
                entry : Entry \cup {NoEntry},
                floor : Nat]]
  /\ patches \in 0..MaxPatches
  /\ latest \in [Users -> Nat]

\* An entry is of the user its key names, and of a version of that user's row
\* that has been committed: setUserToCacheWithUID is given the profile and the
\* UID separately, and fills of other requests run while a PATCH is under way
\* and may yet fail.
CacheHoldsCommitted ==
  \A k \in Keys :
    cache[k] # NoEntry =>
      /\ cache[k].user = k[2]
      /\ cache[k].ver \in 1..latest[k[2]]

\* cache.go:114-116: the user's data being modified, both cache entries are
\* invalidated.  When a PATCH has been answered, neither key of the user still
\* holds a profile older than the one it wrote.
Fresh(k, ver) == cache[k] = NoEntry \/ cache[k].ver >= ver

CacheInvalidatedByUpdate ==
  \A r \in Requests :
    pc[r] = "patched" =>
      \A kind \in {"id", "uid"} : Fresh(<<kind, req[r].ctx>>, req[r].floor)

\* repository.go:102-104: a user who has written reads what they wrote.  What
\* GetAuthenticatedUser, or the read-back of a PATCH, answers is no older than
\* the row the primary had when the request arrived, or than its own UPDATE.
OwnPatchVisible ==
  \A r \in Requests :
    (\/ pc[r] = "patched"
     \/ pc[r] = "answered" /\ req[r].op = "auth")
      => req[r].entry.ver >= req[r].floor

\* publichandler.go:231: a PATCH changes the field of its mask and leaves the
\* other fields intact.  With another PATCH in between it does not, as the
\* UPDATE is of every column; nor does it for the avatar, which is got over
\* HTTP.  But as long as nobody else writes the row between the arrival of a
\* PATCH and its UPDATE, the other fields stay as they are in the primary,
\* although what is written back was read elsewhere, perhaps on the replica,
\* some calls earlier.
LonePatchKeepsFields ==
  [][\A r \in Requests :
       (/\ pc[r] = "patchWrite" /\ pc'[r] = "patchReadBack"
        /\ primary[req[r].ctx] # NoRow
        /\ primary[req[r].ctx].ver = req[r].floor)
         => \A f \in Fields \ {req[r].mask, "avatar"} :
              primary'[req[r].ctx].val[f] = primary[req[r].ctx].val[f]]_vars

-----------------------------------------------------------------------------
\* Liveness.  The replica applies what it has been sent; Redis drops entries
\* after five minutes.  A request may be stuck for ever between two calls.

Fairness ==
  /\ WF_vars(Replicate /\ UNCHANGED <<cache, reqVars, patches, latest>>)
  /\ \A k \in Keys : WF_vars(CacheExpire(k))

FairSpec == Spec /\ Fairness

\* From some point on every cached profile is the one in the database, and a
\* deleted user is not cached: what a read of a lagging replica has put back
\* after PatchDelId or DeleteDelId goes away, though no request removes it.
CacheConverges ==
  \A k \in Keys :
    <>[](cache[k] # NoEntry =>
           /\ primary[k[2]] # NoRow
           /\ primary[k[2]].ver = cache[k].ver)
=============================================================================
