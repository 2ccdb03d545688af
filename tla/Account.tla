------------------------------ MODULE Account ------------------------------
(***************************************************************************)
(* Passwords and the accounts every deployment starts with: cmd/init,      *)
(* which makes sure of the default user "admin" with a password and of the *)
(* user "preset", next to servers that already change and check passwords  *)
(* (AuthChangePassword and AuthenticateUser, and the Redis cache of        *)
(* password hashes).                                                       *)
(*                                                                         *)
(* Every call to Redis or to the database is a step.                       *)
(***************************************************************************)
EXTENDS Repository

CONSTANTS
  Admin, Preset,  \* the two users
  Passwords,      \* the passwords people use
  Default,        \* the one of them cmd/init sets
  NoHash,         \* the empty password hash
  PresetTypes,    \* the owner types "preset" may have been left with
  Inits,          \* the cmd/init processes
  Requests,       \* request slots of the servers
  MaxCrashes,     \* bound: how often a process of cmd/init dies
  MaxChanges      \* bound: how many AuthChangePassword requests arrive

ASSUME AccountAssumption ==
  /\ {Admin, Preset} \subseteq Users /\ Admin # Preset
  /\ Default \in Passwords
  /\ NoHash \notin Passwords
  /\ PresetTypes \subseteq {"user", "organization"}
  /\ NoRow \notin [type : {"user", "organization"},
                   hash : Passwords \cup {NoHash}]
  /\ MaxCrashes \in Nat /\ MaxChanges \in Nat

VARIABLES
  cache,    \* Redis: the password hash of each user, NoHash when absent
  init,     \* what each process of cmd/init does next
  pc,       \* what each request does next
  req,      \* the inputs and local variables of each request
  crashes,  \* how often a process of cmd/init has died
  changes   \* how many AuthChangePassword requests have arrived

reqVars == <<pc, req>>
bounds  == <<crashes, changes>>
vars    == <<repoVars, cache, init, reqVars, bounds>>

\* A hash is modelled by the password that bcrypt accepts for it.
Hashes == Passwords \cup {NoHash}
Row    == [type : {"user", "organization"}, hash : Hashes]

InitPC == {"adminGet", "adminHash", "adminPin", "adminInsert", "hashPin",
           "hashWrite", "presetGet", "presetPin", "presetInsert", "done",
           "fatal"}
ChangePC == {"checkCache", "checkRead", "checkFill", "changeUncache",
             "changePin", "changeWrite"}
AuthPC   == {"authUser", "authHash"}
DonePC   == {"changed", "authenticated", "refused"}
PC == {"idle"} \cup ChangePC \cup AuthPC \cup DonePC

NoReq == [user  |-> NoUser,  \* the user the request is about
          old   |-> NoHash,  \* the password it presents
          new   |-> NoHash,  \* the password it asks for
          hash  |-> NoHash,  \* local variable passwordHash
          wrong |-> FALSE]   \* history: old was not the password any more
                             \* when the request arrived

Init ==
  /\ \E admin \in {NoRow} \cup [type : {"user"}, hash : Hashes],
        preset \in {NoRow} \cup [type : PresetTypes, hash : {NoHash}] :
       RepoInit([u \in Users |-> IF u = Admin THEN admin
                                 ELSE IF u = Preset THEN preset ELSE NoRow])
  /\ cache = [u \in Users |-> NoHash]
  /\ init = [i \in Inits |-> "adminGet"]
  /\ pc = [r \in Requests |-> "idle"]
  /\ req = [r \in Requests |-> NoReq]
  /\ crashes = 0
  /\ changes = 0

-----------------------------------------------------------------------------
\* Helpers

GotoI(i, label) == init' = [init EXCEPT ![i] = label]
Goto(r, label)  == pc' = [pc EXCEPT ![r] = label]

Arrive(r, label, inputs) ==
  /\ pc[r] = "idle"
  /\ Goto(r, label)
  /\ req' = [req EXCEPT ![r] = inputs]

SetCache(u, hash) == cache' = [cache EXCEPT ![u] = hash]

RedisFault == RedisMayFail /\ UNCHANGED cache

\* repository.GetUser: a row of another owner type is "not found".
IsUser(table, u) == table[u] # NoRow /\ table[u].type = "user"

\* UPDATE of the hash; that there is no row is not noticed.
SetHash(u, hash, by) ==
  IF primary[u] = NoRow
  THEN UNCHANGED <<primary, replica, wal>>
  ELSE Commit(u, [primary[u] EXCEPT !.hash = hash], by)

-----------------------------------------------------------------------------
\* cmd/init: createDefaultUser.  Its context carries no user.

AdminGet(i) ==
  /\ init[i] = "adminGet"
  /\ \E t \in Snapshots(NoUser) :
       GotoI(i, IF IsUser(t, Admin) THEN "adminHash" ELSE "adminPin")
  /\ UNCHANGED <<repoVars, cache, reqVars, bounds>>

\* A mutant of AdminHash: the password is taken to be there.
AdminHashAssumed(i) ==
  /\ init[i] = "adminHash"
  /\ GotoI(i, "presetGet")
  /\ UNCHANGED <<repoVars, cache, reqVars, bounds>>

\* A mutant of AdminHash: the password is set in any case.
AdminHashReset(i) ==
  /\ init[i] = "adminHash"
  /\ GotoI(i, "hashPin")
  /\ UNCHANGED <<repoVars, cache, reqVars, bounds>>

\* An older read may find no row where the read before has found one.
AdminHash(i) ==
  /\ init[i] = "adminHash"
  /\ \E t \in Snapshots(NoUser) :
       GotoI(i, IF t[Admin] = NoRow THEN "fatal"
                ELSE IF t[Admin].hash = NoHash THEN "hashPin"
                ELSE "presetGet")
  /\ UNCHANGED <<repoVars, cache, reqVars, bounds>>

AdminPin(i) ==
  /\ init[i] = "adminPin"
  /\ PinUser(NoUser)
  /\ GotoI(i, "adminInsert")
  /\ UNCHANGED <<primary, replica, wal, cache, reqVars, bounds>>

\* The id is unique, in every owner type.
AdminInsert(i) ==
  /\ init[i] = "adminInsert"
  /\ \/ /\ primary[Admin] # NoRow
        /\ GotoI(i, "fatal")
        /\ UNCHANGED <<primary, replica, wal>>
     \/ /\ primary[Admin] = NoRow
        /\ Commit(Admin, [type |-> "user", hash |-> NoHash], NoUser)
        /\ GotoI(i, "hashPin")
  /\ UNCHANGED <<pinned, cache, reqVars, bounds>>

HashPin(i) ==
  /\ init[i] = "hashPin"
  /\ PinUser(NoUser)
  /\ GotoI(i, "hashWrite")
  /\ UNCHANGED <<primary, replica, wal, cache, reqVars, bounds>>

\* UPDATE ... WHERE uid, whatever the hash is by now.
HashWrite(i) ==
  /\ init[i] = "hashWrite"
  /\ SetHash(Admin, Default, NoUser)
  /\ GotoI(i, "presetGet")
  /\ UNCHANGED <<pinned, cache, reqVars, bounds>>

-----------------------------------------------------------------------------
\* cmd/init: CreatePresetUser

\* GetUser finds users only, so that the branch which corrects the owner type
\* of what it has found is never taken.
PresetGet(i) ==
  /\ init[i] = "presetGet"
  /\ \E t \in Snapshots(NoUser) :
       GotoI(i, IF IsUser(t, Preset) THEN "done" ELSE "presetPin")
  /\ UNCHANGED <<repoVars, cache, reqVars, bounds>>

PresetPin(i) ==
  /\ init[i] = "presetPin"
  /\ PinUser(NoUser)
  /\ GotoI(i, "presetInsert")
  /\ UNCHANGED <<primary, replica, wal, cache, reqVars, bounds>>

\* A mutant of PresetInsert: "already exists" is an error like every other.
PresetInsertFatal(i) ==
  /\ init[i] = "presetInsert"
  /\ primary[Preset] # NoRow
  /\ GotoI(i, "fatal")
  /\ UNCHANGED <<repoVars, cache, reqVars, bounds>>

\* "Already exists" counts as success.
PresetInsert(i) ==
  /\ init[i] = "presetInsert"
  /\ \/ primary[Preset] # NoRow /\ UNCHANGED <<primary, replica, wal>>
     \/ /\ primary[Preset] = NoRow
        /\ Commit(Preset, [type |-> "user", hash |-> NoHash], NoUser)
  /\ GotoI(i, "done")
  /\ UNCHANGED <<pinned, cache, reqVars, bounds>>

-----------------------------------------------------------------------------
\* AuthChangePassword.  UpdateUserPassword and CheckUserPassword put the UID
\* of the user into the context.

Wrong(u, password) ==
  primary[u] # NoRow /\ primary[u].hash \notin {password, NoHash}

AuthChangePassword(r) ==
  \E u \in {Admin, Preset}, old, new \in Passwords :
    /\ changes < MaxChanges
    /\ changes' = changes + 1
    /\ Arrive(r, "checkCache", [NoReq EXCEPT !.user = u, !.old = old, !.new = new,
                                             !.wrong = Wrong(u, old)])
    /\ UNCHANGED <<repoVars, cache, init, crashes>>

\* CheckUserPassword.  An empty hash in the cache counts as absent.
CheckCache(r) ==
  /\ pc[r] = "checkCache"
  /\ LET hash == cache[req[r].user]
     IN  \/ hash # NoHash /\ Goto(r, IF hash = req[r].old THEN "changeUncache"
                                                          ELSE "refused")
         \/ (hash = NoHash \/ RedisMayFail) /\ Goto(r, "checkRead")
  /\ UNCHANGED <<repoVars, cache, init, req, bounds>>

\* A mutant of CheckRead: the empty row of a failed read is used.
CheckReadUnchecked(r) ==
  /\ pc[r] = "checkRead"
  /\ \E t \in Snapshots(req[r].user) :
       req' = [req EXCEPT ![r].hash = IF t[req[r].user] = NoRow THEN NoRow
                                      ELSE t[req[r].user].hash]
  /\ Goto(r, "checkFill")
  /\ UNCHANGED <<repoVars, cache, init, bounds>>

CheckRead(r) ==
  /\ pc[r] = "checkRead"
  /\ LET u == req[r].user
     IN  \E t \in Snapshots(u) :
           \/ /\ t[u] # NoRow
              /\ req' = [req EXCEPT ![r].hash = t[u].hash]
              /\ Goto(r, "checkFill")
           \/ t[u] = NoRow /\ Goto(r, "refused") /\ UNCHANGED req
  /\ UNCHANGED <<repoVars, cache, init, bounds>>

\* The error of setUserPasswordHashToCache is dropped.
CheckFill(r) ==
  /\ pc[r] = "checkFill"
  /\ SetCache(req[r].user, req[r].hash) \/ RedisFault
  /\ Goto(r, IF req[r].hash = req[r].old THEN "changeUncache" ELSE "refused")
  /\ UNCHANGED <<repoVars, init, req, bounds>>

\* A mutant of ChangeUncache: the hash that CheckUserPassword has cached stays.
ChangeUncacheForgotten(r) ==
  /\ pc[r] = "changeUncache"
  /\ Goto(r, "changePin")
  /\ UNCHANGED <<repoVars, cache, init, req, bounds>>

\* UpdateUserPassword.  The error of deleteUserPasswordHashFromCache is dropped.
ChangeUncache(r) ==
  /\ pc[r] = "changeUncache"
  /\ SetCache(req[r].user, NoHash) \/ RedisFault
  /\ Goto(r, "changePin")
  /\ UNCHANGED <<repoVars, init, req, bounds>>

ChangePin(r) ==
  /\ pc[r] = "changePin"
  /\ PinUser(req[r].user)
  /\ Goto(r, "changeWrite")
  /\ UNCHANGED <<primary, replica, wal, cache, init, req, bounds>>

ChangeWrite(r) ==
  /\ pc[r] = "changeWrite"
  /\ SetHash(req[r].user, req[r].new, req[r].user)
  /\ Goto(r, "changed")
  /\ UNCHANGED <<pinned, cache, init, req, bounds>>

-----------------------------------------------------------------------------
\* AuthenticateUser: two reads, without a context user and without the cache

AuthenticateUser(r) ==
  \E u \in {Admin, Preset}, password \in Passwords :
    /\ Arrive(r, "authUser", [NoReq EXCEPT !.user = u, !.old = password,
                                           !.wrong = /\ Wrong(u, password)
                                                     /\ ~Lagging(u)])
    /\ UNCHANGED <<repoVars, cache, init, bounds>>

AuthUser(r) ==
  /\ pc[r] = "authUser"
  /\ \E t \in Snapshots(NoUser) :
       Goto(r, IF IsUser(t, req[r].user) THEN "authHash" ELSE "refused")
  /\ UNCHANGED <<repoVars, cache, init, req, bounds>>

AuthHash(r) ==
  /\ pc[r] = "authHash"
  /\ LET u == req[r].user
     IN  \E t \in Snapshots(NoUser) :
           Goto(r, IF t[u] # NoRow /\ t[u].hash = req[r].old
                   THEN "authenticated" ELSE "refused")
  /\ UNCHANGED <<repoVars, cache, init, req, bounds>>

-----------------------------------------------------------------------------
\* The environment

Finish(r) ==
  /\ pc[r] \in DonePC
  /\ Goto(r, "idle")
  /\ req' = [req EXCEPT ![r] = NoReq]
  /\ UNCHANGED <<repoVars, cache, init, bounds>>

Abort(r) ==
  /\ "abort" \in Environment
  /\ pc[r] \notin DonePC \cup {"idle"}
  /\ Goto(r, "idle")
  /\ req' = [req EXCEPT ![r] = NoReq]
  /\ UNCHANGED <<repoVars, cache, init, bounds>>

\* The container is started again, and cmd/init with it.
Restart(i) ==
  /\ init[i] = "fatal"
  /\ GotoI(i, "adminGet")
  /\ UNCHANGED <<repoVars, cache, reqVars, bounds>>

Crash(i) ==
  /\ crashes < MaxCrashes
  /\ crashes' = crashes + 1
  /\ init[i] # "fatal"
  /\ GotoI(i, "adminGet")
  /\ UNCHANGED <<repoVars, cache, reqVars, changes>>

CacheExpire(u) ==
  /\ cache[u] # NoHash
  /\ SetCache(u, NoHash)
  /\ UNCHANGED <<repoVars, init, reqVars, bounds>>

Writing(u) ==
  \/ \E r \in Requests : pc[r] = "changeWrite" /\ req[r].user = u
  \/ /\ u = NoUser
     /\ \E i \in Inits : init[i] \in {"adminInsert", "hashWrite", "presetInsert"}

Backend ==
  \/ Replicate /\ UNCHANGED <<cache, init, reqVars, bounds>>
  \/ \E u \in Users \cup {NoUser} :
       PinExpire(u, Writing(u)) /\ UNCHANGED <<cache, init, reqVars, bounds>>
  \/ \E u \in Users : CacheExpire(u)

Provision(i) ==
  \/ AdminGet(i) \/ AdminHash(i) \/ AdminPin(i) \/ AdminInsert(i)
  \/ HashPin(i) \/ HashWrite(i)
  \/ PresetGet(i) \/ PresetPin(i) \/ PresetInsert(i)
  \/ Restart(i)

Proceed(r) ==
  \/ CheckCache(r) \/ CheckRead(r) \/ CheckFill(r)
  \/ ChangeUncache(r) \/ ChangePin(r) \/ ChangeWrite(r)
  \/ AuthUser(r) \/ AuthHash(r)
  \/ Finish(r)

Next ==
  \/ \E i \in Inits : Provision(i) \/ Crash(i)
  \/ \E r \in Requests :
       AuthChangePassword(r) \/ AuthenticateUser(r) \/ Proceed(r) \/ Abort(r)
  \/ Backend

Spec == Init /\ [][Next]_vars

-----------------------------------------------------------------------------
\* Safety

\* Every variable has its type.
TypeOK ==
  /\ primary \in [Users -> Row \cup {NoRow}]
  /\ replica \in [Users -> Row \cup {NoRow}]
  /\ wal \in Seq([key : Users, row : Row \cup {NoRow},
                  by : Users \cup {NoUser}])
  /\ pinned \subseteq Users \cup {NoUser}
  /\ cache \in [Users -> Hashes]
  /\ init \in [Inits -> InitPC]
  /\ pc \in [Requests -> PC]
  /\ req \in [Requests -> [user : Users \cup {NoUser}, old : Hashes,
                           new : Hashes, hash : Hashes, wrong : BOOLEAN]]
  /\ crashes \in 0..MaxCrashes
  /\ changes \in 0..MaxChanges

\* A process of cmd/init that has finished leaves accounts one can use: the
\* admin has a password, and there is a preset owner, whatever crashes, lagging
\* reads and other processes it met on the way.
ProvisionedWhenDone ==
  \A i \in Inits :
    init[i] = "done" =>
      /\ IsUser(primary, Admin) /\ primary[Admin].hash # NoHash
      /\ primary[Preset] # NoRow

\* cmd/init gives the admin the default password only where there is none: it
\* does not take a password away that somebody has chosen, although it reads
\* the hash, on a replica, two calls before it writes.
ChosenPasswordKept ==
  [][\A i \in Inits :
       init[i] = "hashWrite" /\ init'[i] = "presetGet" =>
         primary[Admin] # NoRow /\ primary[Admin].hash \in {NoHash, Default}]_vars

\* A password that has been changed no longer opens anything: a request that
\* arrives with another password than the user has is refused, although
\* CheckUserPassword looks into a cache first, which it filled itself while the
\* last change was under way.  AuthenticateUser reads the replica whether the
\* user is pinned or not, so it is held to this once the replica has the change.
ReplacedPasswordRefused ==
  \A r \in Requests :
    pc[r] \in {"changed", "authenticated"} => ~req[r].wrong

-----------------------------------------------------------------------------
\* Liveness.  A process of cmd/init runs on and is started again when it fails,
\* and the replica applies what it has been sent.

FairSpec ==
  /\ Spec
  /\ \A i \in Inits : WF_vars(Provision(i))
  /\ WF_vars(Replicate /\ UNCHANGED <<cache, init, reqVars, bounds>>)

\* Every process of cmd/init finishes in the end, also after it died between
\* creating the admin and setting its password, and although it may be told by
\* a lagging replica, again and again, that there is no admin yet.
InitsFinish == \A i \in Inits : <>[](init[i] = "done")
=============================================================================
