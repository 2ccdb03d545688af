---------------------------- MODULE AccountProofs ----------------------------
(***************************************************************************)
(* Theorems about Account, for every set of users, passwords, processes of *)
(* cmd/init and request slots and any number of crashes and changes.       *)
(***************************************************************************)
EXTENDS Account, RepositoryProofs

Rows    == Row \cup {NoRow}
Writers == Users \cup {NoUser}

Req == [user : Writers, old : Hashes, new : Hashes, hash : Hashes, wrong : BOOLEAN]

-----------------------------------------------------------------------------
\* The inductive invariants

\* What a request has in hand at each label.
InHandAt(label, q) ==
  label \in ChangePC \cup AuthPC =>
    /\ q.user \in {Admin, Preset}
    /\ q.old \in Passwords
    /\ label \in ChangePC => q.new \in Passwords

InHand == \A r \in Requests : InHandAt(pc[r], req[r])

TypeInv == TypeOK /\ InHand

HasHash(u) == primary[u] # NoRow /\ primary[u].hash # NoHash

\* Row is, or was, u's: there is still one, of the same type, and once it has a
\* password it keeps having one.
Reaches(row, u) ==
  row # NoRow =>
    /\ primary[u] # NoRow
    /\ row.type = primary[u].type
    /\ row.hash # NoHash => primary[u].hash # NoHash

RowsReach ==
  /\ \A u \in Users : Reaches(replica[u], u)
  /\ \A i \in DOMAIN wal : Reaches(wal[i].row, wal[i].key)

AdminIsUser == primary[Admin] # NoRow => primary[Admin].type = "user"

\* What a process of cmd/init has reached.
InitProgress ==
  \A i \in Inits :
    /\ init[i] \in {"adminHash", "hashPin", "hashWrite"} => primary[Admin] # NoRow
    /\ init[i] \in {"presetGet", "presetPin", "presetInsert", "done"} => HasHash(Admin)
    /\ init[i] = "done" => primary[Preset] # NoRow

\* Who changes a password has one.
HashKnown ==
  /\ \A u \in Users : cache[u] # NoHash => HasHash(u)
  /\ \A r \in Requests :
       /\ pc[r] = "checkFill" /\ req[r].hash # NoHash => HasHash(req[r].user)
       /\ pc[r] \in {"changeUncache", "changePin", "changeWrite"} => HasHash(req[r].user)

AccountInv == RowsReach /\ AdminIsUser /\ InitProgress /\ HashKnown

\* Those about to write, and the writes the replica lacks, are of pinned users.
WritersPinned ==
  /\ \A r \in Requests : pc[r] = "changeWrite" => req[r].user \in pinned
  /\ \A i \in Inits :
       init[i] \in {"adminInsert", "hashWrite", "presetInsert"} => NoUser \in pinned
  /\ \A i \in DOMAIN wal : wal[i].by \in pinned

\* After position i of the log comes a write of u's row made for by.
Pending(u, i, by) == \E j \in DOMAIN wal : j > i /\ wal[j].key = u /\ wal[j].by = by

\* An admin without a password, as the replica has it, has none, or is followed
\* by a write of cmd/init.
EmptyOrPending(row, i) ==
  (row # NoRow /\ row.hash = NoHash) =>
    primary[Admin].hash = NoHash \/ Pending(Admin, i, NoUser)

EmptyPending ==
  /\ EmptyOrPending(replica[Admin], 0)
  /\ \A i \in DOMAIN wal : wal[i].key = Admin => EmptyOrPending(wal[i].row, i)

\* When cmd/init is about to set the password there is none.
StillEmpty ==
  \A i \in Inits : init[i] \in {"hashPin", "hashWrite"} => primary[Admin].hash = NoHash

KeptInv == WritersPinned /\ StillEmpty /\ (HasReplica => EmptyPending)

\* Row has u's password, or none, or is followed by a change of u's own.
CurrentOrPending(row, u, i) ==
  row # NoRow => row.hash \in {primary[u].hash, NoHash} \/ Pending(u, i, u)

ChangesPending ==
  /\ \A u \in Users : CurrentOrPending(replica[u], u, 0)
  /\ \A i \in DOMAIN wal : CurrentOrPending(wal[i].row, wal[i].key, i)

\* A row is in the replica as it is in the primary, unless the log has it.
LogLeadsToPrimary ==
  /\ \A u \in Users : Lagging(u) \/ replica[u] = primary[u]
  /\ \A i \in DOMAIN wal :
       \/ wal[i].row = primary[wal[i].key]
       \/ \E j \in DOMAIN wal : j > i /\ wal[j].key = wal[i].key

\* The cache has the password in force, or nothing.
CacheCurrent == \A u \in Users : cache[u] # NoHash => cache[u] = primary[u].hash

\* A wrong password stays wrong, and is found to be so.
WrongAt(label, q) ==
  /\ label \in {"changePin", "changeWrite"} => cache[q.user] = NoHash
  /\ label = "checkFill" => q.hash \in {primary[q.user].hash, NoHash}
  /\ (label \in {"checkCache", "checkRead", "checkFill"} \cup AuthPC /\ q.wrong)
       => Wrong(q.user, q.old)
  /\ (label \in AuthPC /\ q.wrong /\ HasReplica)
       => ~Lagging(q.user) /\ replica[q.user] = primary[q.user]
  /\ label \in {"changeUncache", "changePin", "changeWrite", "changed", "authenticated"}
       => ~q.wrong

LogInv == HasReplica => ChangesPending /\ LogLeadsToPrimary

RefusedInv ==
  /\ LogInv
  /\ CacheCurrent
  /\ \A r \in Requests : WrongAt(pc[r], req[r])
-----------------------------------------------------------------------------
\* Records

LEMMA TypeWellFormed ==
  ASSUME TypeOK
  PROVE  WellFormed(Users, Rows, Writers)
  BY DEF TypeOK, WellFormed, Records, Rows, Writers

LEMMA TablesType ==
  ASSUME WellFormed(Users, Rows, Writers)'
  PROVE  /\ primary' \in [Users -> Row \cup {NoRow}]
         /\ replica' \in [Users -> Row \cup {NoRow}]
         /\ wal' \in Seq([key : Users, row : Row \cup {NoRow}, by : Users \cup {NoUser}])
  BY DEF WellFormed, Records, Rows, Writers

LEMMA RowExists ==
  ASSUME NEW row \in Row
  PROVE  row # NoRow /\ row \in Rows /\ row.type \in {"user", "organization"}
           /\ row.hash \in Hashes
<1>1. row # NoRow
  BY AccountAssumption DEF Row, Hashes
<1> QED
  BY <1>1 DEF Row, Rows

LEMMA RowType ==
  ASSUME TypeOK, NEW u \in Users, NEW t, t = primary \/ t = replica, t[u] # NoRow
  PROVE  t[u] \in Row /\ t[u].hash \in Hashes /\ t[u].type \in {"user", "organization"}
<1>1. t[u] \in Row
  BY DEF TypeOK
<1> QED
  BY <1>1, RowExists

LEMMA TheTwo == Admin \in Users /\ Preset \in Users
  BY AccountAssumption

LEMMA PasswordsAreHashes ==
  /\ NoHash \in Hashes /\ NoHash \notin Passwords /\ Default \in Passwords
  /\ \A p \in Passwords : p \in Hashes /\ p # NoHash
  BY AccountAssumption DEF Hashes

LEMMA NoReqType == NoReq \in Req
  BY PasswordsAreHashes DEF NoReq, Req, Writers

LEMMA SetHashField ==
  ASSUME NEW q \in Req, NEW hash \in Hashes
  PROVE  /\ [q EXCEPT !.hash = hash] \in Req
         /\ [q EXCEPT !.hash = hash].hash = hash
         /\ [q EXCEPT !.hash = hash].user = q.user
         /\ [q EXCEPT !.hash = hash].old = q.old
         /\ [q EXCEPT !.hash = hash].new = q.new
         /\ [q EXCEPT !.hash = hash].wrong = q.wrong
  BY DEF Req

LEMMA ReqType ==
  ASSUME TypeInv, NEW r \in Requests
  PROVE  pc[r] \in PC /\ req[r] \in Req /\ InHandAt(pc[r], req[r])
  BY DEF TypeInv, TypeOK, Req, Writers, InHand

\* What a request in the middle of something holds.
LEMMA Holds ==
  ASSUME TypeInv, NEW r \in Requests, pc[r] \in ChangePC \cup AuthPC
  PROVE  /\ req[r] \in Req
         /\ req[r].user \in {Admin, Preset} /\ req[r].user \in Users
         /\ req[r].old \in Passwords /\ req[r].hash \in Hashes
         /\ pc[r] \in ChangePC => req[r].new \in Passwords
<1>1. req[r] \in Req /\ InHandAt(pc[r], req[r])
  BY ReqType
<1>2. req[r].hash \in Hashes
  BY <1>1 DEF Req
<1> QED
  BY <1>1, <1>2, TheTwo DEF InHandAt

-----------------------------------------------------------------------------
\* What each step does

\* A step of request r leaves it at label with q in hand.
Steps(r, label, q) ==
  /\ q \in Req /\ InHandAt(label, q)
  /\ pc' \in [Requests -> PC] /\ req' \in [Requests -> Req]
  /\ pc'[r] = label /\ req'[r] = q
  /\ \A s \in Requests \ {r} : pc'[s] = pc[s] /\ req'[s] = req[s]

LEMMA Becomes ==
  ASSUME TypeInv, NEW r \in Requests, NEW label \in PC, NEW q \in Req,
         InHandAt(label, q), Goto(r, label), req' = [req EXCEPT ![r] = q]
  PROVE  Steps(r, label, q)
  BY DEF Goto, Steps, TypeInv, TypeOK, Req, Writers

LEMMA GoesTo ==
  ASSUME TypeInv, NEW r \in Requests, NEW label \in PC, InHandAt(label, req[r]),
         Goto(r, label), UNCHANGED req
  PROVE  Steps(r, label, req[r])
<1>1. req[r] \in Req
  BY ReqType
<1> QED
  BY <1>1 DEF Goto, Steps, TypeInv, TypeOK, Req, Writers

\* A request goes on to a label of the same endpoint, or ends.
LEMMA GoesOn ==
  ASSUME TypeInv, NEW r \in Requests, NEW label, Goto(r, label), UNCHANGED req,
         \/ label \in DonePC
         \/ pc[r] \in ChangePC /\ label \in ChangePC
         \/ pc[r] \in AuthPC /\ label \in AuthPC
  PROVE  Steps(r, label, req[r])
<1>1. CASE label \in DonePC
  <2>1. label \in PC /\ InHandAt(label, req[r])
    BY <1>1 DEF PC, DonePC, InHandAt, ChangePC, AuthPC
  <2> QED
    BY <2>1, GoesTo
<1>2. CASE \/ pc[r] \in ChangePC /\ label \in ChangePC
           \/ pc[r] \in AuthPC /\ label \in AuthPC
  <2>1. label \in PC
    BY <1>2 DEF PC
  <2>2. InHandAt(label, req[r])
    BY <1>2, ReqType DEF InHandAt, AuthPC, ChangePC
  <2> QED
    BY <2>1, <2>2, GoesTo
<1> QED
  BY <1>1, <1>2

TablesUnchanged == UNCHANGED <<repoVars, init>>

LEMMA ChangeArrives ==
  ASSUME TypeInv, NEW r \in Requests, AuthChangePassword(r)
  PROVE  /\ TablesUnchanged /\ UNCHANGED <<cache, crashes>>
         /\ changes' \in 0..MaxChanges /\ pc[r] = "idle"
         /\ \E q : Steps(r, "checkCache", q) /\ q.wrong = Wrong(q.user, q.old)
<1>1. PICK u \in {Admin, Preset}, old \in Passwords, new \in Passwords :
        Arrive(r, "checkCache", [NoReq EXCEPT !.user = u, !.old = old, !.new = new,
                                              !.wrong = Wrong(u, old)])
  BY DEF AuthChangePassword
<1> DEFINE q == [NoReq EXCEPT !.user = u, !.old = old, !.new = new,
                              !.wrong = Wrong(u, old)]
<1>2. u \in Writers /\ old \in Hashes /\ new \in Hashes
  BY TheTwo, PasswordsAreHashes DEF Writers
<1>3. Wrong(u, old) \in BOOLEAN
  BY DEF Wrong
<1>4. /\ q \in Req /\ q.user = u /\ q.old = old /\ q.new = new
      /\ q.wrong = Wrong(u, old)
  BY <1>2, <1>3, NoReqType, Zenon DEF NoReq, Req
<1> HIDE DEF q
<1>5. InHandAt("checkCache", q)
  BY <1>4 DEF InHandAt
<1>6. "checkCache" \in PC
  BY DEF PC, ChangePC
<1>7. Steps(r, "checkCache", q)
  BY <1>1, <1>4, <1>5, <1>6, Becomes DEF Arrive, q
<1>8. changes' \in 0..MaxChanges
  BY AccountAssumption DEF AuthChangePassword, TypeInv, TypeOK
<1> QED
  BY <1>1, <1>4, <1>7, <1>8 DEF AuthChangePassword, Arrive, TablesUnchanged

LEMMA AuthArrives ==
  ASSUME TypeInv, NEW r \in Requests, AuthenticateUser(r)
  PROVE  /\ TablesUnchanged /\ UNCHANGED <<cache, bounds>> /\ pc[r] = "idle"
         /\ \E q : /\ Steps(r, "authUser", q)
                   /\ q.wrong = (Wrong(q.user, q.old) /\ ~Lagging(q.user))
<1>1. PICK u \in {Admin, Preset}, password \in Passwords :
        Arrive(r, "authUser", [NoReq EXCEPT !.user = u, !.old = password,
                                            !.wrong = /\ Wrong(u, password)
                                                      /\ ~Lagging(u)])
  BY DEF AuthenticateUser
<1> DEFINE wrong == Wrong(u, password) /\ ~Lagging(u)
           q == [NoReq EXCEPT !.user = u, !.old = password, !.wrong = wrong]
<1>2. u \in Writers /\ password \in Hashes
  BY TheTwo, PasswordsAreHashes DEF Writers
<1>3. wrong \in BOOLEAN
  OBVIOUS
<1>4. q \in Req /\ q.user = u /\ q.old = password /\ q.wrong = wrong
  BY <1>2, <1>3, NoReqType, Zenon DEF NoReq, Req
<1> HIDE DEF q
<1>5. InHandAt("authUser", q)
  BY <1>4 DEF InHandAt, ChangePC
<1>6. "authUser" \in PC
  BY DEF PC, AuthPC
<1>7. Steps(r, "authUser", q)
  BY <1>1, <1>4, <1>5, <1>6, Becomes DEF Arrive, q
<1> QED
  BY <1>1, <1>4, <1>7 DEF AuthenticateUser, Arrive, TablesUnchanged
\* The cache is asked, then the table.
LEMMA CacheAsked ==
  ASSUME TypeInv, NEW r \in Requests, CheckCache(r)
  PROVE  /\ TablesUnchanged /\ UNCHANGED <<cache, bounds>> /\ pc[r] = "checkCache"
         /\ \E label \in {"changeUncache", "refused", "checkRead"} :
              /\ Steps(r, label, req[r])
              /\ label = "changeUncache" => /\ cache[req[r].user] # NoHash
                                            /\ cache[req[r].user] = req[r].old
<1>1. /\ TablesUnchanged /\ UNCHANGED <<cache, bounds, req>> /\ pc[r] = "checkCache"
  BY DEF CheckCache, TablesUnchanged
<1>2. PICK label \in {"changeUncache", "refused", "checkRead"} :
        /\ Goto(r, label)
        /\ label = "changeUncache" => /\ cache[req[r].user] # NoHash
                                      /\ cache[req[r].user] = req[r].old
  BY DEF CheckCache
<1>3. label \in DonePC \/ (pc[r] \in ChangePC /\ label \in ChangePC)
  BY <1>1 DEF DonePC, ChangePC
<1> QED
  BY <1>1, <1>2, <1>3, GoesOn

LEMMA HashRead ==
  ASSUME TypeInv, NEW r \in Requests, CheckRead(r)
  PROVE  /\ TablesUnchanged /\ UNCHANGED <<cache, bounds>> /\ pc[r] = "checkRead"
         /\ \/ Steps(r, "refused", req[r])
            \/ \E t \in Snapshots(req[r].user) : \E q :
                 /\ Steps(r, "checkFill", q)
                 /\ t[req[r].user] # NoRow /\ q.hash = t[req[r].user].hash
                 /\ q.user = req[r].user /\ q.old = req[r].old /\ q.wrong = req[r].wrong
<1> DEFINE u == req[r].user
<1>1. /\ TablesUnchanged /\ UNCHANGED <<cache, bounds>> /\ pc[r] = "checkRead"
      /\ pc[r] \in ChangePC /\ "checkFill" \in ChangePC /\ "refused" \in DonePC
      /\ "checkFill" \in PC
  BY DEF CheckRead, TablesUnchanged, PC, ChangePC, DonePC
<1>2. /\ req[r] \in Req /\ u \in {Admin, Preset} /\ u \in Users
      /\ req[r].old \in Passwords /\ req[r].new \in Passwords
  BY <1>1, Holds
<1>3. PICK t \in Snapshots(u) :
        \/ /\ t[u] # NoRow /\ Goto(r, "checkFill")
           /\ req' = [req EXCEPT ![r].hash = t[u].hash]
        \/ Goto(r, "refused") /\ UNCHANGED req
  BY DEF CheckRead
<1>4. CASE Goto(r, "refused") /\ UNCHANGED req
  BY <1>1, <1>4, GoesOn
<1>5. CASE /\ t[u] # NoRow /\ Goto(r, "checkFill")
           /\ req' = [req EXCEPT ![r].hash = t[u].hash]
  <2> DEFINE q == [req[r] EXCEPT !.hash = t[u].hash]
  <2>1. t[u].hash \in Hashes
    BY <1>2, <1>5, ReadsTables, RowType DEF TypeInv
  <2>2. /\ q \in Req /\ q.hash = t[u].hash /\ q.user = u /\ q.old = req[r].old
        /\ q.new = req[r].new /\ q.wrong = req[r].wrong
    BY <1>2, <2>1, SetHashField
  <2>3. req' = [req EXCEPT ![r] = q]
    BY <1>5
  <2> HIDE DEF q
  <2>4. InHandAt("checkFill", q)
    BY <1>2, <2>2 DEF InHandAt
  <2>5. Steps(r, "checkFill", q)
    BY <1>1, <1>5, <2>2, <2>3, <2>4, Becomes
  <2> QED
    BY <1>1, <1>5, <2>2, <2>5
<1> QED
  BY <1>3, <1>4, <1>5

LEMMA HashCached ==
  ASSUME TypeInv, NEW r \in Requests, CheckFill(r)
  PROVE  /\ TablesUnchanged /\ UNCHANGED bounds /\ pc[r] = "checkFill"
         /\ req[r].user \in Users /\ req[r].hash \in Hashes /\ req[r].old \in Passwords
         /\ \/ cache' = cache
            \/ cache' = [cache EXCEPT ![req[r].user] = req[r].hash]
         /\ \E label \in {"changeUncache", "refused"} :
              /\ Steps(r, label, req[r])
              /\ label = "changeUncache" => req[r].hash = req[r].old
<1>1. /\ TablesUnchanged /\ UNCHANGED <<bounds, req>> /\ pc[r] = "checkFill"
      /\ \/ cache' = cache
         \/ cache' = [cache EXCEPT ![req[r].user] = req[r].hash]
  BY DEF CheckFill, TablesUnchanged, SetCache, RedisFault
<1>2. PICK label \in {"changeUncache", "refused"} :
        /\ Goto(r, label)
        /\ label = "changeUncache" => req[r].hash = req[r].old
  BY DEF CheckFill
<1>3. pc[r] \in ChangePC /\ (label \in DonePC \/ label \in ChangePC)
  BY <1>1 DEF DonePC, ChangePC
<1> QED
  BY <1>1, <1>2, <1>3, GoesOn, Holds

LEMMA CacheRemoved ==
  ASSUME TypeInv, NEW r \in Requests, ChangeUncache(r)
  PROVE  /\ TablesUnchanged /\ UNCHANGED bounds /\ pc[r] = "changeUncache"
         /\ req[r].user \in Users /\ Steps(r, "changePin", req[r])
         /\ \/ cache' = [cache EXCEPT ![req[r].user] = NoHash]
            \/ "redis" \in Environment /\ cache' = cache
<1>1. /\ TablesUnchanged /\ UNCHANGED <<bounds, req>> /\ pc[r] = "changeUncache"
      /\ \/ cache' = [cache EXCEPT ![req[r].user] = NoHash]
         \/ "redis" \in Environment /\ cache' = cache
      /\ Goto(r, "changePin")
  BY DEF ChangeUncache, TablesUnchanged, SetCache, RedisFault, RedisMayFail
<1>2. pc[r] \in ChangePC /\ "changePin" \in ChangePC
  BY <1>1 DEF ChangePC
<1> QED
  BY <1>1, <1>2, GoesOn, Holds

LEMMA ChangePins ==
  ASSUME TypeInv, NEW r \in Requests, ChangePin(r)
  PROVE  /\ UNCHANGED <<primary, replica, wal, cache, init, bounds>>
         /\ pc[r] = "changePin" /\ req[r].user \in Users /\ PinUser(req[r].user)
         /\ Steps(r, "changeWrite", req[r])
<1>1. /\ UNCHANGED <<primary, replica, wal, cache, init, bounds, req>>
      /\ pc[r] = "changePin" /\ PinUser(req[r].user) /\ Goto(r, "changeWrite")
  BY DEF ChangePin
<1>2. pc[r] \in ChangePC /\ "changeWrite" \in ChangePC
  BY <1>1 DEF ChangePC
<1> QED
  BY <1>1, <1>2, GoesOn, Holds

\* The UPDATE of a hash: the row, if there is one, with the new hash.
HashWrites(u, hash, by) ==
  \E row \in Row : /\ primary[u] # NoRow
                   /\ row.type = primary[u].type /\ row.hash = hash
                   /\ Commit(u, row, by)

LEMMA SetHashEffect ==
  ASSUME TypeOK, NEW u \in Users, NEW hash \in Hashes, NEW by, SetHash(u, hash, by)
  PROVE  \/ primary[u] = NoRow /\ UNCHANGED <<primary, replica, wal>>
         \/ HashWrites(u, hash, by)
<1>1. CASE primary[u] = NoRow
  BY <1>1 DEF SetHash
<1>2. CASE primary[u] # NoRow
  <2> DEFINE row == [primary[u] EXCEPT !.hash = hash]
  <2>1. primary[u] \in Row
    BY <1>2 DEF TypeOK
  <2>2. row \in Row /\ row.type = primary[u].type /\ row.hash = hash
    BY <2>1 DEF Row
  <2>3. Commit(u, row, by)
    BY <1>2 DEF SetHash
  <2> HIDE DEF row
  <2> QED
    BY <1>2, <2>2, <2>3 DEF HashWrites
<1> QED
  BY <1>1, <1>2

LEMMA ChangeWrites ==
  ASSUME TypeInv, NEW r \in Requests, ChangeWrite(r)
  PROVE  /\ UNCHANGED <<pinned, cache, init, bounds>> /\ pc[r] = "changeWrite"
         /\ req[r].user \in Users /\ req[r].new \in Passwords
         /\ Steps(r, "changed", req[r])
         /\ \/ primary[req[r].user] = NoRow /\ UNCHANGED <<primary, replica, wal>>
            \/ HashWrites(req[r].user, req[r].new, req[r].user)
<1>1. /\ UNCHANGED <<pinned, cache, init, bounds, req>> /\ pc[r] = "changeWrite"
      /\ SetHash(req[r].user, req[r].new, req[r].user) /\ Goto(r, "changed")
  BY DEF ChangeWrite
<1>2. pc[r] \in ChangePC /\ "changed" \in DonePC
  BY <1>1 DEF ChangePC, DonePC
<1>3. req[r].user \in Users /\ req[r].new \in Passwords /\ req[r].new \in Hashes
  BY <1>2, Holds, PasswordsAreHashes
<1>4. Steps(r, "changed", req[r])
  BY <1>1, <1>2, GoesOn
<1> QED
  BY <1>1, <1>3, <1>4, SetHashEffect DEF TypeInv

LEMMA Authenticates ==
  ASSUME TypeInv, NEW r \in Requests, AuthUser(r) \/ AuthHash(r)
  PROVE  /\ TablesUnchanged /\ UNCHANGED <<cache, bounds>> /\ pc[r] \in AuthPC
         /\ \E label \in {"authHash", "authenticated", "refused"} :
              /\ Steps(r, label, req[r])
              /\ label = "authenticated" =>
                   \E t \in Snapshots(NoUser) : /\ t[req[r].user] # NoRow
                                                /\ t[req[r].user].hash = req[r].old
<1>1. /\ TablesUnchanged /\ UNCHANGED <<cache, bounds, req>> /\ pc[r] \in AuthPC
  BY DEF AuthUser, AuthHash, AuthPC, TablesUnchanged
<1>2. PICK label \in {"authHash", "authenticated", "refused"} :
        /\ Goto(r, label)
        /\ label = "authenticated" =>
             \E t \in Snapshots(NoUser) : /\ t[req[r].user] # NoRow
                                          /\ t[req[r].user].hash = req[r].old
  BY DEF AuthUser, AuthHash
<1>3. label \in DonePC \/ (pc[r] \in AuthPC /\ label \in AuthPC)
  BY <1>1 DEF DonePC, AuthPC
<1>4. Steps(r, label, req[r])
  BY <1>1, <1>2, <1>3, GoesOn
<1> QED
  BY <1>1, <1>2, <1>4

LEMMA Ends ==
  ASSUME TypeInv, NEW r \in Requests, Finish(r) \/ Abort(r)
  PROVE  TablesUnchanged /\ UNCHANGED <<cache, bounds>> /\ Steps(r, "idle", NoReq)
<1>1. "idle" \in PC /\ InHandAt("idle", NoReq)
  BY DEF PC, InHandAt, ChangePC, AuthPC
<1> QED
  BY <1>1, NoReqType, Becomes DEF Finish, Abort, TablesUnchanged
\* A step of process i of cmd/init.
InitSteps(i, label) ==
  /\ init' \in [Inits -> InitPC] /\ init'[i] = label
  /\ \A j \in Inits \ {i} : init'[j] = init[j]
  /\ UNCHANGED <<pc, req, cache, changes>>

LEMMA GoesToI ==
  ASSUME TypeInv, NEW i \in Inits, NEW label \in InitPC, GotoI(i, label),
         UNCHANGED <<pc, req, cache, changes>>
  PROVE  InitSteps(i, label)
  BY DEF GotoI, InitSteps, TypeInv, TypeOK

\* What a process looks up.
LEMMA InitReads ==
  ASSUME TypeInv, NEW i \in Inits, AdminGet(i) \/ AdminHash(i) \/ PresetGet(i)
  PROVE  /\ UNCHANGED <<repoVars, crashes>>
         /\ \E t \in Snapshots(NoUser) :
              \/ /\ init[i] = "adminGet"
                 /\ \/ InitSteps(i, "adminHash") /\ t[Admin] # NoRow
                    \/ InitSteps(i, "adminPin")
              \/ /\ init[i] = "adminHash"
                 /\ \/ InitSteps(i, "fatal")
                    \/ /\ InitSteps(i, "hashPin")
                       /\ t[Admin] # NoRow /\ t[Admin].hash = NoHash
                    \/ /\ InitSteps(i, "presetGet")
                       /\ t[Admin] # NoRow /\ t[Admin].hash # NoHash
              \/ /\ init[i] = "presetGet"
                 /\ \/ InitSteps(i, "done") /\ t[Preset] # NoRow
                    \/ InitSteps(i, "presetPin")
<1> USE DEF InitPC, bounds, reqVars
<1>1. CASE AdminGet(i)
  <2>1. PICK t \in Snapshots(NoUser) :
          \/ GotoI(i, "adminHash") /\ t[Admin] # NoRow
          \/ GotoI(i, "adminPin")
    BY <1>1 DEF AdminGet, IsUser
  <2>2. /\ UNCHANGED <<repoVars, crashes, pc, req, cache, changes>> /\ init[i] = "adminGet"
    BY <1>1 DEF AdminGet
  <2> QED
    BY <2>1, <2>2, GoesToI
<1>2. CASE AdminHash(i)
  <2>1. PICK t \in Snapshots(NoUser) :
          \/ GotoI(i, "fatal")
          \/ GotoI(i, "hashPin") /\ t[Admin] # NoRow /\ t[Admin].hash = NoHash
          \/ GotoI(i, "presetGet") /\ t[Admin] # NoRow /\ t[Admin].hash # NoHash
    BY <1>2 DEF AdminHash
  <2>2. /\ UNCHANGED <<repoVars, crashes, pc, req, cache, changes>> /\ init[i] = "adminHash"
    BY <1>2 DEF AdminHash
  <2> QED
    BY <2>1, <2>2, GoesToI
<1>3. CASE PresetGet(i)
  <2>1. PICK t \in Snapshots(NoUser) :
          \/ GotoI(i, "done") /\ t[Preset] # NoRow
          \/ GotoI(i, "presetPin")
    BY <1>3 DEF PresetGet, IsUser
  <2>2. /\ UNCHANGED <<repoVars, crashes, pc, req, cache, changes>> /\ init[i] = "presetGet"
    BY <1>3 DEF PresetGet
  <2> QED
    BY <2>1, <2>2, GoesToI
<1> QED
  BY <1>1, <1>2, <1>3

LEMMA InitPins ==
  ASSUME TypeInv, NEW i \in Inits, AdminPin(i) \/ HashPin(i) \/ PresetPin(i)
  PROVE  /\ UNCHANGED <<primary, replica, wal, crashes>> /\ PinUser(NoUser)
         /\ \/ init[i] = "adminPin" /\ InitSteps(i, "adminInsert")
            \/ init[i] = "hashPin" /\ InitSteps(i, "hashWrite")
            \/ init[i] = "presetPin" /\ InitSteps(i, "presetInsert")
<1>1. UNCHANGED <<primary, replica, wal, pc, req, cache, crashes, changes>> /\ PinUser(NoUser)
  BY DEF AdminPin, HashPin, PresetPin, reqVars, bounds
<1>2. \/ init[i] = "adminPin" /\ GotoI(i, "adminInsert")
      \/ init[i] = "hashPin" /\ GotoI(i, "hashWrite")
      \/ init[i] = "presetPin" /\ GotoI(i, "presetInsert")
  BY DEF AdminPin, HashPin, PresetPin
<1> QED
  BY <1>1, <1>2, GoesToI DEF InitPC

\* A row is inserted where there is none.
Inserts(u) ==
  \E row \in Row : /\ primary[u] = NoRow
                   /\ row.type = "user" /\ row.hash = NoHash
                   /\ Commit(u, row, NoUser)

LEMMA InitWrites ==
  ASSUME TypeInv, NEW i \in Inits, AdminInsert(i) \/ HashWrite(i) \/ PresetInsert(i)
  PROVE  /\ UNCHANGED <<pinned, crashes>>
         /\ \/ /\ init[i] = "adminInsert"
               /\ \/ InitSteps(i, "fatal") /\ UNCHANGED <<primary, replica, wal>>
                  \/ InitSteps(i, "hashPin") /\ Inserts(Admin)
            \/ /\ init[i] = "hashWrite" /\ InitSteps(i, "presetGet")
               /\ \/ primary[Admin] = NoRow /\ UNCHANGED <<primary, replica, wal>>
                  \/ HashWrites(Admin, Default, NoUser)
            \/ /\ init[i] = "presetInsert" /\ InitSteps(i, "done")
               /\ \/ primary[Preset] # NoRow /\ UNCHANGED <<primary, replica, wal>>
                  \/ Inserts(Preset)
<1> USE DEF InitPC
<1>1. UNCHANGED <<pc, req, cache, crashes, changes, pinned>>
  BY DEF AdminInsert, HashWrite, PresetInsert, reqVars, bounds
<1>2. ASSUME NEW u, primary[u] = NoRow, Commit(u, [type |-> "user", hash |-> NoHash], NoUser)
      PROVE  Inserts(u)
  <2> DEFINE row == [type |-> "user", hash |-> NoHash]
  <2>1. row \in Row /\ row.type = "user" /\ row.hash = NoHash
    BY PasswordsAreHashes DEF Row
  <2>2. Commit(u, row, NoUser)
    BY <1>2
  <2> HIDE DEF row
  <2> QED
    BY <1>2, <2>1, <2>2 DEF Inserts
<1>3. CASE AdminInsert(i)
  <2>1. CASE GotoI(i, "fatal") /\ UNCHANGED <<primary, replica, wal>>
    BY <1>1, <1>3, <2>1, GoesToI DEF AdminInsert
  <2>2. CASE /\ GotoI(i, "hashPin") /\ primary[Admin] = NoRow
             /\ Commit(Admin, [type |-> "user", hash |-> NoHash], NoUser)
    <3>1. Inserts(Admin)
      BY <1>2, <2>2
    <3>2. InitSteps(i, "hashPin")
      BY <1>1, <2>2, GoesToI
    <3>3. init[i] = "adminInsert"
      BY <1>3 DEF AdminInsert
    <3> QED
      BY <1>1, <3>1, <3>2, <3>3
  <2> QED
    BY <1>3, <2>1, <2>2 DEF AdminInsert
<1>4. CASE HashWrite(i)
  <2>1. init[i] = "hashWrite" /\ SetHash(Admin, Default, NoUser) /\ GotoI(i, "presetGet")
    BY <1>4 DEF HashWrite
  <2>2. InitSteps(i, "presetGet")
    BY <1>1, <2>1, GoesToI
  <2>3. \/ primary[Admin] = NoRow /\ UNCHANGED <<primary, replica, wal>>
        \/ HashWrites(Admin, Default, NoUser)
    BY <2>1, SetHashEffect, TheTwo, PasswordsAreHashes DEF TypeInv
  <2> QED
    BY <1>1, <2>1, <2>2, <2>3
<1>5. CASE PresetInsert(i)
  <2>1. /\ init[i] = "presetInsert" /\ GotoI(i, "done")
        /\ \/ primary[Preset] # NoRow /\ UNCHANGED <<primary, replica, wal>>
           \/ /\ primary[Preset] = NoRow
              /\ Commit(Preset, [type |-> "user", hash |-> NoHash], NoUser)
    BY <1>5 DEF PresetInsert
  <2>2. InitSteps(i, "done")
    BY <1>1, <2>1, GoesToI
  <2>3. \/ primary[Preset] # NoRow /\ UNCHANGED <<primary, replica, wal>>
        \/ Inserts(Preset)
    BY <1>2, <2>1
  <2> QED
    BY <1>1, <2>1, <2>2, <2>3
<1> QED
  BY <1>3, <1>4, <1>5

LEMMA InitRestarts ==
  ASSUME TypeInv, NEW i \in Inits, Restart(i) \/ Crash(i)
  PROVE  UNCHANGED repoVars /\ crashes' \in 0..MaxCrashes /\ InitSteps(i, "adminGet")
<1>1. /\ UNCHANGED <<repoVars, pc, req, cache, changes>> /\ GotoI(i, "adminGet")
  BY DEF Restart, Crash, reqVars, bounds
<1>2. crashes' \in 0..MaxCrashes
  BY AccountAssumption DEF Restart, Crash, bounds, TypeInv, TypeOK
<1> QED
  BY <1>1, <1>2, GoesToI DEF InitPC

-----------------------------------------------------------------------------
\* Type correctness

LEMMA InitTypeInv == Init => TypeInv
<1> SUFFICES ASSUME Init PROVE TypeInv
  OBVIOUS
<1>1. PICK admin \in {NoRow} \cup [type : {"user"}, hash : Hashes],
           preset \in {NoRow} \cup [type : PresetTypes, hash : {NoHash}] :
        RepoInit([u \in Users |-> IF u = Admin THEN admin
                                  ELSE IF u = Preset THEN preset ELSE NoRow])
  BY DEF Init
<1> DEFINE table == [u \in Users |-> IF u = Admin THEN admin
                                     ELSE IF u = Preset THEN preset ELSE NoRow]
<1>2. admin \in Row \cup {NoRow} /\ preset \in Row \cup {NoRow}
  <2>1. [type : {"user"}, hash : Hashes] \subseteq Row
    BY DEF Row
  <2>2. [type : PresetTypes, hash : {NoHash}] \subseteq Row
    BY AccountAssumption, PasswordsAreHashes DEF Row
  <2> QED
    BY <2>1, <2>2
<1>3. table \in [Users -> Row \cup {NoRow}]
  BY <1>2
<1>4. primary = table /\ replica = table /\ wal = <<>> /\ pinned = {}
  BY <1>1 DEF RepoInit
<1>5. wal \in Seq([key : Users, row : Row \cup {NoRow}, by : Users \cup {NoUser}])
  BY <1>4
<1>6. /\ \A r \in Requests : pc[r] = "idle"
      /\ pc \in [Requests -> PC] /\ req \in [Requests -> Req]
  BY NoReqType DEF Init, PC
<1>7. /\ cache \in [Users -> Hashes] /\ init \in [Inits -> InitPC]
      /\ crashes \in 0..MaxCrashes /\ changes \in 0..MaxChanges
  BY PasswordsAreHashes, AccountAssumption DEF Init, InitPC
<1>8. TypeOK
  BY <1>3, <1>4, <1>5, <1>6, <1>7 DEF TypeOK, Req, Writers
<1>9. InHand
  BY <1>6 DEF InHand, InHandAt, ChangePC, AuthPC
<1> QED
  BY <1>8, <1>9 DEF TypeInv
\* The tables after a write.
LEMMA WritesType ==
  ASSUME TypeInv, NEW u \in Users, NEW hash, NEW by \in Writers,
         HashWrites(u, hash, by) \/ Inserts(u)
  PROVE  WellFormed(Users, Rows, Writers)'
<1>1. \E row \in Row : \E w \in Writers : Commit(u, row, w)
  BY DEF HashWrites, Inserts, Writers
<1> QED
  BY <1>1, TypeWellFormed, CommitWellFormed, RowExists DEF TypeInv

LEMMA TablesKept ==
  ASSUME TypeInv, UNCHANGED <<primary, replica, wal>>
  PROVE  WellFormed(Users, Rows, Writers)'
  BY TypeWellFormed DEF TypeInv, WellFormed

LEMMA StepType ==
  ASSUME TypeInv, NEW r \in Requests, NEW label, NEW q, Steps(r, label, q),
         WellFormed(Users, Rows, Writers)', pinned' \subseteq Writers,
         cache' \in [Users -> Hashes], init' \in [Inits -> InitPC],
         crashes' \in 0..MaxCrashes, changes' \in 0..MaxChanges
  PROVE  TypeInv'
<1>1. InHand'
  BY DEF TypeInv, InHand, Steps
<1>2. pc' \in [Requests -> PC] /\ req' \in [Requests -> Req]
  BY DEF Steps
<1> QED
  BY <1>1, <1>2, TablesType DEF TypeInv, TypeOK, Req, Writers

LEMMA QuietType ==
  ASSUME TypeInv, NEW r \in Requests, NEW label, NEW q, Steps(r, label, q),
         TablesUnchanged, UNCHANGED crashes, cache' \in [Users -> Hashes],
         changes' \in 0..MaxChanges
  PROVE  TypeInv'
<1>1. UNCHANGED <<primary, replica, wal, pinned, init>>
  BY DEF TablesUnchanged, repoVars
<1> QED
  BY <1>1, TablesKept, StepType DEF TypeInv, TypeOK, Writers

LEMMA InitStepType ==
  ASSUME TypeInv, NEW i \in Inits, NEW label, InitSteps(i, label),
         WellFormed(Users, Rows, Writers)', pinned' \subseteq Writers,
         crashes' \in 0..MaxCrashes
  PROVE  TypeInv'
<1>1. InHand'
  BY DEF TypeInv, InHand, InitSteps, InHandAt
<1> QED
  BY <1>1, TablesType DEF TypeInv, TypeOK, InitSteps, Writers

LEMMA NextTypeInv ==
  ASSUME TypeInv, [Next]_vars
  PROVE  TypeInv'
<1>1. CASE UNCHANGED vars
  <2>1. UNCHANGED <<primary, replica, wal, pinned, cache, init, pc, req, crashes, changes>>
    BY <1>1 DEF vars, repoVars, reqVars, bounds
  <2> QED
    BY <2>1 DEF TypeInv, TypeOK, InHand, InHandAt
<1>2. CASE Backend
  <2>1. UNCHANGED <<init, pc, req, crashes, changes>>
    BY <1>2 DEF Backend, CacheExpire, reqVars, bounds
  <2>2. /\ WellFormed(Users, Rows, Writers)' /\ pinned' \subseteq Writers
        /\ cache' \in [Users -> Hashes]
    <3>1. ASSUME Replicate, UNCHANGED cache
          PROVE  /\ WellFormed(Users, Rows, Writers)' /\ pinned' \subseteq Writers
                 /\ cache' \in [Users -> Hashes]
      BY <3>1, TypeWellFormed, ReplicateEffect DEF TypeInv, TypeOK, Writers
    <3>2. ASSUME NEW u, PinExpire(u, Writing(u)), UNCHANGED cache
          PROVE  /\ WellFormed(Users, Rows, Writers)' /\ pinned' \subseteq Writers
                 /\ cache' \in [Users -> Hashes]
      BY <3>2, TablesKept DEF PinExpire, TypeInv, TypeOK, Writers
    <3>3. ASSUME NEW u \in Users, CacheExpire(u)
          PROVE  /\ WellFormed(Users, Rows, Writers)' /\ pinned' \subseteq Writers
                 /\ cache' \in [Users -> Hashes]
      BY <3>3, TablesKept, PasswordsAreHashes
         DEF CacheExpire, SetCache, repoVars, TypeInv, TypeOK, Writers
    <3> QED
      BY <1>2, <3>1, <3>2, <3>3 DEF Backend
  <2>3. TypeOK'
    BY <2>1, <2>2, TablesType DEF TypeInv, TypeOK, Writers
  <2>4. InHand'
    BY <2>1 DEF TypeInv, InHand, InHandAt
  <2> QED
    BY <2>3, <2>4 DEF TypeInv
<1>3. ASSUME NEW i \in Inits, AdminGet(i) \/ AdminHash(i) \/ PresetGet(i)
      PROVE  TypeInv'
  <2>1. UNCHANGED <<primary, replica, wal, pinned, crashes>> /\ \E label : InitSteps(i, label)
    BY <1>3, InitReads DEF repoVars
  <2> QED
    BY <2>1, TablesKept, InitStepType DEF TypeInv, TypeOK, Writers
<1>4. ASSUME NEW i \in Inits, AdminPin(i) \/ HashPin(i) \/ PresetPin(i)
      PROVE  TypeInv'
  <2>1. UNCHANGED <<primary, replica, wal, crashes>> /\ \E label : InitSteps(i, label)
    BY <1>4, InitPins
  <2>2. pinned' \subseteq Writers
    BY <1>4, InitPins DEF PinUser, TypeInv, TypeOK, Writers
  <2> QED
    BY <2>1, <2>2, TablesKept, InitStepType DEF TypeInv, TypeOK, Writers
<1>5. ASSUME NEW i \in Inits, AdminInsert(i) \/ HashWrite(i) \/ PresetInsert(i)
      PROVE  TypeInv'
  <2>1. UNCHANGED <<pinned, crashes>> /\ \E label : InitSteps(i, label)
    BY <1>5, InitWrites
  <2>2. WellFormed(Users, Rows, Writers)'
    <3>1. \/ UNCHANGED <<primary, replica, wal>>
          \/ Inserts(Admin) \/ HashWrites(Admin, Default, NoUser) \/ Inserts(Preset)
      BY <1>5, InitWrites
    <3>2. NoUser \in Writers
      BY DEF Writers
    <3> QED
      BY <3>1, <3>2, TablesKept, WritesType, TheTwo
  <2> QED
    BY <2>1, <2>2, InitStepType DEF TypeInv, TypeOK, Writers
<1>6. ASSUME NEW i \in Inits, Restart(i) \/ Crash(i)
      PROVE  TypeInv'
  <2>1. UNCHANGED <<primary, replica, wal, pinned>>
    BY <1>6, InitRestarts DEF repoVars
  <2> QED
    BY <1>6, <2>1, InitRestarts, TablesKept, InitStepType DEF TypeInv, TypeOK, Writers
<1>7. ASSUME NEW r \in Requests, AuthChangePassword(r)
      PROVE  TypeInv'
  BY <1>7, ChangeArrives, QuietType DEF TypeInv, TypeOK
<1>8. ASSUME NEW r \in Requests,
             AuthenticateUser(r) \/ CheckCache(r) \/ CheckRead(r)
               \/ AuthUser(r) \/ AuthHash(r) \/ Finish(r) \/ Abort(r)
      PROVE  TypeInv'
  <2>1. TablesUnchanged /\ UNCHANGED <<cache, bounds>> /\ \E label : \E q : Steps(r, label, q)
    BY <1>8, AuthArrives, CacheAsked, HashRead, Authenticates, Ends
  <2> QED
    BY <2>1, QuietType DEF bounds, TypeInv, TypeOK
<1>9. ASSUME NEW r \in Requests, CheckFill(r) \/ ChangeUncache(r)
      PROVE  TypeInv'
  <2>1. TablesUnchanged /\ UNCHANGED bounds /\ \E label : \E q : Steps(r, label, q)
    BY <1>9, HashCached, CacheRemoved
  <2>2. cache' \in [Users -> Hashes]
    BY <1>9, HashCached, CacheRemoved, PasswordsAreHashes DEF TypeInv, TypeOK
  <2> QED
    BY <2>1, <2>2, QuietType DEF bounds, TypeInv, TypeOK
<1>10. ASSUME NEW r \in Requests, ChangePin(r)
       PROVE  TypeInv'
  <2>1. /\ UNCHANGED <<primary, replica, wal, cache, init, bounds>>
        /\ Steps(r, "changeWrite", req[r])
    BY <1>10, ChangePins
  <2>2. pinned' \subseteq Writers
    BY <1>10, ChangePins DEF PinUser, TypeInv, TypeOK, Writers
  <2> QED
    BY <2>1, <2>2, TablesKept, StepType DEF bounds, TypeInv, TypeOK
<1>11. ASSUME NEW r \in Requests, ChangeWrite(r)
       PROVE  TypeInv'
  <2>1. /\ UNCHANGED <<pinned, cache, init, bounds>>
        /\ req[r].user \in Users /\ Steps(r, "changed", req[r])
    BY <1>11, ChangeWrites
  <2>2. WellFormed(Users, Rows, Writers)'
    <3>1. req[r].user \in Writers
      BY <2>1 DEF Writers
    <3> QED
      BY <1>11, <2>1, <3>1, ChangeWrites, TablesKept, WritesType
  <2> QED
    BY <2>1, <2>2, StepType DEF bounds, TypeInv, TypeOK, Writers
<1>12. ASSUME NEW i \in Inits, Provision(i)
       PROVE  TypeInv'
  BY <1>3, <1>4, <1>5, <1>6, <1>12 DEF Provision
<1>13. ASSUME NEW r \in Requests, Proceed(r)
       PROVE  TypeInv'
  BY <1>8, <1>9, <1>10, <1>11, <1>13 DEF Proceed
<1> QED
  BY <1>1, <1>2, <1>6, <1>7, <1>8, <1>12, <1>13 DEF Next

\* Every variable has its type.
THEOREM TypeCorrect == Spec => []TypeOK
<1>1. Spec => []TypeInv
  BY InitTypeInv, NextTypeInv, PTL DEF Spec
<1>2. TypeInv => TypeOK
  BY DEF TypeInv
<1> QED
  BY <1>1, <1>2, PTL
-----------------------------------------------------------------------------
\* What is never lost, in every environment

\* A user stays, with their type, and once they have a password they keep
\* having one.
Grows ==
  \A u \in Users :
    /\ primary[u] # NoRow => primary'[u] # NoRow /\ primary'[u].type = primary[u].type
    /\ HasHash(u) => HasHash(u)'

\* What a write makes of the primary.
Wrote(u) ==
  /\ \E row \in Row, by \in Writers :
       /\ Commit(u, row, by) /\ primary'[u] = row
       /\ primary[u] = NoRow => row.type = "user"
       /\ primary[u] # NoRow => row.type = primary[u].type /\ row.hash # NoHash
  /\ \A v \in Users \ {u} : primary'[v] = primary[v]

LEMMA WritesWrote ==
  ASSUME TypeInv, NEW u \in Users, NEW hash \in Passwords, NEW by \in Writers,
         HashWrites(u, hash, by) \/ Inserts(u)
  PROVE  /\ Wrote(u) /\ primary'[u] # NoRow
         /\ HashWrites(u, hash, by) => HasHash(u)'
<1>1. PICK row \in Row, w \in Writers :
        /\ Commit(u, row, w)
        /\ primary[u] = NoRow => row.type = "user"
        /\ primary[u] # NoRow => row.type = primary[u].type /\ row.hash # NoHash
  BY PasswordsAreHashes DEF HashWrites, Inserts, Writers
<1>2. primary'[u] = row /\ \A v \in Users \ {u} : primary'[v] = primary[v]
  BY <1>1 DEF Commit, TypeInv, TypeOK
<1>3. row # NoRow
  BY RowExists
<1>4. ASSUME HashWrites(u, hash, by) PROVE HasHash(u)'
  <2>1. PICK new \in Row : new.hash = hash /\ Commit(u, new, by)
    BY <1>4 DEF HashWrites
  <2>2. primary'[u] = new
    BY <2>1 DEF Commit, TypeInv, TypeOK
  <2> QED
    BY <2>1, <2>2, RowExists, PasswordsAreHashes DEF HasHash
<1> QED
  BY <1>1, <1>2, <1>3, <1>4 DEF Wrote

LEMMA PrimaryKept ==
  ASSUME UNCHANGED primary
  PROVE  Grows
  BY DEF Grows, HasHash

LEMMA TablesKeptReach ==
  ASSUME AccountInv, UNCHANGED <<primary, replica, wal>>
  PROVE  RowsReach' /\ AdminIsUser' /\ Grows
<1>1. RowsReach' /\ AdminIsUser'
  BY DEF AccountInv, RowsReach, Reaches, AdminIsUser
<1> QED
  BY <1>1, PrimaryKept

LEMMA WritesReach ==
  ASSUME TypeInv, AccountInv, NEW u \in Users, Wrote(u)
  PROVE  RowsReach' /\ AdminIsUser' /\ Grows
<1>1. PICK row \in Row, by \in Writers :
        /\ Commit(u, row, by) /\ primary'[u] = row
        /\ primary[u] = NoRow => row.type = "user"
        /\ primary[u] # NoRow => row.type = primary[u].type /\ row.hash # NoHash
  BY DEF Wrote
<1>2. \A v \in Users \ {u} : primary'[v] = primary[v]
  BY DEF Wrote
<1>3. row # NoRow /\ row \in Rows
  BY RowExists
<1>4. WellFormed(Users, Rows, Writers)
  BY TypeWellFormed DEF TypeInv
<1>5. /\ replica' = replica
      /\ \A i \in DOMAIN wal' :
           \/ i \in DOMAIN wal /\ wal'[i] = wal[i]
           \/ wal'[i].key = u /\ wal'[i].row = row
  BY <1>1, <1>3, <1>4, CommitEffect
<1>6. Grows
  <2>1. ASSUME NEW v \in Users
        PROVE  /\ primary[v] # NoRow =>
                    primary'[v] # NoRow /\ primary'[v].type = primary[v].type
               /\ HasHash(v) => HasHash(v)'
    <3>1. CASE v = u
      BY <1>1, <1>3, <3>1 DEF HasHash
    <3>2. CASE v # u
      BY <1>2, <3>2 DEF HasHash
    <3> QED
      BY <3>1, <3>2
  <2> QED
    BY <2>1 DEF Grows
<1>7. ASSUME NEW v \in Users, NEW old, Reaches(old, v), old # NoRow
      PROVE  /\ primary'[v] # NoRow /\ old.type = primary'[v].type
             /\ old.hash # NoHash => primary'[v].hash # NoHash
  BY <1>6, <1>7 DEF Reaches, Grows, HasHash
<1>8. RowsReach'
  <2>1. ASSUME NEW v \in Users PROVE Reaches(replica[v], v)'
    <3>1. Reaches(replica[v], v)
      BY DEF AccountInv, RowsReach
    <3> QED
      BY <1>5, <1>7, <3>1 DEF Reaches
  <2>2. ASSUME NEW i \in DOMAIN wal' PROVE Reaches(wal[i].row, wal[i].key)'
    <3>1. CASE i \in DOMAIN wal /\ wal'[i] = wal[i]
      <4>1. Reaches(wal[i].row, wal[i].key) /\ wal[i].key \in Users
        BY <1>4, <3>1, LogRecords DEF AccountInv, RowsReach
      <4> QED
        BY <1>7, <3>1, <4>1 DEF Reaches
    <3>2. CASE wal'[i].key = u /\ wal'[i].row = row
      BY <1>1, <1>3, <3>2 DEF Reaches
    <3> QED
      BY <1>5, <3>1, <3>2
  <2> QED
    BY <2>1, <2>2 DEF RowsReach
<1>9. AdminIsUser'
  <2>1. CASE u = Admin
    BY <1>1, <2>1 DEF AccountInv, AdminIsUser
  <2>2. CASE u # Admin
    BY <1>2, <2>2, TheTwo DEF AccountInv, AdminIsUser
  <2> QED
    BY <2>1, <2>2
<1> QED
  BY <1>6, <1>8, <1>9

LEMMA ReplicateReach ==
  ASSUME TypeInv, AccountInv, Replicate
  PROVE  RowsReach' /\ AdminIsUser' /\ Grows
<1>1. WellFormed(Users, Rows, Writers)
  BY TypeWellFormed DEF TypeInv
<1>2. /\ primary' = primary /\ 1 \in DOMAIN wal
      /\ wal[1].key \in Users
      /\ \A i \in DOMAIN wal' : i + 1 \in DOMAIN wal /\ wal'[i] = wal[i + 1]
      /\ replica'[wal[1].key] = wal[1].row
      /\ \A j \in Users \ {wal[1].key} : replica'[j] = replica[j]
  BY <1>1, ReplicateEffect
<1>3. ASSUME NEW u \in Users PROVE Reaches(replica[u], u)'
  <2>1. CASE u = wal[1].key
    <3>1. Reaches(wal[1].row, u)
      BY <1>2, <2>1 DEF AccountInv, RowsReach
    <3> QED
      BY <1>2, <2>1, <3>1 DEF Reaches
  <2>2. CASE u # wal[1].key
    <3>1. Reaches(replica[u], u)
      BY DEF AccountInv, RowsReach
    <3> QED
      BY <1>2, <2>2, <3>1 DEF Reaches
  <2> QED
    BY <2>1, <2>2
<1>4. ASSUME NEW i \in DOMAIN wal' PROVE Reaches(wal[i].row, wal[i].key)'
  <2>1. Reaches(wal[i + 1].row, wal[i + 1].key)
    BY <1>2 DEF AccountInv, RowsReach
  <2> QED
    BY <1>2, <2>1 DEF Reaches
<1>5. AdminIsUser'
  BY <1>2 DEF AccountInv, AdminIsUser
<1> QED
  BY <1>2, <1>3, <1>4, <1>5, PrimaryKept DEF RowsReach

\* A row that is read shows what there is.
LEMMA ReadReaches ==
  ASSUME TypeInv, AccountInv, NEW u \in Users, NEW ctx, NEW t \in Snapshots(ctx),
         t[u] # NoRow
  PROVE  primary[u] # NoRow /\ (t[u].hash # NoHash => HasHash(u))
<1>1. CASE t = primary
  BY <1>1 DEF HasHash
<1>2. CASE t = replica
  <2>1. Reaches(replica[u], u)
    BY DEF AccountInv, RowsReach
  <2> QED
    BY <1>2, <2>1 DEF Reaches, HasHash
<1> QED
  BY <1>1, <1>2, ReadsTables

\* What a request knows after a step of its own.
Knows(label, q) ==
  /\ label = "checkFill" /\ q.hash # NoHash => HasHash(q.user)
  /\ label \in {"changeUncache", "changePin", "changeWrite"} => HasHash(q.user)

LEMMA StepAccount ==
  ASSUME TypeInv, AccountInv, RowsReach', AdminIsUser', Grows, UNCHANGED init,
         NEW r \in Requests, NEW label, NEW q, Steps(r, label, q), Knows(label, q),
         \/ cache' = cache
         \/ \E u \in Users, hash \in Hashes : /\ cache' = [cache EXCEPT ![u] = hash]
                                              /\ hash # NoHash => HasHash(u)
  PROVE  AccountInv'
<1>1. \A u \in Users : HasHash(u) => HasHash(u)'
  BY DEF Grows
<1>2. \A u \in Users : cache'[u] # NoHash => HasHash(u)'
  <2> SUFFICES ASSUME NEW u \in Users, cache'[u] # NoHash PROVE HasHash(u)
    BY <1>1
  <2>1. CASE cache' = cache
    BY <2>1 DEF AccountInv, HashKnown
  <2>2. ASSUME NEW v \in Users, NEW hash \in Hashes, cache' = [cache EXCEPT ![v] = hash],
               hash # NoHash => HasHash(v)
        PROVE  HasHash(u)
    <3>1. CASE u = v
      BY <2>2, <3>1 DEF TypeInv, TypeOK
    <3>2. CASE u # v
      BY <2>2, <3>2 DEF TypeInv, TypeOK, AccountInv, HashKnown
    <3> QED
      BY <3>1, <3>2
  <2> QED
    BY <2>1, <2>2
<1>3. ASSUME NEW s \in Requests
      PROVE  /\ (pc[s] = "checkFill" /\ req[s].hash # NoHash => HasHash(req[s].user))'
             /\ (pc[s] \in {"changeUncache", "changePin", "changeWrite"} =>
                  HasHash(req[s].user))'
  <2>1. InHandAt(pc'[s], req'[s]) /\ Knows(pc'[s], req'[s])
    <3>1. CASE s = r
      BY <3>1 DEF Steps
    <3>2. CASE s # r
      <4>1. pc'[s] = pc[s] /\ req'[s] = req[s]
        BY <3>2 DEF Steps
      <4> QED
        BY <4>1, ReqType DEF AccountInv, HashKnown, Knows
    <3> QED
      BY <3>1, <3>2
  <2>2. pc'[s] \in ChangePC => req'[s].user \in Users
    BY <2>1, TheTwo DEF InHandAt
  <2> QED
    BY <1>1, <2>1, <2>2 DEF Knows, ChangePC, HasHash
<1>4. InitProgress'
  BY TheTwo DEF AccountInv, InitProgress, Grows
<1> QED
  BY <1>2, <1>3, <1>4 DEF AccountInv, HashKnown

LEMMA InitStepAccount ==
  ASSUME TypeInv, AccountInv, RowsReach', AdminIsUser', Grows,
         NEW i \in Inits, NEW label, InitSteps(i, label),
         label \in {"adminHash", "hashPin", "hashWrite"} => primary'[Admin] # NoRow,
         label \in {"presetGet", "presetPin", "presetInsert", "done"} => HasHash(Admin)',
         label = "done" => primary'[Preset] # NoRow
  PROVE  AccountInv'
<1>1. \A u \in Users : HasHash(u) => HasHash(u)'
  BY DEF Grows
<1>2. HashKnown'
  <2>1. ASSUME NEW s \in Requests,
               pc[s] = "checkFill" \/ pc[s] \in {"changeUncache", "changePin", "changeWrite"}
        PROVE  req[s].user \in Users
    BY <2>1, Holds DEF ChangePC
  <2> QED
    BY <1>1, <2>1 DEF AccountInv, HashKnown, InitSteps
<1>3. InitProgress'
  <2>1. ASSUME NEW j \in Inits
        PROVE  /\ init'[j] \in {"adminHash", "hashPin", "hashWrite"} =>
                    primary'[Admin] # NoRow
               /\ init'[j] \in {"presetGet", "presetPin", "presetInsert", "done"} =>
                    HasHash(Admin)'
               /\ init'[j] = "done" => primary'[Preset] # NoRow
    <3>1. CASE j = i
      BY <3>1 DEF InitSteps
    <3>2. CASE j # i
      BY <3>2, TheTwo DEF InitSteps, AccountInv, InitProgress, Grows
    <3> QED
      BY <3>1, <3>2
  <2> QED
    BY <2>1 DEF InitProgress
<1> QED
  BY <1>2, <1>3 DEF AccountInv
LEMMA InitAccountInv == Init => AccountInv
<1> SUFFICES ASSUME Init PROVE AccountInv
  OBVIOUS
<1>1. PICK admin \in {NoRow} \cup [type : {"user"}, hash : Hashes],
           preset \in {NoRow} \cup [type : PresetTypes, hash : {NoHash}] :
        RepoInit([u \in Users |-> IF u = Admin THEN admin
                                  ELSE IF u = Preset THEN preset ELSE NoRow])
  BY DEF Init
<1>2. replica = primary /\ wal = <<>> /\ primary[Admin] = admin
  BY <1>1, TheTwo DEF RepoInit
<1>3. RowsReach
  BY <1>2 DEF RowsReach, Reaches
<1>4. AdminIsUser
  BY <1>2 DEF AdminIsUser
<1>5. InitProgress
  BY DEF Init, InitProgress
<1>6. HashKnown
  BY DEF Init, HashKnown
<1> QED
  BY <1>3, <1>4, <1>5, <1>6 DEF AccountInv

\* A step that leaves the tables alone.
LEMMA QuietAccount ==
  ASSUME TypeInv, AccountInv, TablesUnchanged, NEW r \in Requests, NEW label, NEW q,
         Steps(r, label, q), Knows(label, q),
         \/ cache' = cache
         \/ \E u \in Users, hash \in Hashes : /\ cache' = [cache EXCEPT ![u] = hash]
                                              /\ hash # NoHash => HasHash(u)
  PROVE  AccountInv'
<1>1. UNCHANGED <<primary, replica, wal, init>>
  BY DEF TablesUnchanged, repoVars
<1> QED
  BY <1>1, TablesKeptReach, StepAccount

LEMMA RequestAccount ==
  ASSUME TypeInv, AccountInv, NEW r \in Requests,
         AuthChangePassword(r) \/ AuthenticateUser(r) \/ Proceed(r) \/ Abort(r)
  PROVE  AccountInv'
<1>1. CASE AuthChangePassword(r)
  <2>1. PICK q : Steps(r, "checkCache", q)
    BY <1>1, ChangeArrives
  <2> QED
    BY <1>1, <2>1, ChangeArrives, QuietAccount DEF Knows
<1>2. CASE AuthenticateUser(r)
  <2>1. PICK q : Steps(r, "authUser", q)
    BY <1>2, AuthArrives
  <2> QED
    BY <1>2, <2>1, AuthArrives, QuietAccount DEF Knows
<1>3. CASE CheckCache(r)
  <2>1. PICK label \in {"changeUncache", "refused", "checkRead"} :
          /\ Steps(r, label, req[r])
          /\ label = "changeUncache" => cache[req[r].user] # NoHash
    BY <1>3, CacheAsked
  <2>2. req[r].user \in Users
    BY <1>3, CacheAsked, Holds DEF ChangePC
  <2>3. Knows(label, req[r])
    BY <2>1, <2>2 DEF Knows, AccountInv, HashKnown
  <2> QED
    BY <1>3, <2>1, <2>3, CacheAsked, QuietAccount
<1>4. CASE CheckRead(r)
  <2>1. /\ TablesUnchanged /\ UNCHANGED cache /\ req[r].user \in Users
    BY <1>4, HashRead, Holds DEF ChangePC
  <2>2. CASE Steps(r, "refused", req[r])
    BY <2>1, <2>2, QuietAccount DEF Knows
  <2>3. CASE \E t \in Snapshots(req[r].user) : \E q :
               /\ Steps(r, "checkFill", q)
               /\ t[req[r].user] # NoRow /\ q.hash = t[req[r].user].hash
               /\ q.user = req[r].user
    <3>1. PICK t \in Snapshots(req[r].user) : \E q :
               /\ Steps(r, "checkFill", q)
               /\ t[req[r].user] # NoRow /\ q.hash = t[req[r].user].hash
               /\ q.user = req[r].user
      BY <2>3
    <3>2. PICK q : /\ Steps(r, "checkFill", q)
                   /\ t[req[r].user] # NoRow /\ q.hash = t[req[r].user].hash
                   /\ q.user = req[r].user
      BY <3>1
    <3>3. Knows("checkFill", q)
      BY <2>1, <3>2, ReadReaches DEF Knows
    <3> QED
      BY <2>1, <3>2, <3>3, QuietAccount
  <2> QED
    BY <1>4, <2>2, <2>3, HashRead
<1>5. CASE CheckFill(r)
  <2>1. /\ TablesUnchanged /\ pc[r] = "checkFill"
        /\ req[r].user \in Users /\ req[r].hash \in Hashes /\ req[r].old \in Passwords
        /\ \/ cache' = cache
           \/ cache' = [cache EXCEPT ![req[r].user] = req[r].hash]
    BY <1>5, HashCached
  <2>2. PICK label \in {"changeUncache", "refused"} :
          /\ Steps(r, label, req[r])
          /\ label = "changeUncache" => req[r].hash = req[r].old
    BY <1>5, HashCached
  <2>3. req[r].hash # NoHash => HasHash(req[r].user)
    BY <2>1 DEF AccountInv, HashKnown
  <2>4. Knows(label, req[r])
    BY <2>1, <2>2, <2>3, PasswordsAreHashes DEF Knows
  <2> QED
    BY <2>1, <2>2, <2>3, <2>4, QuietAccount
<1>6. CASE ChangeUncache(r)
  <2>1. /\ TablesUnchanged /\ pc[r] = "changeUncache" /\ req[r].user \in Users
        /\ Steps(r, "changePin", req[r])
        /\ cache' = cache \/ cache' = [cache EXCEPT ![req[r].user] = NoHash]
    BY <1>6, CacheRemoved
  <2>2. Knows("changePin", req[r])
    BY <2>1 DEF Knows, AccountInv, HashKnown
  <2> QED
    BY <2>1, <2>2, QuietAccount, PasswordsAreHashes
<1>7. CASE ChangePin(r)
  <2>1. /\ UNCHANGED <<primary, replica, wal, cache, init>> /\ pc[r] = "changePin"
        /\ Steps(r, "changeWrite", req[r])
    BY <1>7, ChangePins
  <2>2. Knows("changeWrite", req[r])
    BY <2>1 DEF Knows, AccountInv, HashKnown
  <2> QED
    BY <2>1, <2>2, TablesKeptReach, StepAccount
<1>8. CASE ChangeWrite(r)
  <2>1. /\ UNCHANGED <<cache, init>> /\ req[r].user \in Users /\ req[r].user \in Writers
        /\ req[r].new \in Passwords /\ Steps(r, "changed", req[r])
        /\ \/ UNCHANGED <<primary, replica, wal>>
           \/ HashWrites(req[r].user, req[r].new, req[r].user)
    BY <1>8, ChangeWrites DEF Writers
  <2>2. RowsReach' /\ AdminIsUser' /\ Grows
    BY <2>1, TablesKeptReach, WritesWrote, WritesReach
  <2> QED
    BY <2>1, <2>2, StepAccount DEF Knows
<1>9. CASE AuthUser(r) \/ AuthHash(r)
  <2>1. PICK label \in {"authHash", "authenticated", "refused"} : Steps(r, label, req[r])
    BY <1>9, Authenticates
  <2> QED
    BY <1>9, <2>1, Authenticates, QuietAccount DEF Knows
<1>10. CASE Finish(r) \/ Abort(r)
  BY <1>10, Ends, QuietAccount DEF Knows
<1> QED
  BY <1>1, <1>2, <1>3, <1>4, <1>5, <1>6, <1>7, <1>8, <1>9, <1>10 DEF Proceed

LEMMA ProvisionAccount ==
  ASSUME TypeInv, AccountInv, NEW i \in Inits, Provision(i) \/ Crash(i)
  PROVE  AccountInv'
<1>1. CASE AdminGet(i) \/ AdminHash(i) \/ PresetGet(i)
  <2>1. UNCHANGED <<primary, replica, wal>>
    BY <1>1, InitReads DEF repoVars
  <2>2. RowsReach' /\ AdminIsUser' /\ Grows
    BY <2>1, TablesKeptReach
  <2>3. \A t \in Snapshots(NoUser) :
          /\ \A u \in Users : t[u] # NoRow => primary'[u] # NoRow
          /\ t[Admin] # NoRow /\ t[Admin].hash # NoHash => HasHash(Admin)'
    BY <2>1, ReadReaches, TheTwo DEF HasHash
  <2>4. init[i] = "presetGet" => HasHash(Admin)'
    BY <2>2, TheTwo DEF AccountInv, InitProgress, Grows
  <2>5. \E label : /\ InitSteps(i, label)
                   /\ label \in {"adminHash", "hashPin", "hashWrite"} =>
                        primary'[Admin] # NoRow
                   /\ label \in {"presetGet", "presetPin", "presetInsert", "done"} =>
                        HasHash(Admin)'
                   /\ label = "done" => primary'[Preset] # NoRow
    BY <1>1, <2>3, <2>4, TheTwo, InitReads
  <2> QED
    BY <2>2, <2>5, InitStepAccount
<1>2. CASE AdminPin(i) \/ HashPin(i) \/ PresetPin(i)
  <2>1. UNCHANGED <<primary, replica, wal>>
    BY <1>2, InitPins
  <2>2. RowsReach' /\ AdminIsUser' /\ Grows
    BY <2>1, TablesKeptReach
  <2>3. /\ init[i] = "hashPin" => primary'[Admin] # NoRow
        /\ init[i] = "presetPin" => HasHash(Admin)'
    BY <2>2, TheTwo DEF AccountInv, InitProgress, Grows
  <2> QED
    BY <1>2, <2>2, <2>3, InitPins, InitStepAccount
<1>3. CASE AdminInsert(i) \/ HashWrite(i) \/ PresetInsert(i)
  <2>1. ASSUME NEW u \in Users, Inserts(u)
        PROVE  RowsReach' /\ AdminIsUser' /\ Grows /\ primary'[u] # NoRow
    <3>1. Default \in Passwords /\ NoUser \in Writers
      BY PasswordsAreHashes DEF Writers
    <3> QED
      BY <2>1, <3>1, WritesWrote, WritesReach
  <2>2. ASSUME HashWrites(Admin, Default, NoUser)
        PROVE  RowsReach' /\ AdminIsUser' /\ Grows /\ HasHash(Admin)'
    <3>1. Default \in Passwords /\ NoUser \in Writers
      BY PasswordsAreHashes DEF Writers
    <3> QED
      BY <2>2, <3>1, TheTwo, WritesWrote, WritesReach
  <2>3. CASE init[i] = "adminInsert"
    <3>1. CASE InitSteps(i, "fatal") /\ UNCHANGED <<primary, replica, wal>>
      BY <3>1, TablesKeptReach, InitStepAccount
    <3>2. CASE InitSteps(i, "hashPin") /\ Inserts(Admin)
      BY <2>1, <3>2, TheTwo, InitStepAccount
    <3> QED
      BY <1>3, <2>3, <3>1, <3>2, InitWrites
  <2>4. CASE init[i] = "hashWrite"
    <3>1. InitSteps(i, "presetGet") /\ primary[Admin] # NoRow
      BY <1>3, <2>4, InitWrites DEF AccountInv, InitProgress
    <3>2. HashWrites(Admin, Default, NoUser)
      BY <1>3, <2>4, <3>1, InitWrites
    <3> QED
      BY <2>2, <3>1, <3>2, InitStepAccount
  <2>5. CASE init[i] = "presetInsert"
    <3>1. InitSteps(i, "done")
      BY <1>3, <2>5, InitWrites
    <3>2. RowsReach' /\ AdminIsUser' /\ Grows /\ primary'[Preset] # NoRow
      BY <1>3, <2>1, <2>5, TheTwo, InitWrites, TablesKeptReach
    <3>3. HasHash(Admin)'
      BY <2>5, <3>2, TheTwo DEF AccountInv, InitProgress, Grows
    <3> QED
      BY <3>1, <3>2, <3>3, InitStepAccount
  <2> QED
    BY <1>3, <2>3, <2>4, <2>5, InitWrites
<1>4. CASE Restart(i) \/ Crash(i)
  <2>1. UNCHANGED <<primary, replica, wal>>
    BY <1>4, InitRestarts DEF repoVars
  <2> QED
    BY <1>4, <2>1, InitRestarts, TablesKeptReach, InitStepAccount
<1> QED
  BY <1>1, <1>2, <1>3, <1>4 DEF Provision

LEMMA NextAccountInv ==
  ASSUME TypeInv, AccountInv, [Next]_vars
  PROVE  AccountInv'
<1>1. ASSUME UNCHANGED <<init, pc, req>>, RowsReach', AdminIsUser', Grows,
             \A u \in Users : cache'[u] # NoHash => cache[u] # NoHash
      PROVE  AccountInv'
  <2>1. \A u \in Users : HasHash(u) => HasHash(u)'
    BY <1>1 DEF Grows
  <2>2. ASSUME NEW s \in Requests,
               pc[s] = "checkFill" \/ pc[s] \in {"changeUncache", "changePin", "changeWrite"}
        PROVE  req[s].user \in Users
    BY <2>2, Holds DEF ChangePC
  <2>3. HashKnown'
    BY <1>1, <2>1, <2>2 DEF AccountInv, HashKnown
  <2>4. InitProgress'
    BY <1>1, TheTwo DEF AccountInv, InitProgress, Grows
  <2> QED
    BY <1>1, <2>3, <2>4 DEF AccountInv
<1>2. CASE UNCHANGED vars
  BY <1>1, <1>2, TablesKeptReach DEF vars, repoVars, reqVars
<1>3. CASE Backend
  <2>1. UNCHANGED <<init, pc, req>>
    BY <1>3 DEF Backend, CacheExpire, reqVars
  <2>2. ASSUME Replicate, UNCHANGED cache PROVE AccountInv'
    BY <1>1, <2>1, <2>2, ReplicateReach
  <2>3. ASSUME NEW u, PinExpire(u, Writing(u)), UNCHANGED cache PROVE AccountInv'
    BY <1>1, <2>1, <2>3, TablesKeptReach DEF PinExpire
  <2>4. ASSUME NEW u \in Users, CacheExpire(u) PROVE AccountInv'
    <3>1. UNCHANGED <<primary, replica, wal>>
      BY <2>4 DEF CacheExpire, repoVars
    <3>2. \A v \in Users : cache'[v] # NoHash => cache[v] # NoHash
      BY <2>4 DEF CacheExpire, SetCache, TypeInv, TypeOK
    <3> QED
      BY <1>1, <2>1, <3>1, <3>2, TablesKeptReach
  <2> QED
    BY <1>3, <2>2, <2>3, <2>4 DEF Backend
<1> QED
  BY <1>2, <1>3, RequestAccount, ProvisionAccount DEF Next

\* A process of cmd/init that is done leaves an admin with a password and a
\* preset owner, in every environment, and with any number of processes, crashes
\* and requests besides.
THEOREM Provisioned == Spec => []ProvisionedWhenDone
<1>1. Spec => [](TypeInv /\ AccountInv)
  BY InitTypeInv, InitAccountInv, NextTypeInv, NextAccountInv, PTL DEF Spec
<1>2. AccountInv => ProvisionedWhenDone
  BY DEF AccountInv, AdminIsUser, InitProgress, HasHash, ProvisionedWhenDone, IsUser
<1> QED
  BY <1>1, <1>2, PTL
-----------------------------------------------------------------------------
\* What holds while the marks outlive the lag and Redis answers

\* What request r's step does to the tables and the marks.
ActsOnTables(r, label, q) ==
  \/ UNCHANGED <<primary, replica, wal, pinned>> /\ label # "changeWrite"
  \/ UNCHANGED <<primary, replica, wal>> /\ PinUser(q.user) /\ label = "changeWrite"
  \/ /\ UNCHANGED pinned /\ label = "changed" /\ pc[r] = "changeWrite"
     /\ req[r].user \in Users /\ req[r].new \in Passwords
     /\ \/ UNCHANGED <<primary, replica, wal>>
        \/ HashWrites(req[r].user, req[r].new, req[r].user)

LEMMA RequestTables ==
  ASSUME TypeInv, NEW r \in Requests,
         AuthChangePassword(r) \/ AuthenticateUser(r) \/ Proceed(r) \/ Abort(r)
  PROVE  /\ UNCHANGED init
         /\ \E label : \E q : Steps(r, label, q) /\ ActsOnTables(r, label, q)
<1> USE DEF ActsOnTables
<1>1. ASSUME TablesUnchanged,
             \E label : \E q : Steps(r, label, q) /\ label # "changeWrite"
      PROVE  /\ UNCHANGED <<init, primary, replica, wal, pinned>>
             /\ \E label : \E q : Steps(r, label, q) /\ label # "changeWrite"
  BY <1>1 DEF TablesUnchanged, repoVars
<1>2. CASE AuthChangePassword(r)
  BY <1>1, <1>2, ChangeArrives
<1>3. CASE AuthenticateUser(r)
  BY <1>1, <1>3, AuthArrives
<1>4. CASE CheckCache(r)
  <2>1. PICK label \in {"changeUncache", "refused", "checkRead"} : Steps(r, label, req[r])
    BY <1>4, CacheAsked
  <2> QED
    BY <1>1, <1>4, <2>1, CacheAsked
<1>5. CASE CheckRead(r)
  <2>1. \E label : \E q : Steps(r, label, q) /\ label # "changeWrite"
    BY <1>5, HashRead
  <2> QED
    BY <1>1, <1>5, <2>1, HashRead
<1>6. CASE CheckFill(r)
  <2>1. PICK label \in {"changeUncache", "refused"} : Steps(r, label, req[r])
    BY <1>6, HashCached
  <2> QED
    BY <1>1, <1>6, <2>1, HashCached
<1>7. CASE ChangeUncache(r)
  BY <1>1, <1>7, CacheRemoved
<1>8. CASE ChangePin(r)
  BY <1>8, ChangePins
<1>9. CASE ChangeWrite(r)
  BY <1>9, ChangeWrites
<1>10. CASE AuthUser(r) \/ AuthHash(r)
  <2>1. PICK label \in {"authHash", "authenticated", "refused"} : Steps(r, label, req[r])
    BY <1>10, Authenticates
  <2> QED
    BY <1>1, <1>10, <2>1, Authenticates
<1>11. CASE Finish(r) \/ Abort(r)
  BY <1>1, <1>11, Ends
<1> QED
  BY <1>2, <1>3, <1>4, <1>5, <1>6, <1>7, <1>8, <1>9, <1>10, <1>11 DEF Proceed

\* What the log holds is of pinned users.
LogPinned == \A i \in DOMAIN wal : wal[i].by \in pinned

LEMMA StepPinned ==
  ASSUME TypeInv, WritersPinned, LogPinned', pinned \subseteq pinned', UNCHANGED init,
         NEW r \in Requests, NEW label, NEW q, Steps(r, label, q),
         label = "changeWrite" => q.user \in pinned'
  PROVE  WritersPinned'
<1>1. ASSUME NEW s \in Requests, pc'[s] = "changeWrite" PROVE req'[s].user \in pinned'
  <2>1. CASE s = r
    BY <1>1, <2>1 DEF Steps
  <2>2. CASE s # r
    BY <1>1, <2>2 DEF Steps, WritersPinned
  <2> QED
    BY <2>1, <2>2
<1> QED
  BY <1>1 DEF WritersPinned, LogPinned

LEMMA InitStepPinned ==
  ASSUME TypeInv, WritersPinned, LogPinned', pinned \subseteq pinned',
         NEW i \in Inits, NEW label, InitSteps(i, label),
         label \in {"adminInsert", "hashWrite", "presetInsert"} => NoUser \in pinned'
  PROVE  WritersPinned'
<1>1. ASSUME NEW j \in Inits, init'[j] \in {"adminInsert", "hashWrite", "presetInsert"}
      PROVE  NoUser \in pinned'
  <2>1. CASE j = i
    BY <1>1, <2>1 DEF InitSteps
  <2>2. CASE j # i
    BY <1>1, <2>2 DEF InitSteps, WritersPinned
  <2> QED
    BY <2>1, <2>2
<1>2. \A s \in Requests : pc'[s] = "changeWrite" => req'[s].user \in pinned'
  BY DEF InitSteps, WritersPinned
<1> QED
  BY <1>1, <1>2 DEF WritersPinned, LogPinned

LEMMA CommitPinned ==
  ASSUME TypeInv, WritersPinned, NEW u \in Users, NEW row \in Row, NEW by \in Writers,
         Commit(u, row, by), by \in pinned, UNCHANGED pinned
  PROVE  LogPinned'
<1>1. \A i \in DOMAIN wal' : \/ i \in DOMAIN wal /\ wal'[i] = wal[i]
                             \/ wal'[i].by = by
  BY TypeWellFormed, RowExists, CommitEffect DEF TypeInv
<1> QED
  BY <1>1 DEF WritersPinned, LogPinned

LEMMA WritesPinned ==
  ASSUME TypeInv, WritersPinned, UNCHANGED pinned, NEW u \in Users,
         \/ UNCHANGED wal
         \/ \E hash : \E by \in pinned \cap Writers : HashWrites(u, hash, by)
         \/ Inserts(u) /\ NoUser \in pinned
  PROVE  LogPinned'
<1>1. CASE UNCHANGED wal
  BY <1>1 DEF WritersPinned, LogPinned
<1>2. ASSUME NEW row \in Row, NEW by \in pinned \cap Writers, Commit(u, row, by)
      PROVE  LogPinned'
  BY <1>2, CommitPinned
<1>3. NoUser \in Writers
  BY DEF Writers
<1> QED
  BY <1>1, <1>2, <1>3 DEF HashWrites, Inserts

LEMMA NextPinned ==
  ASSUME TimelyReplication, "redis" \notin Environment,
         TypeInv, WritersPinned, [Next]_vars
  PROVE  WritersPinned'
<1>1. CASE UNCHANGED vars
  BY <1>1 DEF vars, repoVars, reqVars, WritersPinned
<1>2. CASE Backend
  <2>1. UNCHANGED <<init, pc, req>>
    BY <1>2 DEF Backend, CacheExpire, reqVars
  <2>2. CASE Replicate
    <3>1. /\ pinned' = pinned
          /\ \A i \in DOMAIN wal' : i + 1 \in DOMAIN wal /\ wal'[i] = wal[i + 1]
      BY <2>2, TypeWellFormed, ReplicateEffect DEF TypeInv
    <3> QED
      BY <2>1, <3>1 DEF WritersPinned
  <2>3. ASSUME NEW u, PinExpire(u, Writing(u)) PROVE WritersPinned'
    <3>1. /\ ~Writing(u) /\ \A i \in DOMAIN wal : wal[i].by # u
          /\ pinned' = pinned \ {u} /\ UNCHANGED wal
      BY <2>3 DEF PinExpire
    <3> QED
      BY <2>1, <3>1 DEF WritersPinned, Writing
  <2>4. ASSUME NEW u \in Users, CacheExpire(u) PROVE WritersPinned'
    BY <2>1, <2>4 DEF CacheExpire, repoVars, WritersPinned
  <2> QED
    BY <1>2, <2>2, <2>3, <2>4 DEF Backend
<1>3. ASSUME NEW r \in Requests,
             AuthChangePassword(r) \/ AuthenticateUser(r) \/ Proceed(r) \/ Abort(r)
      PROVE  WritersPinned'
  <2>1. UNCHANGED init
    BY <1>3, RequestTables
  <2>2. PICK label : \E q : Steps(r, label, q) /\ ActsOnTables(r, label, q)
    BY <1>3, RequestTables
  <2>3. PICK q : Steps(r, label, q) /\ ActsOnTables(r, label, q)
    BY <2>2
  <2>4. CASE UNCHANGED <<primary, replica, wal, pinned>> /\ label # "changeWrite"
    <3>1. LogPinned'
      BY <2>4 DEF WritersPinned, LogPinned
    <3> QED
      BY <2>1, <2>3, <2>4, <3>1, StepPinned
  <2>5. CASE /\ UNCHANGED <<primary, replica, wal>> /\ PinUser(q.user)
             /\ label = "changeWrite"
    <3>1. pinned' = pinned \cup {q.user}
      BY <2>5, PinSets
    <3>2. LogPinned'
      BY <2>5, <3>1 DEF WritersPinned, LogPinned
    <3> QED
      BY <2>1, <2>3, <2>5, <3>1, <3>2, StepPinned
  <2>6. CASE /\ UNCHANGED pinned /\ label = "changed" /\ pc[r] = "changeWrite"
             /\ req[r].user \in Users
             /\ \/ UNCHANGED <<primary, replica, wal>>
                \/ HashWrites(req[r].user, req[r].new, req[r].user)
    <3>1. req[r].user \in pinned \cap Writers
      BY <2>6 DEF WritersPinned, Writers
    <3>2. LogPinned'
      BY <2>6, <3>1, WritesPinned
    <3> QED
      BY <2>1, <2>3, <2>6, <3>2, StepPinned
  <2> QED
    BY <2>3, <2>4, <2>5, <2>6 DEF ActsOnTables
<1>4. ASSUME NEW i \in Inits, Provision(i) \/ Crash(i)
      PROVE  WritersPinned'
  <2>1. CASE AdminGet(i) \/ AdminHash(i) \/ PresetGet(i)
    <3>1. UNCHANGED <<wal, pinned>>
      BY <2>1, InitReads DEF repoVars
    <3>2. LogPinned'
      BY <3>1 DEF WritersPinned, LogPinned
    <3>3. \E label : /\ InitSteps(i, label)
                     /\ label \notin {"adminInsert", "hashWrite", "presetInsert"}
      BY <2>1, InitReads
    <3> QED
      BY <3>1, <3>2, <3>3, InitStepPinned
  <2>2. CASE AdminPin(i) \/ HashPin(i) \/ PresetPin(i)
    <3>1. UNCHANGED wal /\ pinned' = pinned \cup {NoUser}
      BY <2>2, InitPins, PinSets
    <3>2. LogPinned'
      BY <3>1 DEF WritersPinned, LogPinned
    <3> QED
      BY <2>2, <3>1, <3>2, InitPins, InitStepPinned
  <2>3. CASE AdminInsert(i) \/ HashWrite(i) \/ PresetInsert(i)
    <3>1. NoUser \in pinned \cap Writers /\ UNCHANGED pinned
      BY <2>3, InitWrites DEF WritersPinned, Writers
    <3>2. LogPinned'
      BY <2>3, <3>1, InitWrites, WritesPinned, TheTwo
    <3> QED
      BY <2>3, <3>1, <3>2, InitWrites, InitStepPinned
  <2>4. CASE Restart(i) \/ Crash(i)
    <3>1. UNCHANGED <<wal, pinned>>
      BY <2>4, InitRestarts DEF repoVars
    <3>2. LogPinned'
      BY <3>1 DEF WritersPinned, LogPinned
    <3> QED
      BY <2>4, <3>1, <3>2, InitRestarts, InitStepPinned
  <2> QED
    BY <1>4, <2>1, <2>2, <2>3, <2>4 DEF Provision
<1> QED
  BY <1>1, <1>2, <1>3, <1>4 DEF Next
\* How a write may touch the admin's row: it puts a password there, in place of
\* one or for cmd/init, or it creates the row.
WriteOfAdmin(u, row, by) ==
  u = Admin =>
    \/ row.hash # NoHash /\ (HasHash(Admin) \/ by = NoUser)
    \/ primary[Admin] = NoRow /\ row.hash = NoHash

LEMMA CommitEmpty ==
  ASSUME HasReplica, TypeInv, AccountInv, EmptyPending,
         NEW u \in Users, NEW row \in Row, NEW by \in Writers,
         Commit(u, row, by), WriteOfAdmin(u, row, by)
  PROVE  EmptyPending'
<1>1. /\ primary'[u] = row
      /\ \A v \in Users \ {u} : primary'[v] = primary[v]
      /\ replica' = replica
      /\ DOMAIN wal' = 1..(Len(wal) + 1)
      /\ \A i \in DOMAIN wal : wal'[i] = wal[i]
      /\ wal'[Len(wal) + 1].key = u /\ wal'[Len(wal) + 1].row = row
      /\ wal'[Len(wal) + 1].by = by
  BY TypeWellFormed, RowExists, CommitEffect DEF TypeInv
<1>2. /\ Len(wal) \in Nat /\ DOMAIN wal = 1..Len(wal)
  BY TypeWellFormed, LogRecords DEF TypeInv
<1>3. ASSUME NEW old, NEW i \in 0..Len(wal), Reaches(old, Admin), EmptyOrPending(old, i),
             old # NoRow, old.hash = NoHash
      PROVE  primary'[Admin].hash = NoHash \/ Pending(Admin, i, NoUser)'
  <2>1. primary[Admin] # NoRow
    BY <1>3 DEF Reaches
  <2>2. CASE Pending(Admin, i, NoUser)
    BY <1>1, <1>2, <2>2 DEF Pending
  <2>3. CASE primary[Admin].hash = NoHash /\ u # Admin
    BY <1>1, <2>3, TheTwo
  <2>4. CASE primary[Admin].hash = NoHash /\ u = Admin
    <3>1. by = NoUser
      BY <2>1, <2>4 DEF WriteOfAdmin, HasHash
    <3>2. Len(wal) + 1 \in DOMAIN wal' /\ Len(wal) + 1 > i
      BY <1>1, <1>2
    <3> QED
      BY <1>1, <2>4, <3>1, <3>2 DEF Pending
  <2> QED
    BY <1>3, <2>2, <2>3, <2>4 DEF EmptyOrPending
<1>4. EmptyOrPending(replica[Admin], 0)'
  <2>1. Reaches(replica[Admin], Admin) /\ EmptyOrPending(replica[Admin], 0)
    BY TheTwo DEF AccountInv, RowsReach, EmptyPending
  <2>2. 0 \in 0..Len(wal)
    BY <1>2
  <2> QED
    BY <1>1, <1>3, <2>1, <2>2 DEF EmptyOrPending
<1>5. ASSUME NEW i \in DOMAIN wal', wal'[i].key = Admin
      PROVE  EmptyOrPending(wal[i].row, i)'
  <2>1. CASE i \in DOMAIN wal
    <3>1. wal'[i] = wal[i] /\ i \in 0..Len(wal)
      BY <1>1, <1>2, <2>1
    <3>2. Reaches(wal[i].row, Admin) /\ EmptyOrPending(wal[i].row, i)
      BY <1>5, <2>1, <3>1 DEF AccountInv, RowsReach, EmptyPending
    <3> QED
      BY <1>3, <3>1, <3>2 DEF EmptyOrPending
  <2>2. CASE i = Len(wal) + 1
    BY <1>1, <1>5, <2>2 DEF EmptyOrPending
  <2> QED
    BY <1>1, <1>2, <2>1, <2>2
<1> QED
  BY <1>4, <1>5 DEF EmptyPending

LEMMA ReplicateEmpty ==
  ASSUME TypeInv, EmptyPending, Replicate
  PROVE  EmptyPending'
<1>1. /\ primary' = primary /\ Len(wal) \in Nat \ {0} /\ 1 \in DOMAIN wal
      /\ DOMAIN wal' = 1..(Len(wal) - 1)
      /\ \A i \in DOMAIN wal' : i + 1 \in DOMAIN wal /\ wal'[i] = wal[i + 1]
      /\ replica'[wal[1].key] = wal[1].row
      /\ \A j \in Users \ {wal[1].key} : replica'[j] = replica[j]
  BY TypeWellFormed, ReplicateEffect DEF TypeInv
<1>2. DOMAIN wal = 1..Len(wal)
  BY TypeWellFormed, LogRecords DEF TypeInv
<1>3. ASSUME NEW i \in Nat, Pending(Admin, i + 1, NoUser)
      PROVE  Pending(Admin, i, NoUser)'
  <2>1. PICK j \in DOMAIN wal : j > i + 1 /\ wal[j].key = Admin /\ wal[j].by = NoUser
    BY <1>3 DEF Pending
  <2>2. j - 1 \in DOMAIN wal' /\ j - 1 > i /\ wal'[j - 1] = wal[j]
    BY <1>1, <1>2, <2>1
  <2> QED
    BY <2>1, <2>2 DEF Pending
<1>4. EmptyOrPending(replica[Admin], 0)'
  <2>1. CASE wal[1].key = Admin
    <3>1. EmptyOrPending(wal[1].row, 1)
      BY <1>1, <2>1 DEF EmptyPending
    <3> QED
      BY <1>1, <1>3, <2>1, <3>1 DEF EmptyOrPending
  <2>2. CASE wal[1].key # Admin
    <3>1. replica'[Admin] = replica[Admin] /\ EmptyOrPending(replica[Admin], 0)
      BY <1>1, <2>2, TheTwo DEF EmptyPending
    <3>2. Pending(Admin, 0, NoUser) => Pending(Admin, 1, NoUser)
      BY <1>1, <1>2, <2>2 DEF Pending
    <3> QED
      BY <1>1, <1>3, <3>1, <3>2 DEF EmptyOrPending
  <2> QED
    BY <2>1, <2>2
<1>5. ASSUME NEW i \in DOMAIN wal', wal'[i].key = Admin
      PROVE  EmptyOrPending(wal[i].row, i)'
  <2>1. i \in Nat /\ wal'[i] = wal[i + 1] /\ EmptyOrPending(wal[i + 1].row, i + 1)
    BY <1>1, <1>5 DEF EmptyPending
  <2> QED
    BY <1>1, <1>3, <2>1 DEF EmptyOrPending
<1> QED
  BY <1>4, <1>5 DEF EmptyPending
\* cmd/init reads that the admin has no password: there is none.  The replica
\* is asked only without the mark, and then it has what cmd/init has written.
LEMMA ReadsEmpty ==
  ASSUME "redis" \notin Environment, TypeInv, KeptInv,
         NEW t \in Snapshots(NoUser), t[Admin] # NoRow, t[Admin].hash = NoHash
  PROVE  primary[Admin].hash = NoHash
<1>1. CASE t = primary
  BY <1>1
<1>2. CASE HasReplica /\ NoUser \notin pinned /\ t = replica
  <2>1. ~Pending(Admin, 0, NoUser)
    BY <1>2 DEF KeptInv, WritersPinned, Pending
  <2> QED
    BY <1>2, <2>1 DEF KeptInv, EmptyPending, EmptyOrPending
<1> QED
  BY <1>1, <1>2, ReadsPinned

LEMMA TablesKeptEmpty ==
  ASSUME KeptInv, UNCHANGED <<primary, replica, wal>>
  PROVE  (HasReplica => EmptyPending)'
  BY DEF KeptInv, EmptyPending, EmptyOrPending, Pending

LEMMA NextKeptInv ==
  ASSUME TimelyReplication, "redis" \notin Environment, \A i, j \in Inits : i = j,
         TypeInv, AccountInv, KeptInv, [Next]_vars
  PROVE  KeptInv'
<1>1. WritersPinned'
  BY NextPinned DEF KeptInv
<1>2. ASSUME UNCHANGED <<init, primary, replica, wal>> PROVE KeptInv'
  BY <1>1, <1>2, TablesKeptEmpty DEF KeptInv, StillEmpty
<1>3. CASE UNCHANGED vars
  BY <1>2, <1>3 DEF vars, repoVars
<1>4. CASE Backend
  <2>1. UNCHANGED init
    BY <1>4 DEF Backend, CacheExpire
  <2>2. CASE Replicate
    <3>1. primary' = primary
      BY <2>2 DEF Replicate
    <3>2. (HasReplica => EmptyPending)'
      BY <2>2, ReplicateEmpty DEF KeptInv
    <3> QED
      BY <1>1, <2>1, <3>1, <3>2 DEF KeptInv, StillEmpty
  <2>3. CASE ~Replicate
    BY <1>2, <1>4, <2>1, <2>3 DEF Backend, PinExpire, CacheExpire, repoVars
  <2> QED
    BY <2>2, <2>3
<1>5. ASSUME NEW r \in Requests,
             AuthChangePassword(r) \/ AuthenticateUser(r) \/ Proceed(r) \/ Abort(r)
      PROVE  KeptInv'
  <2>1. UNCHANGED init
    BY <1>5, RequestTables
  <2>2. CASE UNCHANGED <<primary, replica, wal>>
    BY <1>2, <2>1, <2>2
  <2>3. CASE /\ pc[r] = "changeWrite" /\ req[r].user \in Users /\ req[r].new \in Passwords
             /\ HashWrites(req[r].user, req[r].new, req[r].user)
    <3> DEFINE u == req[r].user
    <3>1. HasHash(u)
      BY <2>3 DEF AccountInv, HashKnown
    <3>2. PICK row \in Row : row.hash = req[r].new /\ Commit(u, row, u)
      BY <2>3 DEF HashWrites
    <3>3. u \in Writers /\ row.hash # NoHash
      BY <2>3, <3>2, PasswordsAreHashes DEF Writers
    <3>4. (HasReplica => EmptyPending)'
      <4>1. WriteOfAdmin(u, row, u)
        BY <3>1, <3>3 DEF WriteOfAdmin
      <4> QED
        BY <2>3, <3>2, <3>3, <4>1, CommitEmpty DEF KeptInv
    <3>5. ASSUME NEW i \in Inits, init[i] \in {"hashPin", "hashWrite"}
          PROVE  primary'[Admin].hash = NoHash
      <4>1. primary[Admin].hash = NoHash
        BY <3>5 DEF KeptInv, StillEmpty
      <4>2. u # Admin
        BY <3>1, <4>1 DEF HasHash
      <4>3. primary'[Admin] = primary[Admin]
        BY <3>2, <4>2, TheTwo DEF Commit, TypeInv, TypeOK
      <4> QED
        BY <4>1, <4>3
    <3> QED
      BY <1>1, <2>1, <3>4, <3>5 DEF KeptInv, StillEmpty
  <2> QED
    BY <1>5, <2>2, <2>3, RequestTables DEF ActsOnTables
<1>6. ASSUME NEW i \in Inits, NEW label, InitSteps(i, label), (HasReplica => EmptyPending)',
             label \in {"hashPin", "hashWrite"} => primary'[Admin].hash = NoHash
      PROVE  KeptInv'
  <2>1. \A j \in Inits : init'[j] = label
    BY <1>6 DEF InitSteps
  <2> QED
    BY <1>1, <1>6, <2>1 DEF KeptInv, StillEmpty
<1>7. ASSUME NEW i \in Inits, Provision(i) \/ Crash(i)
      PROVE  KeptInv'
  <2>1. CASE AdminGet(i) \/ AdminHash(i) \/ PresetGet(i)
    <3>1. UNCHANGED <<primary, replica, wal>>
      BY <2>1, InitReads DEF repoVars
    <3>2. (HasReplica => EmptyPending)'
      BY <3>1, TablesKeptEmpty
    <3>3. \A t \in Snapshots(NoUser) :
            t[Admin] # NoRow /\ t[Admin].hash = NoHash => primary'[Admin].hash = NoHash
      BY <3>1, ReadsEmpty
    <3>4. \E label : /\ InitSteps(i, label)
                     /\ label \in {"hashPin", "hashWrite"} => primary'[Admin].hash = NoHash
      BY <2>1, <3>3, InitReads
    <3> QED
      BY <1>6, <3>2, <3>4
  <2>2. CASE AdminPin(i) \/ HashPin(i) \/ PresetPin(i)
    <3>1. UNCHANGED <<primary, replica, wal>>
      BY <2>2, InitPins
    <3>2. (HasReplica => EmptyPending)'
      BY <3>1, TablesKeptEmpty
    <3>3. init[i] = "hashPin" => primary'[Admin].hash = NoHash
      BY <3>1 DEF KeptInv, StillEmpty
    <3> QED
      BY <1>6, <2>2, <3>2, <3>3, InitPins
  <2>3. CASE AdminInsert(i) \/ HashWrite(i) \/ PresetInsert(i)
    <3>1. ASSUME NEW u \in Users, Inserts(u)
          PROVE  /\ (HasReplica => EmptyPending)'
                 /\ u = Admin => primary'[Admin].hash = NoHash
      <4>1. PICK row \in Row : /\ primary[u] = NoRow /\ row.hash = NoHash
                               /\ Commit(u, row, NoUser)
        BY <3>1 DEF Inserts
      <4>2. WriteOfAdmin(u, row, NoUser) /\ NoUser \in Writers
        BY <4>1 DEF WriteOfAdmin, Writers
      <4>3. (HasReplica => EmptyPending)'
        BY <4>1, <4>2, CommitEmpty DEF KeptInv
      <4>4. primary'[u] = row
        BY <4>1 DEF Commit, TypeInv, TypeOK
      <4> QED
        BY <4>1, <4>3, <4>4
    <3>2. ASSUME HashWrites(Admin, Default, NoUser)
          PROVE  (HasReplica => EmptyPending)'
      <4>1. PICK row \in Row : row.hash = Default /\ Commit(Admin, row, NoUser)
        BY <3>2 DEF HashWrites
      <4>2. WriteOfAdmin(Admin, row, NoUser) /\ NoUser \in Writers
        BY <4>1, PasswordsAreHashes DEF WriteOfAdmin, Writers
      <4> QED
        BY <4>1, <4>2, TheTwo, CommitEmpty DEF KeptInv
    <3>3. CASE InitSteps(i, "fatal") /\ UNCHANGED <<primary, replica, wal>>
      BY <1>6, <3>3, TablesKeptEmpty
    <3>4. CASE InitSteps(i, "hashPin") /\ Inserts(Admin)
      BY <1>6, <3>1, <3>4, TheTwo
    <3>5. CASE InitSteps(i, "presetGet") \/ InitSteps(i, "done")
      <4>1. (HasReplica => EmptyPending)'
        BY <2>3, <3>1, <3>2, TheTwo, InitWrites, TablesKeptEmpty
      <4> QED
        BY <1>6, <3>5, <4>1
    <3> QED
      BY <2>3, <3>3, <3>4, <3>5, InitWrites
  <2>4. CASE Restart(i) \/ Crash(i)
    <3>1. UNCHANGED <<primary, replica, wal>>
      BY <2>4, InitRestarts DEF repoVars
    <3> QED
      BY <1>6, <2>4, <3>1, InitRestarts, TablesKeptEmpty
  <2> QED
    BY <1>7, <2>1, <2>2, <2>3, <2>4 DEF Provision
<1> QED
  BY <1>3, <1>4, <1>5, <1>7 DEF Next

LEMMA InitKeptInv == Init => KeptInv
<1> SUFFICES ASSUME Init PROVE KeptInv
  OBVIOUS
<1>1. replica = primary /\ wal = <<>>
  BY DEF Init, RepoInit
<1>2. /\ \A r \in Requests : pc[r] = "idle"
      /\ \A i \in Inits : init[i] = "adminGet"
  BY DEF Init
<1> QED
  BY <1>1, <1>2 DEF KeptInv, WritersPinned, StillEmpty, EmptyPending, EmptyOrPending

\* One process of cmd/init, while Redis answers and the marks outlive the lag:
\* it sets the default password only where there is none.  Two processes do
\* replace a password: the second writes what it has decided before somebody
\* changed the password the first had set.
THEOREM ChosenKept ==
  ASSUME TimelyReplication, "redis" \notin Environment, \A i, j \in Inits : i = j
  PROVE  Spec => ChosenPasswordKept
<1> DEFINE Inv == TypeInv /\ AccountInv /\ KeptInv
<1>1. Init => Inv
  BY InitTypeInv, InitAccountInv, InitKeptInv
<1>2. Inv /\ [Next]_vars => Inv'
  BY NextTypeInv, NextAccountInv, NextKeptInv
<1>3. Inv => [\A i \in Inits :
                init[i] = "hashWrite" /\ init'[i] = "presetGet" =>
                  primary[Admin] # NoRow /\ primary[Admin].hash \in {NoHash, Default}]_vars
  BY DEF AccountInv, InitProgress, KeptInv, StillEmpty
<1> HIDE DEF Inv
<1> QED
  BY <1>1, <1>2, <1>3, PTL DEF Spec, ChosenPasswordKept
-----------------------------------------------------------------------------
\* What holds, besides, for one request at a time

LEMMA LogKept ==
  ASSUME LogInv, UNCHANGED <<primary, replica, wal>>
  PROVE  LogInv'
  BY DEF LogInv, ChangesPending, LogLeadsToPrimary, CurrentOrPending, Pending, Lagging

\* A user changes their password, or a row without one is written.
LEMMA CommitLog ==
  ASSUME TypeInv, AccountInv, LogInv,
         NEW u \in Users, NEW row \in Row, NEW by \in Writers,
         Commit(u, row, by), by = u \/ ~HasHash(u)
  PROVE  LogInv'
<1> SUFFICES ASSUME HasReplica PROVE (ChangesPending /\ LogLeadsToPrimary)'
  BY DEF LogInv
<1>1. /\ primary'[u] = row
      /\ \A v \in Users \ {u} : primary'[v] = primary[v]
      /\ replica' = replica
      /\ DOMAIN wal' = 1..(Len(wal) + 1)
      /\ \A i \in DOMAIN wal : wal'[i] = wal[i]
      /\ wal'[Len(wal) + 1].key = u /\ wal'[Len(wal) + 1].row = row
      /\ wal'[Len(wal) + 1].by = by
  BY TypeWellFormed, RowExists, CommitEffect DEF TypeInv
<1>2. /\ Len(wal) \in Nat /\ DOMAIN wal = 1..Len(wal)
      /\ \A i \in DOMAIN wal : wal[i].key \in Users
  BY TypeWellFormed, LogRecords DEF TypeInv
<1>3. Len(wal) + 1 \in DOMAIN wal' /\ \A i \in 0..Len(wal) : Len(wal) + 1 > i
  BY <1>1, <1>2
<1>4. ASSUME NEW old, NEW v \in Users, NEW i \in 0..Len(wal), old # NoRow,
             Reaches(old, v), CurrentOrPending(old, v, i)
      PROVE  old.hash \in {primary'[v].hash, NoHash} \/ Pending(v, i, v)'
  <2>1. CASE Pending(v, i, v)
    BY <1>1, <1>2, <2>1 DEF Pending
  <2>2. CASE v # u /\ ~Pending(v, i, v)
    BY <1>1, <1>4, <2>2 DEF CurrentOrPending
  <2>3. CASE v = u /\ by = u
    BY <1>1, <1>3, <2>3 DEF Pending
  <2>4. CASE v = u /\ ~HasHash(u)
    BY <1>4, <2>4 DEF Reaches, HasHash
  <2> QED
    BY <2>1, <2>2, <2>3, <2>4
<1>5. ChangesPending'
  <2>1. ASSUME NEW v \in Users PROVE CurrentOrPending(replica[v], v, 0)'
    <3>1. Reaches(replica[v], v) /\ CurrentOrPending(replica[v], v, 0) /\ 0 \in 0..Len(wal)
      BY <1>2 DEF AccountInv, RowsReach, LogInv, ChangesPending
    <3> QED
      BY <1>1, <1>4, <3>1 DEF CurrentOrPending
  <2>2. ASSUME NEW i \in DOMAIN wal'
        PROVE  CurrentOrPending(wal[i].row, wal[i].key, i)'
    <3>1. CASE i \in DOMAIN wal
      <4>1. /\ Reaches(wal[i].row, wal[i].key) /\ CurrentOrPending(wal[i].row, wal[i].key, i)
            /\ wal[i].key \in Users /\ i \in 0..Len(wal) /\ wal'[i] = wal[i]
        BY <1>1, <1>2, <3>1 DEF AccountInv, RowsReach, LogInv, ChangesPending
      <4> QED
        BY <1>4, <4>1 DEF CurrentOrPending
    <3>2. CASE i = Len(wal) + 1
      BY <1>1, <3>2 DEF CurrentOrPending
    <3> QED
      BY <1>1, <1>2, <3>1, <3>2
  <2> QED
    BY <2>1, <2>2 DEF ChangesPending
<1>6. LogLeadsToPrimary'
  <2>1. ASSUME NEW v \in Users PROVE (Lagging(v) \/ replica[v] = primary[v])'
    <3>1. CASE v = u
      BY <1>1, <1>3, <3>1 DEF Lagging
    <3>2. CASE v # u
      <4>1. Lagging(v) \/ replica[v] = primary[v]
        BY DEF LogInv, LogLeadsToPrimary
      <4> QED
        BY <1>1, <1>2, <3>2, <4>1 DEF Lagging
    <3> QED
      BY <3>1, <3>2
  <2>2. ASSUME NEW i \in DOMAIN wal'
        PROVE  \/ wal'[i].row = primary'[wal'[i].key]
               \/ \E j \in DOMAIN wal' : j > i /\ wal'[j].key = wal'[i].key
    <3>1. CASE i = Len(wal) + 1
      BY <1>1, <3>1
    <3>2. CASE i \in DOMAIN wal /\ wal[i].key = u
      BY <1>1, <1>2, <1>3, <3>2
    <3>3. CASE i \in DOMAIN wal /\ wal[i].key # u
      <4>1. \/ wal[i].row = primary[wal[i].key]
            \/ \E j \in DOMAIN wal : j > i /\ wal[j].key = wal[i].key
        BY <3>3 DEF LogInv, LogLeadsToPrimary
      <4>2. wal'[i] = wal[i] /\ primary'[wal[i].key] = primary[wal[i].key]
        BY <1>1, <1>2, <3>3
      <4>3. ASSUME NEW j \in DOMAIN wal, j > i, wal[j].key = wal[i].key
            PROVE  \E k \in DOMAIN wal' : k > i /\ wal'[k].key = wal'[i].key
        <5>1. j \in DOMAIN wal' /\ wal'[j] = wal[j]
          BY <1>1, <1>2
        <5> QED
          BY <4>2, <4>3, <5>1
      <4> QED
        BY <4>1, <4>2, <4>3
    <3> QED
      BY <1>1, <1>2, <3>1, <3>2, <3>3
  <2> QED
    BY <2>1, <2>2 DEF LogLeadsToPrimary
<1> QED
  BY <1>5, <1>6

LEMMA ReplicateLog ==
  ASSUME TypeInv, LogInv, Replicate
  PROVE  /\ LogInv'
         /\ \A u \in Users : ~Lagging(u) => ~Lagging(u)' /\ replica'[u] = replica[u]
<1>1. /\ primary' = primary /\ Len(wal) \in Nat \ {0} /\ 1 \in DOMAIN wal
      /\ wal[1].key \in Users
      /\ DOMAIN wal' = 1..(Len(wal) - 1)
      /\ \A i \in DOMAIN wal' : i + 1 \in DOMAIN wal /\ wal'[i] = wal[i + 1]
      /\ replica'[wal[1].key] = wal[1].row
      /\ \A j \in Users \ {wal[1].key} : replica'[j] = replica[j]
  BY TypeWellFormed, ReplicateEffect DEF TypeInv
<1>2. DOMAIN wal = 1..Len(wal)
  BY TypeWellFormed, LogRecords DEF TypeInv
<1>3. \A u \in Users : ~Lagging(u) => ~Lagging(u)' /\ replica'[u] = replica[u]
  BY <1>1 DEF Lagging
<1>4. ASSUME NEW j \in DOMAIN wal, j # 1
      PROVE  j - 1 \in DOMAIN wal' /\ wal'[j - 1] = wal[j]
  BY <1>1, <1>2, <1>4
<1>5. ASSUME NEW u, NEW i \in Nat, Pending(u, i + 1, u)
      PROVE  Pending(u, i, u)'
  <2>1. PICK j \in DOMAIN wal : j > i + 1 /\ wal[j].key = u /\ wal[j].by = u
    BY <1>5 DEF Pending
  <2>2. j - 1 \in DOMAIN wal' /\ j - 1 > i /\ wal'[j - 1] = wal[j]
    BY <1>2, <1>4, <2>1
  <2> QED
    BY <2>1, <2>2 DEF Pending
<1>6. HasReplica => ChangesPending'
  <2> SUFFICES ASSUME HasReplica PROVE ChangesPending'
    OBVIOUS
  <2>1. ASSUME NEW u \in Users PROVE CurrentOrPending(replica[u], u, 0)'
    <3>1. CASE wal[1].key = u
      <4>1. CurrentOrPending(wal[1].row, u, 1)
        BY <1>1, <3>1 DEF LogInv, ChangesPending
      <4> QED
        BY <1>1, <1>5, <3>1, <4>1 DEF CurrentOrPending
    <3>2. CASE wal[1].key # u
      <4>1. replica'[u] = replica[u] /\ CurrentOrPending(replica[u], u, 0)
        BY <1>1, <3>2 DEF LogInv, ChangesPending
      <4>2. Pending(u, 0, u) => Pending(u, 1, u)
        BY <1>1, <1>2, <3>2 DEF Pending
      <4> QED
        BY <1>1, <1>5, <4>1, <4>2 DEF CurrentOrPending
    <3> QED
      BY <3>1, <3>2
  <2>2. ASSUME NEW i \in DOMAIN wal'
        PROVE  CurrentOrPending(wal[i].row, wal[i].key, i)'
    <3>1. /\ i \in Nat /\ wal'[i] = wal[i + 1]
          /\ CurrentOrPending(wal[i + 1].row, wal[i + 1].key, i + 1)
      BY <1>1 DEF LogInv, ChangesPending
    <3> QED
      BY <1>1, <1>5, <3>1 DEF CurrentOrPending
  <2> QED
    BY <2>1, <2>2 DEF ChangesPending
<1>7. HasReplica => LogLeadsToPrimary'
  <2> SUFFICES ASSUME HasReplica PROVE LogLeadsToPrimary'
    OBVIOUS
  <2>1. ASSUME NEW u \in Users PROVE (Lagging(u) \/ replica[u] = primary[u])'
    <3>1. ASSUME NEW j \in DOMAIN wal, j # 1, wal[j].key = u PROVE Lagging(u)'
      BY <1>4, <3>1 DEF Lagging
    <3>2. CASE wal[1].key = u
      <4>1. \/ wal[1].row = primary[u]
            \/ \E j \in DOMAIN wal : j > 1 /\ wal[j].key = u
        BY <1>1, <3>2 DEF LogInv, LogLeadsToPrimary
      <4> QED
        BY <1>1, <3>1, <3>2, <4>1
    <3>3. CASE wal[1].key # u
      <4>1. Lagging(u) \/ replica[u] = primary[u]
        BY DEF LogInv, LogLeadsToPrimary
      <4> QED
        BY <1>1, <3>1, <3>3, <4>1 DEF Lagging
    <3> QED
      BY <3>2, <3>3
  <2>2. ASSUME NEW i \in DOMAIN wal'
        PROVE  \/ wal'[i].row = primary'[wal'[i].key]
               \/ \E j \in DOMAIN wal' : j > i /\ wal'[j].key = wal'[i].key
    <3>1. i \in Nat /\ i + 1 \in DOMAIN wal /\ wal'[i] = wal[i + 1]
      BY <1>1
    <3>2. \/ wal[i + 1].row = primary[wal[i + 1].key]
          \/ \E j \in DOMAIN wal : j > i + 1 /\ wal[j].key = wal[i + 1].key
      BY <3>1 DEF LogInv, LogLeadsToPrimary
    <3>3. ASSUME NEW j \in DOMAIN wal, j > i + 1, wal[j].key = wal[i + 1].key
          PROVE  \E k \in DOMAIN wal' : k > i /\ wal'[k].key = wal'[i].key
      <4>1. j - 1 \in DOMAIN wal' /\ j - 1 > i /\ wal'[j - 1] = wal[j]
        BY <1>2, <1>4, <3>1, <3>3
      <4> QED
        BY <3>1, <3>3, <4>1
    <3> QED
      BY <1>1, <3>1, <3>2, <3>3
  <2> QED
    BY <2>1, <2>2 DEF LogLeadsToPrimary
<1> QED
  BY <1>3, <1>6, <1>7 DEF LogInv
\* A row that a request reads for its own user has the user's password, or none.
LEMMA ReadsCurrent ==
  ASSUME "redis" \notin Environment, KeptInv, RefusedInv,
         NEW u \in Users, NEW t \in Snapshots(u), t[u] # NoRow
  PROVE  t[u].hash \in {primary[u].hash, NoHash}
<1>1. CASE t = primary
  BY <1>1
<1>2. CASE HasReplica /\ u \notin pinned /\ t = replica
  <2>1. ~Pending(u, 0, u)
    BY <1>2 DEF KeptInv, WritersPinned, Pending
  <2> QED
    BY <1>2, <2>1 DEF RefusedInv, LogInv, ChangesPending, CurrentOrPending
<1> QED
  BY <1>1, <1>2, ReadsPinned

\* The only request there is takes a step that leaves the tables alone.
LEMMA QuietRefused ==
  ASSUME RefusedInv, TablesUnchanged, NEW r \in Requests, \A s \in Requests : s = r,
         CacheCurrent', WrongAt(pc[r], req[r])'
  PROVE  RefusedInv'
<1>1. UNCHANGED <<primary, replica, wal>>
  BY DEF TablesUnchanged, repoVars
<1>2. LogInv'
  BY <1>1, LogKept DEF RefusedInv
<1>3. \A s \in Requests : WrongAt(pc[s], req[s])'
  OBVIOUS
<1> QED
  BY <1>2, <1>3 DEF RefusedInv

LEMMA RequestRefused ==
  ASSUME "redis" \notin Environment, TypeInv, AccountInv, KeptInv, RefusedInv,
         NEW r \in Requests, \A s \in Requests : s = r,
         AuthChangePassword(r) \/ AuthenticateUser(r) \/ Proceed(r) \/ Abort(r)
  PROVE  RefusedInv'
<1>1. ASSUME TablesUnchanged
      PROVE  /\ UNCHANGED <<primary, replica, wal>>
             /\ UNCHANGED cache => CacheCurrent'
             /\ \A u, p : Wrong(u, p) => Wrong(u, p)'
             /\ \A u : Lagging(u)' = Lagging(u)
  BY <1>1 DEF TablesUnchanged, repoVars, RefusedInv, CacheCurrent, Wrong, Lagging
<1>2. WrongAt(pc[r], req[r])
  BY DEF RefusedInv
<1>3. CASE AuthChangePassword(r)
  <2>1. PICK q : Steps(r, "checkCache", q) /\ q.wrong = Wrong(q.user, q.old)
    BY <1>3, ChangeArrives
  <2>2. WrongAt(pc[r], req[r])'
    BY <1>1, <1>3, <2>1, ChangeArrives DEF WrongAt, Steps, AuthPC
  <2> QED
    BY <1>1, <1>3, <2>2, ChangeArrives, QuietRefused
<1>4. CASE AuthenticateUser(r)
  <2>1. PICK q : /\ Steps(r, "authUser", q)
                 /\ q.wrong = (Wrong(q.user, q.old) /\ ~Lagging(q.user))
    BY <1>4, AuthArrives
  <2>2. q.user \in Users
    BY <2>1, TheTwo DEF Steps, InHandAt, AuthPC
  <2>3. HasReplica /\ ~Lagging(q.user) => replica[q.user] = primary[q.user]
    BY <2>2 DEF RefusedInv, LogInv, LogLeadsToPrimary
  <2>4. pc'[r] = "authUser" /\ req'[r] = q
    BY <2>1 DEF Steps
  <2>5. WrongAt(pc[r], req[r])'
    BY <1>1, <1>4, <2>1, <2>3, <2>4, AuthArrives DEF WrongAt, AuthPC
  <2> QED
    BY <1>1, <1>4, <2>5, AuthArrives, QuietRefused
<1>5. CASE CheckCache(r)
  <2>1. /\ TablesUnchanged /\ UNCHANGED cache /\ pc[r] = "checkCache"
        /\ req[r].user \in Users
    BY <1>5, CacheAsked, Holds DEF ChangePC
  <2>2. PICK label \in {"changeUncache", "refused", "checkRead"} :
          /\ Steps(r, label, req[r])
          /\ label = "changeUncache" => /\ cache[req[r].user] # NoHash
                                        /\ cache[req[r].user] = req[r].old
    BY <1>5, CacheAsked
  <2>3. label = "changeUncache" => ~Wrong(req[r].user, req[r].old)
    BY <2>1, <2>2 DEF RefusedInv, CacheCurrent, Wrong
  <2>4. pc'[r] = label /\ req'[r] = req[r]
    BY <2>2 DEF Steps
  <2>5. WrongAt(pc[r], req[r])'
    BY <1>1, <1>2, <2>1, <2>3, <2>4 DEF WrongAt, AuthPC
  <2> QED
    BY <1>1, <2>1, <2>5, QuietRefused
<1>6. CASE CheckRead(r)
  <2>1. /\ TablesUnchanged /\ UNCHANGED cache /\ pc[r] = "checkRead"
        /\ req[r].user \in Users
    BY <1>6, HashRead, Holds DEF ChangePC
  <2>2. CASE Steps(r, "refused", req[r])
    <3>1. WrongAt(pc[r], req[r])'
      BY <2>2 DEF WrongAt, Steps, AuthPC
    <3> QED
      BY <1>1, <2>1, <3>1, QuietRefused
  <2>3. CASE \E t \in Snapshots(req[r].user) : \E q :
               /\ Steps(r, "checkFill", q)
               /\ t[req[r].user] # NoRow /\ q.hash = t[req[r].user].hash
               /\ q.user = req[r].user /\ q.old = req[r].old /\ q.wrong = req[r].wrong
    <3>1. PICK q : /\ Steps(r, "checkFill", q)
                   /\ q.hash \in {primary[q.user].hash, NoHash}
                   /\ q.user = req[r].user /\ q.old = req[r].old /\ q.wrong = req[r].wrong
      BY <2>1, <2>3, ReadsCurrent
    <3>2. pc'[r] = "checkFill" /\ req'[r] = q
      BY <3>1 DEF Steps
    <3>3. WrongAt(pc[r], req[r])'
      BY <1>1, <1>2, <2>1, <3>1, <3>2 DEF WrongAt, AuthPC
    <3> QED
      BY <1>1, <2>1, <3>3, QuietRefused
  <2> QED
    BY <1>6, <2>2, <2>3, HashRead
<1>7. CASE CheckFill(r)
  <2>1. /\ TablesUnchanged /\ pc[r] = "checkFill"
        /\ req[r].user \in Users /\ req[r].hash \in Hashes /\ req[r].old \in Passwords
        /\ \/ cache' = cache
           \/ cache' = [cache EXCEPT ![req[r].user] = req[r].hash]
    BY <1>7, HashCached
  <2>2. req[r].hash \in {primary[req[r].user].hash, NoHash}
    BY <1>2, <2>1 DEF WrongAt
  <2>3. CacheCurrent'
    <3>1. ASSUME NEW u \in Users, cache'[u] # NoHash PROVE cache'[u] = primary[u].hash
      BY <2>1, <2>2, <3>1 DEF RefusedInv, CacheCurrent, TypeInv, TypeOK
    <3> QED
      BY <1>1, <2>1, <3>1 DEF CacheCurrent
  <2>4. PICK label \in {"changeUncache", "refused"} :
          /\ Steps(r, label, req[r])
          /\ label = "changeUncache" => req[r].hash = req[r].old
    BY <1>7, HashCached
  <2>5. label = "changeUncache" => ~Wrong(req[r].user, req[r].old)
    BY <2>1, <2>2, <2>4, PasswordsAreHashes DEF Wrong
  <2>6. pc'[r] = label /\ req'[r] = req[r]
    BY <2>4 DEF Steps
  <2>7. WrongAt(pc[r], req[r])'
    BY <1>2, <2>1, <2>5, <2>6 DEF WrongAt, AuthPC
  <2> QED
    BY <2>1, <2>3, <2>7, QuietRefused
<1>8. CASE ChangeUncache(r)
  <2>1. /\ TablesUnchanged /\ pc[r] = "changeUncache" /\ req[r].user \in Users
        /\ Steps(r, "changePin", req[r])
        /\ cache' = [cache EXCEPT ![req[r].user] = NoHash]
    BY <1>8, CacheRemoved
  <2>2. CacheCurrent'
    <3>1. ASSUME NEW u \in Users, cache'[u] # NoHash PROVE cache'[u] = primary[u].hash
      BY <2>1, <3>1 DEF RefusedInv, CacheCurrent, TypeInv, TypeOK
    <3> QED
      BY <1>1, <2>1, <3>1 DEF CacheCurrent
  <2>3. cache'[req[r].user] = NoHash
    BY <2>1 DEF TypeInv, TypeOK
  <2>4. pc'[r] = "changePin" /\ req'[r] = req[r]
    BY <2>1 DEF Steps
  <2>5. WrongAt(pc[r], req[r])'
    BY <1>2, <2>1, <2>3, <2>4 DEF WrongAt, AuthPC
  <2> QED
    BY <2>1, <2>2, <2>5, QuietRefused
<1>9. CASE ChangePin(r)
  <2>1. /\ UNCHANGED <<primary, replica, wal, cache>> /\ pc[r] = "changePin"
        /\ Steps(r, "changeWrite", req[r])
    BY <1>9, ChangePins
  <2>2. pc'[r] = "changeWrite" /\ req'[r] = req[r]
    BY <2>1 DEF Steps
  <2>3. WrongAt(pc[r], req[r])'
    BY <1>2, <2>1, <2>2 DEF WrongAt, AuthPC
  <2>4. LogInv' /\ CacheCurrent'
    BY <2>1, LogKept DEF RefusedInv, CacheCurrent
  <2>5. \A s \in Requests : WrongAt(pc[s], req[s])'
    BY <2>3
  <2> QED
    BY <2>4, <2>5 DEF RefusedInv
<1>10. CASE ChangeWrite(r)
  <2> DEFINE u == req[r].user
  <2>1. /\ UNCHANGED cache /\ pc[r] = "changeWrite" /\ u \in Users
        /\ Steps(r, "changed", req[r])
        /\ \/ UNCHANGED <<primary, replica, wal>>
           \/ HashWrites(u, req[r].new, u)
    BY <1>10, ChangeWrites
  <2>2. cache[u] = NoHash /\ ~req[r].wrong
    BY <1>2, <2>1 DEF WrongAt
  <2>3. LogInv' /\ \A v \in Users \ {u} : primary'[v] = primary[v]
    <3>1. CASE UNCHANGED <<primary, replica, wal>>
      BY <3>1, LogKept DEF RefusedInv
    <3>2. ASSUME NEW row \in Row, Commit(u, row, u)
          PROVE  LogInv' /\ \A v \in Users \ {u} : primary'[v] = primary[v]
      <4>1. u \in Writers
        BY <2>1 DEF Writers
      <4>2. LogInv'
        BY <2>1, <3>2, <4>1, CommitLog DEF RefusedInv
      <4> QED
        BY <2>1, <3>2, <4>2 DEF Commit, TypeInv, TypeOK
    <3> QED
      BY <2>1, <3>1, <3>2 DEF HashWrites
  <2>4. CacheCurrent'
    BY <2>1, <2>2, <2>3 DEF RefusedInv, CacheCurrent
  <2>5. pc'[r] = "changed" /\ req'[r] = req[r]
    BY <2>1 DEF Steps
  <2>6. WrongAt(pc[r], req[r])'
    BY <2>2, <2>5 DEF WrongAt, AuthPC
  <2>7. \A s \in Requests : WrongAt(pc[s], req[s])'
    BY <2>6
  <2> QED
    BY <2>3, <2>4, <2>7 DEF RefusedInv
<1>11. CASE AuthUser(r) \/ AuthHash(r)
  <2>1. TablesUnchanged /\ UNCHANGED cache /\ pc[r] \in AuthPC
    BY <1>11, Authenticates
  <2>2. PICK label \in {"authHash", "authenticated", "refused"} :
          /\ Steps(r, label, req[r])
          /\ label = "authenticated" =>
               \E t \in Snapshots(NoUser) : /\ t[req[r].user] # NoRow
                                            /\ t[req[r].user].hash = req[r].old
    BY <1>11, Authenticates
  <2>3. ASSUME label = "authenticated", req[r].wrong PROVE FALSE
    <3>1. PICK t \in Snapshots(NoUser) : t[req[r].user].hash = req[r].old
      BY <2>2, <2>3
    <3>2. Wrong(req[r].user, req[r].old)
      BY <1>2, <2>1, <2>3 DEF WrongAt
    <3>3. CASE t = primary
      BY <3>1, <3>2, <3>3 DEF Wrong
    <3>4. CASE HasReplica /\ t = replica
      <4>1. replica[req[r].user] = primary[req[r].user]
        BY <1>2, <2>1, <2>3, <3>4 DEF WrongAt
      <4> QED
        BY <3>1, <3>2, <3>4, <4>1 DEF Wrong
    <3> QED
      BY <3>3, <3>4, ReadsPinned
  <2>4. pc'[r] = label /\ req'[r] = req[r]
    BY <2>2 DEF Steps
  <2>5. WrongAt(pc[r], req[r])'
    BY <1>1, <1>2, <2>1, <2>3, <2>4 DEF WrongAt, AuthPC
  <2> QED
    BY <1>1, <2>1, <2>5, QuietRefused
<1>12. CASE Finish(r) \/ Abort(r)
  <2>1. pc'[r] = "idle" /\ req'[r] = NoReq /\ ~NoReq.wrong
    BY <1>12, Ends DEF Steps, NoReq
  <2>2. WrongAt(pc[r], req[r])'
    BY <2>1 DEF WrongAt, AuthPC
  <2> QED
    BY <1>1, <1>12, <2>2, Ends, QuietRefused
<1> QED
  BY <1>3, <1>4, <1>5, <1>6, <1>7, <1>8, <1>9, <1>10, <1>11, <1>12 DEF Proceed
\* Where there is no password yet, nobody has a wrong one, and a write of
\* cmd/init makes nothing stale.
LEMMA GrantRefused ==
  ASSUME TypeInv, AccountInv, RefusedInv, UNCHANGED <<cache, pc, req>>,
         NEW u \in Users, ~HasHash(u),
         NEW row \in Row, NEW by \in Writers, Commit(u, row, by)
  PROVE  RefusedInv'
<1>1. LogInv'
  BY CommitLog DEF RefusedInv
<1>2. /\ \A v \in Users \ {u} : primary'[v] = primary[v]
      /\ replica' = replica
      /\ \A i \in DOMAIN wal' : (i \in DOMAIN wal /\ wal'[i] = wal[i]) \/ wal'[i].key = u
  BY TypeWellFormed, RowExists, CommitEffect DEF TypeInv
<1>3. cache[u] = NoHash /\ \A p : ~Wrong(u, p)
  BY DEF AccountInv, HashKnown, HasHash, Wrong
<1>4. CacheCurrent'
  BY <1>2, <1>3 DEF RefusedInv, CacheCurrent
<1>5. ASSUME NEW r \in Requests PROVE WrongAt(pc[r], req[r])'
  <2>1. WrongAt(pc[r], req[r])
    BY DEF RefusedInv
  <2>2. pc[r] \in ChangePC \cup AuthPC => req[r].user \in Users
    BY Holds
  <2>3. CASE req[r].user = u
    <3>1. pc[r] = "checkFill" => req[r].hash = NoHash
      BY <2>3 DEF AccountInv, HashKnown
    <3>2. (pc[r] \in {"checkCache", "checkRead", "checkFill"} \cup AuthPC) => ~req[r].wrong
      BY <1>3, <2>1, <2>3 DEF WrongAt
    <3> QED
      BY <2>1, <3>1, <3>2 DEF WrongAt
  <2>4. CASE req[r].user # u
    <3>1. CASE req[r].user \in Users
      <4>1. primary'[req[r].user] = primary[req[r].user]
        BY <1>2, <2>4, <3>1
      <4>2. Lagging(req[r].user)' => Lagging(req[r].user)
        BY <1>2, <2>4 DEF Lagging
      <4>3. Wrong(req[r].user, req[r].old) => Wrong(req[r].user, req[r].old)'
        BY <4>1 DEF Wrong
      <4> QED
        BY <1>2, <2>1, <4>1, <4>2, <4>3 DEF WrongAt
    <3>2. CASE pc[r] \notin ChangePC \cup AuthPC
      BY <2>1, <3>2 DEF WrongAt, ChangePC
    <3> QED
      BY <2>2, <3>1, <3>2
  <2> QED
    BY <2>3, <2>4
<1> QED
  BY <1>1, <1>4, <1>5 DEF RefusedInv

LEMMA KeptRefused ==
  ASSUME RefusedInv, UNCHANGED <<primary, replica, wal, cache, pc, req>>
  PROVE  RefusedInv'
<1>1. LogInv' /\ CacheCurrent'
  BY LogKept DEF RefusedInv, CacheCurrent
<1>2. ASSUME NEW r \in Requests PROVE WrongAt(pc[r], req[r])'
  <2>1. WrongAt(pc[r], req[r])
    BY DEF RefusedInv
  <2> QED
    BY <2>1 DEF WrongAt, Wrong, Lagging
<1> QED
  BY <1>1, <1>2 DEF RefusedInv

LEMMA ProvisionRefused ==
  ASSUME TypeInv, AccountInv, KeptInv, RefusedInv,
         NEW i \in Inits, Provision(i) \/ Crash(i)
  PROVE  RefusedInv'
<1>1. UNCHANGED <<cache, pc, req>>
  BY DEF Provision, AdminGet, AdminHash, AdminPin, AdminInsert, HashPin, HashWrite,
         PresetGet, PresetPin, PresetInsert, Restart, Crash, reqVars
<1>2. ASSUME NEW u \in Users, Inserts(u) PROVE RefusedInv'
  <2>1. PICK row \in Row : primary[u] = NoRow /\ Commit(u, row, NoUser)
    BY <1>2 DEF Inserts
  <2>2. ~HasHash(u) /\ NoUser \in Writers
    BY <2>1 DEF HasHash, Writers
  <2> QED
    BY <1>1, <2>1, <2>2, GrantRefused
<1>3. ASSUME init[i] = "hashWrite", HashWrites(Admin, Default, NoUser) PROVE RefusedInv'
  <2>1. PICK row \in Row : Commit(Admin, row, NoUser)
    BY <1>3 DEF HashWrites
  <2>2. ~HasHash(Admin) /\ NoUser \in Writers
    BY <1>3 DEF KeptInv, StillEmpty, HasHash, Writers
  <2> QED
    BY <1>1, <2>1, <2>2, TheTwo, GrantRefused
<1>4. CASE AdminInsert(i) \/ HashWrite(i) \/ PresetInsert(i)
  BY <1>1, <1>2, <1>3, <1>4, TheTwo, InitWrites, KeptRefused
<1>5. CASE ~(AdminInsert(i) \/ HashWrite(i) \/ PresetInsert(i))
  <2>1. UNCHANGED <<primary, replica, wal>>
    BY <1>5, InitReads, InitPins, InitRestarts DEF Provision, repoVars
  <2> QED
    BY <1>1, <2>1, KeptRefused
<1> QED
  BY <1>4, <1>5

LEMMA BackendRefused ==
  ASSUME TypeInv, RefusedInv, Backend
  PROVE  RefusedInv'
<1>1. UNCHANGED <<pc, req>>
  BY DEF Backend, CacheExpire, reqVars
<1>2. CASE Replicate /\ UNCHANGED cache
  <2>1. /\ LogInv' /\ primary' = primary
        /\ \A u \in Users : ~Lagging(u) => ~Lagging(u)' /\ replica'[u] = replica[u]
    BY <1>2, ReplicateLog DEF RefusedInv, Replicate
  <2>2. CacheCurrent'
    BY <1>2, <2>1 DEF RefusedInv, CacheCurrent
  <2>3. ASSUME NEW r \in Requests PROVE WrongAt(pc[r], req[r])'
    <3>1. WrongAt(pc[r], req[r])
      BY DEF RefusedInv
    <3>2. pc[r] \in AuthPC => req[r].user \in Users
      BY Holds
    <3> QED
      BY <1>1, <1>2, <2>1, <3>1, <3>2 DEF WrongAt, Wrong
  <2> QED
    BY <2>1, <2>2, <2>3 DEF RefusedInv
<1>3. ASSUME NEW u, PinExpire(u, Writing(u)), UNCHANGED cache PROVE RefusedInv'
  BY <1>1, <1>3, KeptRefused DEF PinExpire
<1>4. ASSUME NEW u \in Users, CacheExpire(u) PROVE RefusedInv'
  <2>1. /\ UNCHANGED <<primary, replica, wal>>
        /\ \A v \in Users : cache'[v] \in {cache[v], NoHash}
    BY <1>4 DEF CacheExpire, SetCache, repoVars, TypeInv, TypeOK
  <2>2. LogInv' /\ CacheCurrent'
    BY <2>1, LogKept DEF RefusedInv, CacheCurrent
  <2>3. ASSUME NEW r \in Requests PROVE WrongAt(pc[r], req[r])'
    <3>1. WrongAt(pc[r], req[r])
      BY DEF RefusedInv
    <3>2. pc[r] \in {"changePin", "changeWrite"} => req[r].user \in Users
      BY Holds DEF ChangePC
    <3> QED
      BY <1>1, <2>1, <3>1, <3>2 DEF WrongAt, Wrong, Lagging
  <2> QED
    BY <2>2, <2>3 DEF RefusedInv
<1> QED
  BY <1>2, <1>3, <1>4 DEF Backend

LEMMA InitRefusedInv == Init => RefusedInv
<1> SUFFICES ASSUME Init PROVE RefusedInv
  OBVIOUS
<1>1. replica = primary /\ wal = <<>>
  BY DEF Init, RepoInit
<1>2. \A u \in Users : cache[u] = NoHash
  BY DEF Init
<1>3. \A r \in Requests : pc[r] = "idle"
  BY DEF Init
<1>4. LogInv
  BY <1>1 DEF LogInv, ChangesPending, CurrentOrPending, LogLeadsToPrimary
<1> QED
  BY <1>2, <1>3, <1>4 DEF RefusedInv, CacheCurrent, WrongAt, AuthPC

\* One process of cmd/init and one request at a time, while Redis answers and
\* the marks outlive the lag: a password that has been replaced opens nothing.
\* A second request fills the cache with the hash it has read before the change.
THEOREM ReplacedRefused ==
  ASSUME TimelyReplication, "redis" \notin Environment,
         \A i, j \in Inits : i = j, \A r, s \in Requests : r = s
  PROVE  Spec => []ReplacedPasswordRefused
<1> DEFINE Inv == TypeInv /\ AccountInv /\ KeptInv /\ RefusedInv
<1>1. Init => Inv
  BY InitTypeInv, InitAccountInv, InitKeptInv, InitRefusedInv
<1>2. Inv /\ [Next]_vars => RefusedInv'
  <2> SUFFICES ASSUME Inv, [Next]_vars PROVE RefusedInv'
    OBVIOUS
  <2>1. CASE UNCHANGED vars
    BY <2>1, KeptRefused DEF vars, repoVars, reqVars
  <2>2. CASE Next
    BY <2>2, RequestRefused, ProvisionRefused, BackendRefused DEF Next
  <2> QED
    BY <2>1, <2>2
<1>3. Inv /\ [Next]_vars => Inv'
  BY <1>2, NextTypeInv, NextAccountInv, NextKeptInv
<1>4. Inv => ReplacedPasswordRefused
  BY DEF RefusedInv, WrongAt, ReplacedPasswordRefused
<1> HIDE DEF Inv
<1> QED
  BY <1>1, <1>3, <1>4, PTL DEF Spec
=============================================================================
