------------------------- MODULE UserProfileProofs -------------------------
(***************************************************************************)
(* Theorems about UserProfile, for every set of users, fields and request  *)
(* slots and any number of PATCH requests.                                 *)
(***************************************************************************)
EXTENDS UserProfile, RepositoryProofs

Rows == Row \cup {NoRow}

Req == [op    : {"none", "get", "me", "lookup", "auth", "patch", "delete", "create"},
        ctx   : Users \cup {NoUser},
        key   : Keys \cup {NoKey},
        mask  : Fields \cup {"none"},
        val   : [Fields -> Values],
        entry : Entry \cup {NoEntry},
        floor : Nat]

-----------------------------------------------------------------------------
\* The inductive invariants

FillPC   == {"getFill", "uidFillId", "uidFillUid"}
LookUpPC == {"getCache", "getRead", "uidCache", "uidRead"} \cup FillPC

\* What a request has in hand at each label.
InHandAt(label, q) ==
  /\ label \in PatchPC \cup DeletePC \cup CreatePC \cup {"authRead"} =>
       q.ctx \in Users
  /\ label \in LookUpPC \cup DeletePC \cup CreatePC => q.key \in Keys
  /\ label \in PatchPC => q.mask \in Fields
  /\ label = "patchAvatar" => "avatar" \in Fields
  /\ label \in FillPC => q.entry \in Entry
  /\ label \in LookUpPC => q.op # "auth"
  /\ label \in CreatePC => \E u \in Users : q.key = <<"id", u>>

InHand == \A r \in Requests : InHandAt(pc[r], req[r])

TypeInv == TypeOK /\ InHand

\* A row, wherever it is, is of a version that has been written.
RowsCommitted ==
  /\ \A u \in Users :
       /\ primary[u] # NoRow => primary[u].ver \in 1..latest[u]
       /\ replica[u] # NoRow => replica[u].ver \in 1..latest[u]
  /\ \A i \in DOMAIN wal :
       wal[i].row # NoRow => wal[i].row.ver \in 1..latest[wal[i].key]

\* What is about to be put into the cache is of such a version, and of the user
\* it has been asked for.
FillsCommitted ==
  \A r \in Requests :
    /\ pc[r] \in FillPC => req[r].entry.ver \in 1..latest[req[r].entry.user]
    /\ pc[r] = "uidFillUid" \/ pc[r] = "uidFillId" =>
         req[r].entry.user = req[r].key[2]

CacheInv == RowsCommitted /\ FillsCommitted /\ CacheHoldsCommitted

\* Requests that write, and the writes the replica lacks, are of pinned users.
WritersPinned ==
  /\ \A r \in Requests :
       pc[r] \in {"patchWrite", "deleteRow", "createInsert"} => req[r].ctx \in pinned
  /\ \A i \in DOMAIN wal : wal[i].by \in pinned

\* A user is created once.
CreatedOnce ==
  /\ \A r \in Requests :
       pc[r] \in {"createPin", "createInsert"} => latest[req[r].key[2]] = 0
  /\ \A r, s \in Requests :
       /\ r # s
       /\ pc[r] \in {"createPin", "createInsert"}
       /\ pc[s] \in {"createPin", "createInsert"}
       => req[r].key[2] # req[s].key[2]

\* Row is what u's last write left, unless the row has been deleted since.
IsLatest(u, row) ==
  /\ row.ver = latest[u]
  /\ primary[u] # NoRow => row = primary[u]

\* After position i of the log comes a write of u's row made for u.
Pending(u, i) == \E j \in DOMAIN wal : j > i /\ wal[j].key = u /\ wal[j].by = u

\* A row that is not the latest is followed by a write of the user's own.
OwnersPending ==
  /\ \A u \in Users :
       replica[u] # NoRow => IsLatest(u, replica[u]) \/ Pending(u, 0)
  /\ \A i \in DOMAIN wal :
       wal[i].row # NoRow => \/ IsLatest(wal[i].key, wal[i].row)
                             \/ Pending(wal[i].key, i)

PrimaryLatest ==
  \A u \in Users : primary[u] # NoRow => primary[u].ver = latest[u]

\* What a request relies on at each label: its floor is a version that has been
\* written; as long as nobody else has written the row since it arrived, what a
\* PATCH is about to write back is what is there; and its answer is no older
\* than its floor.
OwnRowAt(label, q) ==
  /\ label \in PatchPC \cup {"authRead"} => q.floor <= latest[q.ctx]
  /\ (/\ label \in PatchPC \ {"patchRead", "patchReadBack"}
      /\ primary[q.ctx] # NoRow
      /\ latest[q.ctx] = q.floor)
       => \A f \in Fields \ {q.mask, "avatar"} : q.val[f] = primary[q.ctx].val[f]
  /\ label = "patched" \/ (label = "answered" /\ q.op = "auth") => q.entry.ver >= q.floor

OwnRow == \A r \in Requests : OwnRowAt(pc[r], req[r])

PinInv ==
  /\ WritersPinned
  /\ CreatedOnce
  /\ PrimaryLatest
  /\ HasReplica => OwnersPending
  /\ OwnRow

\* One request at a time: the keys a PATCH has removed stay removed.
KeysRemoved ==
  \A r \in Requests :
    /\ pc[r] = "patchDelUid" => cache[<<"id", req[r].ctx>>] = NoEntry
    /\ pc[r] \in {"patchPin", "patchWrite", "patchReadBack", "patched"} =>
         /\ req[r].ctx \in Users
         /\ cache[<<"id", req[r].ctx>>] = NoEntry
         /\ cache[<<"uid", req[r].ctx>>] = NoEntry
-----------------------------------------------------------------------------
\* Lemmas about records

LEMMA TypeWellFormed ==
  ASSUME TypeOK
  PROVE  WellFormed(Users, Rows, Users)
  BY DEF TypeOK, WellFormed, Records, Rows

LEMMA NoReqType == NoReq \in Req
<1>1. [f \in Fields |-> 0] \in [Fields -> Values]
  BY UserProfileAssumption DEF Values
<1> QED
  BY <1>1 DEF NoReq, Req

LEMMA KeyOf ==
  ASSUME NEW k \in Keys
  PROVE  k[2] \in Users
  BY DEF Keys

LEMMA UserKeys ==
  ASSUME NEW u \in Users
  PROVE  /\ <<"id", u>> \in Keys /\ <<"uid", u>> \in Keys
         /\ <<"id", u>>[2] = u /\ <<"uid", u>>[2] = u
  BY DEF Keys

\* A profile read from a table is a cache entry.
LEMMA ProfileType ==
  ASSUME TypeOK, NEW u \in Users, NEW t, t = primary \/ t = replica, t[u] # NoRow
  PROVE  /\ t[u] \in Row /\ Profile(t, u) \in Entry
         /\ Profile(t, u).user = u /\ Profile(t, u).ver = t[u].ver
<1>1. t[u] \in Row
  BY DEF TypeOK
<1>2. t[u].ver \in Nat
  BY <1>1 DEF Row
<1> QED
  BY <1>1, <1>2 DEF Profile, Entry

\* Assignments to one field of a request.
LEMMA SetEntry ==
  ASSUME NEW q \in Req, NEW entry \in Entry
  PROVE  /\ [q EXCEPT !.entry = entry] \in Req
         /\ [q EXCEPT !.entry = entry].entry = entry
         /\ [q EXCEPT !.entry = entry].ctx = q.ctx
         /\ [q EXCEPT !.entry = entry].key = q.key
         /\ [q EXCEPT !.entry = entry].op = q.op
         /\ [q EXCEPT !.entry = entry].floor = q.floor
  BY DEF Req

LEMMA SetKey ==
  ASSUME NEW q \in Req, NEW key \in Keys
  PROVE  /\ [q EXCEPT !.key = key] \in Req
         /\ [q EXCEPT !.key = key].key = key
         /\ [q EXCEPT !.key = key].op = q.op
  BY DEF Req

LEMMA SetVal ==
  ASSUME NEW q \in Req, NEW val \in [Fields -> Values]
  PROVE  /\ [q EXCEPT !.val = val] \in Req
         /\ [q EXCEPT !.val = val].val = val
         /\ [q EXCEPT !.val = val].ctx = q.ctx
         /\ [q EXCEPT !.val = val].mask = q.mask
         /\ [q EXCEPT !.val = val].floor = q.floor
  BY DEF Req

LEMMA SetFloor ==
  ASSUME NEW q \in Req, NEW n \in Nat
  PROVE  /\ [q EXCEPT !.floor = n] \in Req
         /\ [q EXCEPT !.floor = n].floor = n
         /\ [q EXCEPT !.floor = n].ctx = q.ctx
         /\ [q EXCEPT !.floor = n].mask = q.mask
  BY DEF Req

\* What a request has in hand after a step of its own.
LEMMA BecomeEffect ==
  ASSUME TypeOK, NEW r \in Requests, NEW label \in PC, NEW q \in Req,
         Become(r, label, q)
  PROVE  /\ pc' \in [Requests -> PC] /\ req' \in [Requests -> Req]
         /\ pc'[r] = label /\ req'[r] = q
         /\ \A s \in Requests \ {r} : pc'[s] = pc[s] /\ req'[s] = req[s]
  BY DEF Become, Goto, TypeOK, Req

LEMMA GotoEffect ==
  ASSUME TypeOK, NEW r \in Requests, NEW label \in PC, Goto(r, label), UNCHANGED req
  PROVE  /\ pc' \in [Requests -> PC] /\ req' \in [Requests -> Req]
         /\ pc'[r] = label /\ req'[r] = req[r]
         /\ \A s \in Requests \ {r} : pc'[s] = pc[s] /\ req'[s] = req[s]
  BY DEF Goto, TypeOK, Req

\* A step of request r keeps the requests well formed.
Steps(r, label, q) ==
  /\ q \in Req /\ InHandAt(label, q)
  /\ pc' \in [Requests -> PC] /\ req' \in [Requests -> Req]
  /\ pc'[r] = label /\ req'[r] = q
  /\ \A s \in Requests \ {r} : pc'[s] = pc[s] /\ req'[s] = req[s]

LEMMA StepsInHand ==
  ASSUME InHand, NEW r \in Requests, NEW label, NEW q, Steps(r, label, q)
  PROVE  InHand'
  BY DEF InHand, Steps

\* The tables' types.
LEMMA TablesType ==
  ASSUME WellFormed(Users, Rows, Users)'
  PROVE  /\ primary' \in [Users -> Row \cup {NoRow}]
         /\ replica' \in [Users -> Row \cup {NoRow}]
         /\ wal' \in Seq([key : Users, row : Row \cup {NoRow}, by : Users])
  BY DEF WellFormed, Records, Rows
-----------------------------------------------------------------------------
\* What each step of a request does

ElseUnchanged == UNCHANGED <<repoVars, cache, patches, latest>>

LEMMA Arrives ==
  ASSUME TypeInv, NEW r \in Requests, NEW label \in PC, NEW q \in Req,
         InHandAt(label, q), Arrive(r, label, q)
  PROVE  Steps(r, label, q)
  BY BecomeEffect DEF TypeInv, Arrive, Steps

\* The inputs of a request for a profile, by id or by UID.
LEMMA GetInputs ==
  ASSUME NEW q \in Req, q.op # "auth", q.key \in Keys,
         NEW label \in {"getCache", "uidCache"}
  PROVE  InHandAt(label, q)
  BY DEF InHandAt, LookUpPC, FillPC, PatchPC, DeletePC, CreatePC

LEMMA GetArrives ==
  ASSUME TypeInv, NEW r \in Requests, GetUser(r) \/ GetMe(r) \/ LookUpUser(r)
  PROVE  /\ ElseUnchanged
         /\ \E label \in {"getCache", "uidCache"} : \E q : Steps(r, label, q)
<1>1. ASSUME NEW label \in {"getCache", "uidCache"}, NEW q \in Req, q.op # "auth",
             q.key \in Keys, Arrive(r, label, q)
      PROVE  Steps(r, label, q)
  <2>1. label \in PC
    BY DEF PC, ReadPC
  <2> QED
    BY <1>1, <2>1, GetInputs, Arrives
<1>2. CASE GetUser(r)
  <2>1. PICK ctx \in Users \cup {NoUser}, k \in Keys :
          /\ Arrive(r, "getCache", [NoReq EXCEPT !.op = "get", !.ctx = ctx, !.key = k])
          /\ ElseUnchanged
    BY <1>2 DEF GetUser, ElseUnchanged
  <2> DEFINE q == [NoReq EXCEPT !.op = "get", !.ctx = ctx, !.key = k]
  <2>2. q \in Req /\ q.op # "auth" /\ q.key \in Keys
    BY NoReqType DEF NoReq, Req
  <2> QED
    BY <1>1, <2>1, <2>2
<1>3. CASE GetMe(r)
  <2>1. PICK ctx \in Users :
          /\ Arrive(r, "uidCache",
                    [NoReq EXCEPT !.op = "me", !.ctx = ctx, !.key = <<"uid", ctx>>])
          /\ ElseUnchanged
    BY <1>3 DEF GetMe, ElseUnchanged
  <2> DEFINE q == [NoReq EXCEPT !.op = "me", !.ctx = ctx, !.key = <<"uid", ctx>>]
  <2>2. q \in Req /\ q.op # "auth" /\ q.key \in Keys
    BY NoReqType, UserKeys DEF NoReq, Req
  <2> QED
    BY <1>1, <2>1, <2>2
<1>4. CASE LookUpUser(r)
  <2>1. PICK u \in Users :
          /\ Arrive(r, "uidCache", [NoReq EXCEPT !.op = "lookup", !.key = <<"uid", u>>])
          /\ ElseUnchanged
    BY <1>4 DEF LookUpUser, ElseUnchanged
  <2> DEFINE q == [NoReq EXCEPT !.op = "lookup", !.key = <<"uid", u>>]
  <2>2. q \in Req /\ q.op # "auth" /\ q.key \in Keys
    BY NoReqType, UserKeys DEF NoReq, Req
  <2> QED
    BY <1>1, <2>1, <2>2
<1> QED
  BY <1>2, <1>3, <1>4

LEMMA AuthArrives ==
  ASSUME TypeInv, NEW r \in Requests, GetAuthenticatedUser(r)
  PROVE  /\ ElseUnchanged
         /\ \E q : Steps(r, "authRead", q) /\ q.floor = Version(primary, q.ctx)
<1>1. PICK ctx \in Users :
        /\ Arrive(r, "authRead", [NoReq EXCEPT !.op = "auth", !.ctx = ctx,
                                               !.floor = Version(primary, ctx)])
        /\ ElseUnchanged
  BY DEF GetAuthenticatedUser, ElseUnchanged
<1> DEFINE q == [NoReq EXCEPT !.op = "auth", !.ctx = ctx, !.floor = Version(primary, ctx)]
<1>2. Version(primary, ctx) \in Nat
  BY DEF Version, TypeInv, TypeOK, Row
<1>3. q \in Req /\ q.ctx = ctx /\ q.floor = Version(primary, ctx)
  BY <1>2, NoReqType DEF NoReq, Req
<1> HIDE DEF q
<1>4. Steps(r, "authRead", q)
  BY <1>1, <1>3, BecomeEffect
     DEF q, TypeInv, Arrive, Steps, InHandAt, LookUpPC, FillPC, PC, ReadPC, PatchPC,
         DeletePC, CreatePC
<1> QED
  BY <1>1, <1>3, <1>4

LEMMA PatchArrives ==
  ASSUME TypeInv, NEW r \in Requests, PatchUser(r)
  PROVE  /\ UNCHANGED <<repoVars, cache, latest>> /\ patches' \in 0..MaxPatches
         /\ \E q : Steps(r, "patchRead", q) /\ q.floor = Version(primary, q.ctx)
<1>1. PICK ctx \in Users, f \in Fields :
        /\ Arrive(r, "patchRead",
                  [NoReq EXCEPT !.op = "patch", !.ctx = ctx, !.mask = f,
                                !.val[f] = patches + 1,
                                !.floor = Version(primary, ctx)])
        /\ patches < MaxPatches /\ patches' = patches + 1
        /\ UNCHANGED <<repoVars, cache, latest>>
  BY DEF PatchUser
<1> DEFINE q == [NoReq EXCEPT !.op = "patch", !.ctx = ctx, !.mask = f,
                              !.val[f] = patches + 1,
                              !.floor = Version(primary, ctx)]
<1>2. Version(primary, ctx) \in Nat
  BY DEF Version, TypeInv, TypeOK, Row
<1>3. patches' \in 0..MaxPatches /\ patches + 1 \in Values
  BY <1>1, UserProfileAssumption DEF TypeInv, TypeOK, Values
<1>4. q \in Req /\ q.ctx = ctx /\ q.floor = Version(primary, ctx) /\ q.mask = f
  <2>1. [[g \in Fields |-> 0] EXCEPT ![f] = patches + 1] \in [Fields -> Values]
    BY <1>3, UserProfileAssumption DEF Values
  <2> QED
    BY <1>2, <2>1, NoReqType DEF NoReq, Req
<1> HIDE DEF q
<1>5. Steps(r, "patchRead", q)
  BY <1>1, <1>4, BecomeEffect
     DEF q, TypeInv, Arrive, Steps, InHandAt, LookUpPC, FillPC, PC, ReadPC, PatchPC,
         DeletePC, CreatePC
<1> QED
  BY <1>1, <1>3, <1>4, <1>5

LEMMA DeleteArrives ==
  ASSUME TypeInv, NEW r \in Requests, DeleteUser(r)
  PROVE  /\ ElseUnchanged
         /\ \E q : Steps(r, "deleteRead", q)
<1>1. PICK ctx \in Users, u \in Users :
        /\ Arrive(r, "deleteRead",
                  [NoReq EXCEPT !.op = "delete", !.ctx = ctx, !.key = <<"id", u>>])
        /\ ElseUnchanged
  BY DEF DeleteUser, ElseUnchanged
<1> DEFINE q == [NoReq EXCEPT !.op = "delete", !.ctx = ctx, !.key = <<"id", u>>]
<1>2. q \in Req /\ q.ctx = ctx /\ q.key = <<"id", u>>
  BY NoReqType, UserKeys DEF NoReq, Req
<1> HIDE DEF q
<1>3. InHandAt("deleteRead", q)
  BY <1>2, UserKeys DEF InHandAt, LookUpPC, FillPC, PatchPC, DeletePC, CreatePC
<1>4. "deleteRead" \in PC
  BY DEF PC, DeletePC
<1>5. Steps(r, "deleteRead", q)
  BY <1>1, <1>2, <1>3, <1>4, Arrives DEF q
<1> QED
  BY <1>1, <1>5

\* A user is created whom nobody has created, nor is creating.
LEMMA CreateArrives ==
  ASSUME TypeInv, NEW r \in Requests, CreateUser(r)
  PROVE  /\ ElseUnchanged
         /\ \E q : /\ Steps(r, "createPin", q)
                   /\ latest[q.key[2]] = 0
                   /\ \A s \in Requests : pc[s] \in CreatePC => req[s].key # q.key
<1>1. PICK ctx \in Users, u \in Users :
        /\ latest[u] = 0
        /\ \A s \in Requests : pc[s] \in CreatePC => req[s].key # <<"id", u>>
        /\ Arrive(r, "createPin",
                  [NoReq EXCEPT !.op = "create", !.ctx = ctx, !.key = <<"id", u>>])
        /\ ElseUnchanged
  BY DEF CreateUser, ElseUnchanged
<1> DEFINE q == [NoReq EXCEPT !.op = "create", !.ctx = ctx, !.key = <<"id", u>>]
<1>2. q \in Req /\ q.ctx = ctx /\ q.key = <<"id", u>>
  BY NoReqType, UserKeys DEF NoReq, Req
<1> HIDE DEF q
<1>3. InHandAt("createPin", q)
  BY <1>2, UserKeys DEF InHandAt, LookUpPC, FillPC, PatchPC, DeletePC, CreatePC
<1>4. "createPin" \in PC
  BY DEF PC, CreatePC
<1>5. Steps(r, "createPin", q)
  BY <1>1, <1>2, <1>3, <1>4, Arrives DEF q
<1> QED
  BY <1>1, <1>2, <1>5, UserKeys

LEMMA Becomes ==
  ASSUME TypeInv, NEW r \in Requests, NEW label \in PC, NEW q \in Req,
         InHandAt(label, q), Become(r, label, q)
  PROVE  Steps(r, label, q)
  BY BecomeEffect DEF TypeInv, Steps

LEMMA GoesTo ==
  ASSUME TypeInv, NEW r \in Requests, NEW label \in PC, InHandAt(label, req[r]),
         Goto(r, label), UNCHANGED req
  PROVE  Steps(r, label, req[r])
<1>1. req[r] \in Req
  BY DEF TypeInv, TypeOK, Req
<1> QED
  BY <1>1, GotoEffect DEF TypeInv, Steps

LEMMA ReqType ==
  ASSUME TypeInv, NEW r \in Requests
  PROVE  pc[r] \in PC /\ req[r] \in Req /\ InHandAt(pc[r], req[r])
  BY DEF TypeInv, TypeOK, Req, InHand

\* A request that ends has nothing in hand.
LEMMA DoneInHand ==
  ASSUME NEW label \in DonePC \cup {"idle"}, NEW q
  PROVE  label \in PC /\ InHandAt(label, q)
  BY DEF PC, DonePC, InHandAt, LookUpPC, FillPC, PatchPC, DeletePC, CreatePC

LEMMA LookUpInHand ==
  ASSUME NEW label \in LookUpPC, NEW q, q.key \in Keys, q.op # "auth",
         label \in FillPC => q.entry \in Entry
  PROVE  label \in PC /\ InHandAt(label, q)
  BY DEF PC, ReadPC, InHandAt, LookUpPC, FillPC, PatchPC, DeletePC, CreatePC

LEMMA PatchInHand ==
  ASSUME NEW label \in PatchPC, NEW q, q.ctx \in Users, q.mask \in Fields,
         label = "patchAvatar" => "avatar" \in Fields
  PROVE  label \in PC /\ InHandAt(label, q)
  BY DEF PC, InHandAt, LookUpPC, FillPC, PatchPC, DeletePC, CreatePC

LEMMA OtherInHand ==
  ASSUME NEW label \in DeletePC \cup CreatePC, NEW q, q.ctx \in Users, q.key \in Keys,
         label \in CreatePC => \E u \in Users : q.key = <<"id", u>>
  PROVE  label \in PC /\ InHandAt(label, q)
  BY DEF PC, InHandAt, LookUpPC, FillPC, PatchPC, DeletePC, CreatePC

\* The cache is asked.
LEMMA CacheAsked ==
  ASSUME TypeInv, NEW r \in Requests, GetCache(r) \/ UidCache(r)
  PROVE  /\ ElseUnchanged
         /\ \E label \in {"answered", "getCache", "getRead", "uidRead"} : \E q :
              Steps(r, label, q) /\ q.op # "auth"
<1>1. req[r] \in Req /\ req[r].key \in Keys /\ req[r].op # "auth"
  BY ReqType DEF GetCache, UidCache, InHandAt, LookUpPC
<1>2. ElseUnchanged
  BY DEF GetCache, UidCache, ElseUnchanged
<1>3. ASSUME Goto(r, "getRead") \/ Goto(r, "uidRead"), UNCHANGED req
      PROVE  \E label \in {"getRead", "uidRead"} : Steps(r, label, req[r])
  <2>1. PICK label \in {"getRead", "uidRead"} : Goto(r, label)
    BY <1>3
  <2>2. label \in LookUpPC /\ label \notin FillPC
    BY DEF LookUpPC, FillPC
  <2> QED
    BY <1>1, <1>3, <2>1, <2>2, LookUpInHand, GoesTo
<1>4. ASSUME cache[req[r].key] # NoEntry
      PROVE  cache[req[r].key] \in Entry /\ cache[req[r].key].user \in Users
  <2>1. cache[req[r].key] \in Entry
    BY <1>1, <1>4 DEF TypeInv, TypeOK
  <2> QED
    BY <2>1 DEF Entry
<1>5. ASSUME NEW entry \in Entry, Become(r, "answered", [req[r] EXCEPT !.entry = entry])
      PROVE  Steps(r, "answered", [req[r] EXCEPT !.entry = entry])
               /\ [req[r] EXCEPT !.entry = entry].op # "auth"
  <2>1. "answered" \in DonePC
    BY DEF DonePC
  <2> QED
    BY <1>1, <1>5, <2>1, SetEntry, DoneInHand, Becomes
<1>6. ASSUME NEW u \in Users, Become(r, "getCache", [req[r] EXCEPT !.key = <<"id", u>>])
      PROVE  Steps(r, "getCache", [req[r] EXCEPT !.key = <<"id", u>>])
               /\ [req[r] EXCEPT !.key = <<"id", u>>].op # "auth"
  <2>1. "getCache" \in LookUpPC /\ "getCache" \notin FillPC
    BY DEF LookUpPC, FillPC
  <2> QED
    BY <1>1, <1>6, <2>1, SetKey, UserKeys, LookUpInHand, Becomes
<1>7. CASE GetCache(r)
  <2>1. CASE Goto(r, "getRead") /\ UNCHANGED req
    BY <1>1, <1>2, <1>3, <2>1
  <2>2. CASE /\ cache[req[r].key] # NoEntry
             /\ Become(r, "answered", [req[r] EXCEPT !.entry = cache[req[r].key]])
    BY <1>2, <1>4, <1>5, <2>2
  <2> QED
    BY <1>7, <2>1, <2>2 DEF GetCache
<1>8. CASE UidCache(r)
  <2>1. CASE Goto(r, "uidRead") /\ UNCHANGED req
    BY <1>1, <1>2, <1>3, <2>1
  <2>2. CASE cache[req[r].key] # NoEntry /\ Resolved(r, cache[req[r].key])
    BY <1>2, <1>4, <1>5, <1>6, <2>2 DEF Resolved
  <2> QED
    BY <1>8, <2>1, <2>2 DEF UidCache
<1> QED
  BY <1>7, <1>8

\* The database is asked for the user of the key.
LEMMA ProfileRead ==
  ASSUME TypeInv, NEW r \in Requests, GetRead(r) \/ UidRead(r)
  PROVE  /\ ElseUnchanged
         /\ \/ Steps(r, "failed", req[r])
            \/ \E label \in {"getFill", "uidFillId"}, t \in Snapshots(req[r].ctx) : \E q :
                 /\ Steps(r, label, q)
                 /\ t[req[r].key[2]] # NoRow /\ req[r].key[2] \in Users
                 /\ q.entry = Profile(t, req[r].key[2])
                 /\ q.key = req[r].key
<1> DEFINE u == req[r].key[2]
<1>1. req[r] \in Req /\ req[r].key \in Keys /\ req[r].op # "auth" /\ u \in Users
  BY ReqType, KeyOf DEF GetRead, UidRead, InHandAt, LookUpPC
<1>2. ElseUnchanged
  BY DEF GetRead, UidRead, ElseUnchanged
<1>3. PICK t \in Snapshots(req[r].ctx) :
        \/ Goto(r, "failed") /\ UNCHANGED req
        \/ /\ t[u] # NoRow
           /\ \E label \in {"getFill", "uidFillId"} :
                Become(r, label, [req[r] EXCEPT !.entry = Profile(t, u)])
  BY DEF GetRead, UidRead
<1>4. CASE Goto(r, "failed") /\ UNCHANGED req
  <2>1. "failed" \in DonePC
    BY DEF DonePC
  <2> QED
    BY <1>2, <1>4, <2>1, DoneInHand, GoesTo
<1>5. ASSUME t[u] # NoRow, NEW label \in {"getFill", "uidFillId"},
             Become(r, label, [req[r] EXCEPT !.entry = Profile(t, u)])
      PROVE  \E q : /\ Steps(r, label, q)
                    /\ q.entry = Profile(t, u)
                    /\ q.key = req[r].key
  <2>1. Profile(t, u) \in Entry
    BY <1>1, <1>5, ReadsTables, ProfileType DEF TypeInv
  <2> DEFINE q == [req[r] EXCEPT !.entry = Profile(t, u)]
  <2>2. /\ q \in Req /\ q.entry = Profile(t, u) /\ q.key = req[r].key
        /\ q.op = req[r].op
    BY <1>1, <2>1, SetEntry
  <2> HIDE DEF q
  <2>3. label \in LookUpPC
    BY DEF LookUpPC, FillPC
  <2>4. Steps(r, label, q)
    BY <1>1, <1>5, <2>1, <2>2, <2>3, LookUpInHand, Becomes DEF q
  <2> QED
    BY <2>2, <2>4
<1> QED
  BY <1>1, <1>2, <1>3, <1>4, <1>5

\* A profile is put into the cache, or Redis fails.
LEMMA CacheFilled ==
  ASSUME TypeInv, NEW r \in Requests, GetFill(r) \/ UidFillId(r) \/ UidFillUid(r)
  PROVE  /\ UNCHANGED <<repoVars, patches, latest>>
         /\ req[r].entry \in Entry /\ req[r].entry.user \in Users /\ req[r].key \in Keys
         /\ pc[r] \in FillPC
         /\ \/ cache' = cache
            \/ cache' = [cache EXCEPT ![<<"id", req[r].entry.user>>] = req[r].entry]
            \/ /\ pc[r] = "uidFillUid"
               /\ cache' = [cache EXCEPT ![req[r].key] = req[r].entry]
         /\ \/ \E label \in {"answered", "getCache", "failed"} : \E q :
                 Steps(r, label, q) /\ (label = "failed" \/ q.op # "auth")
            \/ pc[r] = "uidFillId" /\ Steps(r, "uidFillUid", req[r])
<1>1. /\ req[r] \in Req /\ req[r].key \in Keys /\ req[r].op # "auth"
      /\ req[r].entry \in Entry
  BY ReqType DEF GetFill, UidFillId, UidFillUid, InHandAt, LookUpPC, FillPC
<1>2. req[r].entry.user \in Users
  BY <1>1 DEF Entry
<1>3. UNCHANGED <<repoVars, patches, latest>> /\ pc[r] \in FillPC
  BY DEF GetFill, UidFillId, UidFillUid, FillPC
<1>4. \/ cache' = cache
      \/ cache' = [cache EXCEPT ![<<"id", req[r].entry.user>>] = req[r].entry]
      \/ /\ pc[r] = "uidFillUid"
         /\ cache' = [cache EXCEPT ![req[r].key] = req[r].entry]
  BY DEF GetFill, UidFillId, UidFillUid, SetCache, RedisFailure
<1>5. ASSUME NEW label \in {"answered", "failed"}, Goto(r, label), UNCHANGED req
      PROVE  Steps(r, label, req[r])
  <2>1. label \in DonePC
    BY DEF DonePC
  <2> QED
    BY <1>5, <2>1, DoneInHand, GoesTo
<1>6. CASE GetFill(r)
  BY <1>1, <1>2, <1>3, <1>4, <1>5, <1>6 DEF GetFill, RedisFailure
<1>7. CASE UidFillId(r)
  <2>1. CASE Goto(r, "failed")
    BY <1>1, <1>2, <1>3, <1>4, <1>5, <1>7, <2>1 DEF UidFillId
  <2>2. CASE Goto(r, "uidFillUid")
    <3>1. "uidFillUid" \in LookUpPC
      BY DEF LookUpPC, FillPC
    <3>2. Steps(r, "uidFillUid", req[r])
      BY <1>1, <1>7, <2>2, <3>1, LookUpInHand, GoesTo DEF UidFillId
    <3>3. pc[r] = "uidFillId"
      BY <1>7 DEF UidFillId
    <3> QED
      BY <1>1, <1>2, <1>3, <1>4, <3>2, <3>3
  <2> QED
    BY <1>7, <2>1, <2>2 DEF UidFillId, RedisFailure
<1>8. CASE UidFillUid(r)
  <2>1. CASE Goto(r, "failed") /\ UNCHANGED req
    BY <1>1, <1>2, <1>3, <1>4, <1>5, <2>1
  <2>2. CASE Become(r, "answered", [req[r] EXCEPT !.entry = req[r].entry])
    <3>1. "answered" \in DonePC
      BY DEF DonePC
    <3>2. Steps(r, "answered", [req[r] EXCEPT !.entry = req[r].entry])
      BY <1>1, <2>2, <3>1, SetEntry, DoneInHand, Becomes
    <3>3. [req[r] EXCEPT !.entry = req[r].entry].op # "auth"
      BY <1>1, SetEntry
    <3> QED
      BY <1>1, <1>2, <1>3, <1>4, <3>2, <3>3
  <2>3. CASE Become(r, "getCache", [req[r] EXCEPT !.key = <<"id", req[r].entry.user>>])
    <3>1. "getCache" \in LookUpPC /\ "getCache" \notin FillPC
      BY DEF LookUpPC, FillPC
    <3>2. Steps(r, "getCache", [req[r] EXCEPT !.key = <<"id", req[r].entry.user>>])
      BY <1>1, <1>2, <2>3, <3>1, SetKey, UserKeys, LookUpInHand, Becomes
    <3>3. [req[r] EXCEPT !.key = <<"id", req[r].entry.user>>].op # "auth"
      BY <1>1, <1>2, SetKey, UserKeys
    <3> QED
      BY <1>1, <1>2, <1>3, <1>4, <3>2, <3>3
  <2> QED
    BY <1>8, <2>1, <2>2, <2>3 DEF UidFillUid, Resolved, RedisFailure
<1> QED
  BY <1>6, <1>7, <1>8

\* The context user's own row is read.
LEMMA OwnRowRead ==
  ASSUME TypeInv, NEW r \in Requests, AuthRead(r) \/ PatchReadBack(r) \/ CreateReadBack(r)
  PROVE  /\ ElseUnchanged /\ req[r].ctx \in Users
         /\ \/ Steps(r, "failed", req[r])
            \/ \E label \in {"answered", "patched", "created"},
                  t \in Snapshots(req[r].ctx) : \E q :
                 /\ Steps(r, label, q)
                 /\ t[req[r].ctx] # NoRow
                 /\ q.entry.ver = t[req[r].ctx].ver
                 /\ q.floor = req[r].floor /\ q.ctx = req[r].ctx
                 /\ label = "answered" => pc[r] = "authRead"
                 /\ label = "patched" => pc[r] = "patchReadBack"
<1> DEFINE u == req[r].ctx
<1>1. req[r] \in Req /\ u \in Users
  BY ReqType DEF AuthRead, PatchReadBack, CreateReadBack, InHandAt, PatchPC, CreatePC
<1>2. ElseUnchanged
  BY DEF AuthRead, PatchReadBack, CreateReadBack, ElseUnchanged
<1>3. PICK label \in {"answered", "patched", "created"} :
        /\ ReadOwnRow(r, label)
        /\ label = "answered" => pc[r] = "authRead"
        /\ label = "patched" => pc[r] = "patchReadBack"
  BY DEF AuthRead, PatchReadBack, CreateReadBack
<1>4. label \in DonePC /\ "failed" \in DonePC
  BY DEF DonePC
<1>5. PICK t \in Snapshots(u) :
        \/ Goto(r, "failed") /\ UNCHANGED req
        \/ t[u] # NoRow /\ Become(r, label, [req[r] EXCEPT !.entry = Profile(t, u)])
  BY <1>3 DEF ReadOwnRow
<1>6. CASE Goto(r, "failed") /\ UNCHANGED req
  BY <1>1, <1>2, <1>4, <1>6, DoneInHand, GoesTo
<1>7. CASE t[u] # NoRow /\ Become(r, label, [req[r] EXCEPT !.entry = Profile(t, u)])
  <2> DEFINE q == [req[r] EXCEPT !.entry = Profile(t, u)]
  <2>1. Profile(t, u) \in Entry /\ Profile(t, u).ver = t[u].ver
    BY <1>1, <1>7, ReadsTables, ProfileType DEF TypeInv
  <2>2. q \in Req /\ q.entry = Profile(t, u) /\ q.floor = req[r].floor /\ q.ctx = u
    BY <1>1, <2>1, SetEntry
  <2> HIDE DEF q
  <2>3. Steps(r, label, q)
    BY <1>4, <1>7, <2>2, DoneInHand, Becomes DEF q
  <2> QED
    BY <1>1, <1>2, <1>3, <1>7, <2>1, <2>2, <2>3
<1> QED
  BY <1>5, <1>6, <1>7

\* The row a PATCH builds on is read; the masked field is copied into it.
LEMMA PatchReads ==
  ASSUME TypeInv, NEW r \in Requests, PatchRead(r)
  PROVE  /\ ElseUnchanged /\ req[r].ctx \in Users
         /\ \/ Steps(r, "failed", req[r])
            \/ \E t \in Snapshots(req[r].ctx) : \E q :
                 /\ Steps(r, "patchExisting", q)
                 /\ t[req[r].ctx] # NoRow
                 /\ q.ctx = req[r].ctx /\ q.floor = req[r].floor /\ q.mask = req[r].mask
                 /\ \A f \in Fields \ {q.mask} : q.val[f] = t[q.ctx].val[f]
<1> DEFINE u == req[r].ctx
<1>1. req[r] \in Req /\ u \in Users /\ req[r].mask \in Fields /\ pc[r] = "patchRead"
  BY ReqType DEF PatchRead, InHandAt, PatchPC
<1>2. ElseUnchanged
  BY DEF PatchRead, ElseUnchanged
<1>3. PICK t \in Snapshots(u) :
        \/ Goto(r, "failed") /\ UNCHANGED req
        \/ /\ t[u] # NoRow
           /\ Become(r, "patchExisting", [req[r] EXCEPT !.val = Masked(r, t[u].val)])
  BY DEF PatchRead
<1>4. CASE Goto(r, "failed") /\ UNCHANGED req
  <2>1. "failed" \in DonePC
    BY DEF DonePC
  <2> QED
    BY <1>1, <1>2, <1>4, <2>1, DoneInHand, GoesTo
<1>5. CASE /\ t[u] # NoRow
           /\ Become(r, "patchExisting", [req[r] EXCEPT !.val = Masked(r, t[u].val)])
  <2> DEFINE val == Masked(r, t[u].val)
             q == [req[r] EXCEPT !.val = val]
  <2>1. t[u].val \in [Fields -> Values] /\ req[r].val \in [Fields -> Values]
    <3>1. t[u] \in Row
      BY <1>1, <1>5, ReadsTables, ProfileType DEF TypeInv
    <3> QED
      BY <1>1, <3>1 DEF Row, Req
  <2>2. /\ val \in [Fields -> Values]
        /\ \A f \in Fields \ {req[r].mask} : val[f] = t[u].val[f]
    BY <1>1, <2>1 DEF Masked
  <2> HIDE DEF val
  <2>3. /\ q \in Req /\ q.val = val /\ q.ctx = u /\ q.mask = req[r].mask
        /\ q.floor = req[r].floor
    BY <1>1, <2>2, SetVal
  <2> HIDE DEF q
  <2>4. "patchExisting" \in PatchPC
    BY DEF PatchPC
  <2>5. Steps(r, "patchExisting", q)
    BY <1>1, <1>5, <2>3, <2>4, PatchInHand, Becomes DEF q, val
  <2> QED
    BY <1>1, <1>2, <1>5, <2>2, <2>3, <2>5
<1> QED
  BY <1>3, <1>4, <1>5

\* The row is read again, and the avatar got over HTTP.
LEMMA PatchPrepares ==
  ASSUME TypeInv, NEW r \in Requests, PatchExisting(r) \/ PatchAvatar(r)
  PROVE  /\ ElseUnchanged /\ pc[r] \in {"patchExisting", "patchAvatar"}
         /\ \/ Steps(r, "failed", req[r])
            \/ \E label \in {"patchAvatar", "patchDelId"} : \E q :
                 /\ Steps(r, label, q)
                 /\ q.ctx = req[r].ctx /\ q.floor = req[r].floor /\ q.mask = req[r].mask
                 /\ \A f \in Fields \ {"avatar"} : q.val[f] = req[r].val[f]
<1>1. /\ req[r] \in Req /\ req[r].ctx \in Users /\ req[r].mask \in Fields
      /\ pc[r] \in {"patchExisting", "patchAvatar"}
      /\ pc[r] = "patchAvatar" => "avatar" \in Fields
  BY ReqType DEF PatchExisting, PatchAvatar, InHandAt, PatchPC
<1>2. ElseUnchanged
  BY DEF PatchExisting, PatchAvatar, ElseUnchanged
<1>3. "failed" \in DonePC /\ "patchAvatar" \in PatchPC /\ "patchDelId" \in PatchPC
  BY DEF DonePC, PatchPC
<1>4. CASE PatchExisting(r)
  <2>1. UNCHANGED req
    BY <1>4 DEF PatchExisting
  <2>2. \/ Goto(r, "failed")
        \/ Goto(r, "patchAvatar") /\ "avatar" \in Fields
        \/ Goto(r, "patchDelId")
    BY <1>4 DEF PatchExisting
  <2>3. CASE Goto(r, "failed")
    BY <1>1, <1>2, <1>3, <2>1, <2>3, DoneInHand, GoesTo
  <2>4. CASE Goto(r, "patchAvatar") /\ "avatar" \in Fields
    <3>1. Steps(r, "patchAvatar", req[r])
      BY <1>1, <1>3, <2>1, <2>4, PatchInHand, GoesTo
    <3> QED
      BY <1>1, <1>2, <3>1
  <2>5. CASE Goto(r, "patchDelId")
    <3>1. Steps(r, "patchDelId", req[r])
      BY <1>1, <1>3, <2>1, <2>5, PatchInHand, GoesTo
    <3> QED
      BY <1>1, <1>2, <3>1
  <2> QED
    BY <2>2, <2>3, <2>4, <2>5
<1>5. CASE PatchAvatar(r)
  <2>1. PICK avatar \in FetchedAvatars(req[r].ctx) :
          Become(r, "patchDelId", [req[r] EXCEPT !.val["avatar"] = avatar])
    BY <1>5 DEF PatchAvatar
  <2>2. "avatar" \in Fields
    BY <1>1, <1>5 DEF PatchAvatar
  <2>3. avatar \in Values
    <3>1. 0 \in Values /\ Blank \in Values
      BY UserProfileAssumption DEF Values
    <3>2. ASSUME NEW t \in Snapshots(NoUser), t[req[r].ctx] # NoRow
          PROVE  t[req[r].ctx].val["avatar"] \in Values
      <4>1. t[req[r].ctx] \in Row
        BY <1>1, <3>2, ReadsTables, ProfileType DEF TypeInv
      <4> QED
        BY <2>2, <4>1 DEF Row
    <3> QED
      BY <3>1, <3>2 DEF FetchedAvatars
  <2> DEFINE val == [req[r].val EXCEPT !["avatar"] = avatar]
             q == [req[r] EXCEPT !.val = val]
  <2>4. /\ val \in [Fields -> Values]
        /\ \A f \in Fields \ {"avatar"} : val[f] = req[r].val[f]
    BY <1>1, <2>2, <2>3 DEF Req
  <2>5. [req[r] EXCEPT !.val["avatar"] = avatar] = q
    BY <1>1 DEF Req
  <2> HIDE DEF val
  <2>6. /\ q \in Req /\ q.val = val /\ q.ctx = req[r].ctx /\ q.mask = req[r].mask
        /\ q.floor = req[r].floor
    BY <1>1, <2>4, SetVal
  <2> HIDE DEF q
  <2>7. Steps(r, "patchDelId", q)
    BY <1>1, <1>3, <2>1, <2>5, <2>6, PatchInHand, Becomes
  <2> QED
    BY <1>1, <1>2, <2>4, <2>6, <2>7
<1> QED
  BY <1>4, <1>5

\* A key is removed from the cache, or Redis fails.
LEMMA CacheRemoved ==
  ASSUME TypeInv, NEW r \in Requests,
         PatchDelId(r) \/ PatchDelUid(r) \/ DeleteDelId(r) \/ DeleteDelUid(r)
  PROVE  /\ UNCHANGED <<repoVars, patches, latest>>
         /\ cache' = cache \/ \E k \in Keys : cache' = [cache EXCEPT ![k] = NoEntry]
         /\ \/ Steps(r, "failed", req[r])
            \/ /\ pc[r] \in {"deleteDelId", "deleteDelUid"}
               /\ \E label \in {"deleteDelUid", "deletePin"} : Steps(r, label, req[r])
            \/ /\ pc[r] = "patchDelId" /\ Steps(r, "patchDelUid", req[r])
               /\ cache' = [cache EXCEPT ![<<"id", req[r].ctx>>] = NoEntry]
            \/ /\ pc[r] = "patchDelUid" /\ Steps(r, "patchPin", req[r])
               /\ cache' = [cache EXCEPT ![<<"uid", req[r].ctx>>] = NoEntry]
<1>1. req[r] \in Req /\ req[r].ctx \in Users
  BY ReqType
     DEF PatchDelId, PatchDelUid, DeleteDelId, DeleteDelUid, InHandAt, PatchPC, DeletePC
<1>2. UNCHANGED <<repoVars, patches, latest>> /\ UNCHANGED req
  BY DEF PatchDelId, PatchDelUid, DeleteDelId, DeleteDelUid
<1>3. ASSUME RedisFailure(r) PROVE cache' = cache /\ Steps(r, "failed", req[r])
  <2>1. "failed" \in DonePC
    BY DEF DonePC
  <2> QED
    BY <1>2, <1>3, <2>1, DoneInHand, GoesTo DEF RedisFailure
<1>4. ASSUME NEW label \in {"patchDelUid", "patchPin"}, Goto(r, label),
             pc[r] \in {"patchDelId", "patchDelUid"}
      PROVE  Steps(r, label, req[r])
  <2>1. label \in PatchPC /\ pc[r] \in PatchPC
    BY <1>4 DEF PatchPC
  <2>2. req[r].mask \in Fields
    BY <2>1, ReqType DEF InHandAt
  <2> QED
    BY <1>1, <1>2, <1>4, <2>1, <2>2, PatchInHand, GoesTo
<1>5. ASSUME NEW label \in {"deleteDelUid", "deletePin"}, Goto(r, label),
             pc[r] \in {"deleteDelId", "deleteDelUid"}
      PROVE  Steps(r, label, req[r]) /\ req[r].key \in Keys
  <2>1. label \in DeletePC /\ label \notin CreatePC /\ pc[r] \in DeletePC
    BY <1>5 DEF DeletePC, CreatePC
  <2>2. req[r].key \in Keys
    BY <2>1, ReqType DEF InHandAt
  <2> QED
    BY <1>1, <1>2, <1>5, <2>1, <2>2, OtherInHand, GoesTo
<1>6. CASE PatchDelId(r) \/ PatchDelUid(r)
  BY <1>1, <1>2, <1>3, <1>4, <1>6, UserKeys DEF PatchDelId, PatchDelUid, SetCache
<1>7. CASE DeleteDelId(r) \/ DeleteDelUid(r)
  BY <1>2, <1>3, <1>5, <1>7, KeyOf, UserKeys DEF DeleteDelId, DeleteDelUid, SetCache
<1> QED
  BY <1>6, <1>7

\* The user is pinned before the write.
LEMMA WriterPins ==
  ASSUME TypeInv, NEW r \in Requests, PatchPin(r) \/ DeletePin(r) \/ CreatePin(r)
  PROVE  /\ UNCHANGED <<primary, replica, wal, cache, patches, latest>>
         /\ req[r].ctx \in Users /\ PinUser(req[r].ctx)
         /\ \/ pc[r] = "patchPin" /\ Steps(r, "patchWrite", req[r])
            \/ pc[r] = "deletePin" /\ Steps(r, "deleteRow", req[r])
            \/ pc[r] = "createPin" /\ Steps(r, "createInsert", req[r])
<1>1. UNCHANGED <<primary, replica, wal, cache, req, patches, latest>>
  BY DEF PatchPin, DeletePin, CreatePin
<1>2. PinUser(req[r].ctx)
  BY DEF PatchPin, DeletePin, CreatePin
<1>3. CASE PatchPin(r)
  <2>1. /\ pc[r] = "patchPin" /\ Goto(r, "patchWrite")
        /\ pc[r] \in PatchPC /\ "patchWrite" \in PatchPC
    BY <1>3 DEF PatchPin, PatchPC
  <2>2. req[r].ctx \in Users /\ req[r].mask \in Fields
    BY <2>1, ReqType DEF InHandAt
  <2> QED
    BY <1>1, <1>2, <2>1, <2>2, PatchInHand, GoesTo
<1>4. CASE DeletePin(r)
  <2>1. /\ pc[r] = "deletePin" /\ Goto(r, "deleteRow")
        /\ pc[r] \in DeletePC /\ "deleteRow" \in DeletePC /\ "deleteRow" \notin CreatePC
    BY <1>4 DEF DeletePin, DeletePC, CreatePC
  <2>2. req[r].ctx \in Users /\ req[r].key \in Keys
    BY <2>1, ReqType DEF InHandAt
  <2> QED
    BY <1>1, <1>2, <2>1, <2>2, OtherInHand, GoesTo
<1>5. CASE CreatePin(r)
  <2>1. /\ pc[r] = "createPin" /\ Goto(r, "createInsert")
        /\ pc[r] \in CreatePC /\ "createInsert" \in CreatePC
    BY <1>5 DEF CreatePin, CreatePC
  <2>2. /\ req[r].ctx \in Users /\ req[r].key \in Keys
        /\ \E u \in Users : req[r].key = <<"id", u>>
    BY <2>1, ReqType DEF InHandAt
  <2> QED
    BY <1>1, <1>2, <2>1, <2>2, OtherInHand, GoesTo
<1> QED
  BY <1>3, <1>4, <1>5

LEMMA DeleteReads ==
  ASSUME TypeInv, NEW r \in Requests, DeleteRead(r)
  PROVE  /\ ElseUnchanged
         /\ \E label \in {"failed", "deleteDelId"} : Steps(r, label, req[r])
<1>1. /\ ElseUnchanged /\ UNCHANGED req
      /\ Goto(r, "failed") \/ Goto(r, "deleteDelId")
      /\ pc[r] \in DeletePC /\ "deleteDelId" \in DeletePC /\ "deleteDelId" \notin CreatePC
      /\ "failed" \in DonePC
  BY DEF DeleteRead, ElseUnchanged, DeletePC, CreatePC, DonePC
<1>2. req[r].ctx \in Users /\ req[r].key \in Keys
  BY <1>1, ReqType DEF InHandAt
<1>3. CASE Goto(r, "failed")
  BY <1>1, <1>3, DoneInHand, GoesTo
<1>4. CASE Goto(r, "deleteDelId")
  BY <1>1, <1>2, <1>4, OtherInHand, GoesTo
<1> QED
  BY <1>1, <1>3, <1>4

\* A request is over, or given up.
LEMMA Ends ==
  ASSUME TypeInv, NEW r \in Requests, Finish(r) \/ Abort(r)
  PROVE  ElseUnchanged /\ Steps(r, "idle", NoReq)
  BY NoReqType, DoneInHand, Becomes DEF Finish, Abort, ElseUnchanged

\* A write of a user's row: the version after the latest.
Writes(u, val, by) ==
  /\ \E row \in Row : /\ row.ver = latest[u] + 1 /\ row.val = val
                      /\ Commit(u, row, by)
  /\ latest' = [latest EXCEPT ![u] = @ + 1]
  /\ UNCHANGED <<pinned, cache, patches>>

LEMMA WriteEffect ==
  ASSUME TypeInv, NEW u \in Users, NEW val \in [Fields -> Values], NEW by,
         Write(u, val, by), UNCHANGED <<pinned, cache, patches>>
  PROVE  Writes(u, val, by)
<1> DEFINE row == [ver |-> latest[u] + 1, val |-> val]
<1>1. latest[u] + 1 \in Nat
  BY DEF TypeInv, TypeOK
<1>2. row \in Row /\ row.ver = latest[u] + 1 /\ row.val = val
  BY <1>1 DEF Row
<1>3. Commit(u, row, by) /\ latest' = [latest EXCEPT ![u] = @ + 1]
  BY DEF Write
<1> HIDE DEF row
<1> QED
  BY <1>2, <1>3 DEF Writes

LEMMA PatchWrites ==
  ASSUME TypeInv, NEW r \in Requests, PatchWrite(r)
  PROVE  /\ req[r].ctx \in Users /\ pc[r] = "patchWrite" /\ req[r].val \in [Fields -> Values]
         /\ \/ /\ ElseUnchanged /\ Steps(r, "patchReadBack", req[r])
               /\ primary[req[r].ctx] = NoRow
            \/ /\ Writes(req[r].ctx, req[r].val, req[r].ctx)
               /\ primary[req[r].ctx] # NoRow
               /\ \E q : /\ Steps(r, "patchReadBack", q)
                         /\ q.floor = latest[req[r].ctx] + 1
                         /\ q.ctx = req[r].ctx /\ q.mask = req[r].mask
<1> DEFINE u == req[r].ctx
           q == [req[r] EXCEPT !.floor = latest[u] + 1]
<1>1. /\ pc[r] = "patchWrite" /\ pc[r] \in PatchPC /\ "patchReadBack" \in PatchPC
      /\ UNCHANGED <<cache, patches>>
  BY DEF PatchWrite, PatchPC
<1>2. /\ req[r] \in Req /\ u \in Users /\ req[r].mask \in Fields
      /\ req[r].val \in [Fields -> Values]
  <2>1. req[r] \in Req /\ u \in Users /\ req[r].mask \in Fields
    BY <1>1, ReqType DEF InHandAt
  <2> QED
    BY <2>1 DEF Req
<1>3. CASE primary[u] = NoRow /\ Goto(r, "patchReadBack") /\ UNCHANGED <<repoVars, req, latest>>
  BY <1>1, <1>2, <1>3, PatchInHand, GoesTo DEF ElseUnchanged
<1>4. CASE /\ primary[u] # NoRow
           /\ Write(u, req[r].val, u)
           /\ Become(r, "patchReadBack", q)
           /\ UNCHANGED pinned
  <2>1. latest[u] + 1 \in Nat
    BY <1>2 DEF TypeInv, TypeOK
  <2>2. /\ q \in Req /\ q.floor = latest[u] + 1 /\ q.ctx = u /\ q.mask = req[r].mask
    BY <1>2, <2>1, SetFloor
  <2>3. Writes(u, req[r].val, u)
    BY <1>1, <1>2, <1>4, WriteEffect
  <2> HIDE DEF q
  <2>4. Steps(r, "patchReadBack", q)
    BY <1>1, <1>2, <1>4, <2>2, PatchInHand, Becomes
  <2> QED
    BY <1>1, <1>2, <1>4, <2>2, <2>3, <2>4
<1> QED
  BY <1>3, <1>4 DEF PatchWrite

LEMMA RowDeleted ==
  ASSUME TypeInv, NEW r \in Requests, DeleteRow(r)
  PROVE  /\ req[r].ctx \in Users /\ req[r].key[2] \in Users /\ pc[r] = "deleteRow"
         /\ UNCHANGED <<pinned, cache, patches, latest>>
         /\ \E label \in {"deleted", "failed"} : Steps(r, label, req[r])
         /\ \/ UNCHANGED repoVars
            \/ Commit(req[r].key[2], NoRow, req[r].ctx)
<1>1. /\ pc[r] = "deleteRow" /\ pc[r] \in DeletePC /\ UNCHANGED <<cache, req, patches, latest>>
      /\ Goto(r, "deleted") \/ Goto(r, "failed")
      /\ UNCHANGED repoVars
           \/ (Commit(req[r].key[2], NoRow, req[r].ctx) /\ UNCHANGED pinned)
  BY DEF DeleteRow, DeletePC
<1>2. req[r].ctx \in Users /\ req[r].key[2] \in Users
  <2>1. req[r].ctx \in Users /\ req[r].key \in Keys
    BY <1>1, ReqType DEF InHandAt
  <2> QED
    BY <2>1, KeyOf
<1>3. "deleted" \in DonePC /\ "failed" \in DonePC
  BY DEF DonePC
<1>4. \E label \in {"deleted", "failed"} : Steps(r, label, req[r])
  BY <1>1, <1>3, DoneInHand, GoesTo
<1> QED
  BY <1>1, <1>2, <1>4 DEF repoVars

LEMMA RowCreated ==
  ASSUME TypeInv, NEW r \in Requests, CreateInsert(r)
  PROVE  /\ req[r].ctx \in Users /\ req[r].key[2] \in Users /\ pc[r] = "createInsert"
         /\ \/ ElseUnchanged /\ Steps(r, "failed", req[r])
            \/ /\ Writes(req[r].key[2], [f \in Fields |-> 0], req[r].ctx)
               /\ Steps(r, "createReadBack", req[r])
<1>1. /\ pc[r] = "createInsert" /\ pc[r] \in CreatePC /\ "createReadBack" \in CreatePC
      /\ UNCHANGED <<cache, req, patches>> /\ "failed" \in DonePC
  BY DEF CreateInsert, CreatePC, DonePC
<1>2. /\ req[r].ctx \in Users /\ req[r].key \in Keys /\ req[r].key[2] \in Users
      /\ \E u \in Users : req[r].key = <<"id", u>>
  <2>1. /\ req[r].ctx \in Users /\ req[r].key \in Keys
        /\ \E u \in Users : req[r].key = <<"id", u>>
    BY <1>1, ReqType DEF InHandAt
  <2> QED
    BY <2>1, KeyOf
<1>3. CASE Goto(r, "failed") /\ UNCHANGED <<repoVars, latest>>
  BY <1>1, <1>2, <1>3, DoneInHand, GoesTo DEF ElseUnchanged
<1>4. CASE /\ Write(req[r].key[2], [f \in Fields |-> 0], req[r].ctx)
           /\ Goto(r, "createReadBack") /\ UNCHANGED pinned
  <2>1. [f \in Fields |-> 0] \in [Fields -> Values]
    BY UserProfileAssumption DEF Values
  <2>2. Writes(req[r].key[2], [f \in Fields |-> 0], req[r].ctx)
    BY <1>1, <1>2, <1>4, <2>1, WriteEffect
  <2>3. Steps(r, "createReadBack", req[r])
    BY <1>1, <1>2, <1>4, OtherInHand, GoesTo
  <2> QED
    BY <1>1, <1>2, <2>2, <2>3
<1> QED
  BY <1>3, <1>4 DEF CreateInsert

-----------------------------------------------------------------------------
\* Type correctness

LEMMA InitTypeInv == Init => TypeInv
<1> SUFFICES ASSUME Init PROVE TypeInv
  OBVIOUS
<1> DEFINE table == [u \in Users |-> IF u \in Registered
                                     THEN [ver |-> 1, val |-> [f \in Fields |-> 0]]
                                     ELSE NoRow]
<1>1. table \in [Users -> Row \cup {NoRow}]
  <2>1. [f \in Fields |-> 0] \in [Fields -> Values]
    BY UserProfileAssumption DEF Values
  <2>2. [ver |-> 1, val |-> [f \in Fields |-> 0]] \in Row
    BY <2>1 DEF Row
  <2> QED
    BY <2>2
<1>2. primary = table /\ replica = table /\ wal = <<>> /\ pinned = {}
  BY DEF Init, RepoInit
<1>3. wal \in Seq([key : Users, row : Row \cup {NoRow}, by : Users])
  BY <1>2
<1>4. /\ \A r \in Requests : pc[r] = "idle"
      /\ pc \in [Requests -> PC] /\ req \in [Requests -> Req]
  BY NoReqType DEF Init, PC
<1>5. /\ cache \in [Keys -> Entry \cup {NoEntry}] /\ patches \in 0..MaxPatches
      /\ latest \in [Users -> Nat]
  BY UserProfileAssumption DEF Init
<1>6. TypeOK
  BY <1>1, <1>2, <1>3, <1>4, <1>5 DEF TypeOK, Req
<1>7. InHand
  <2>1. "idle" \in DonePC \cup {"idle"}
    OBVIOUS
  <2> QED
    BY <1>4, <2>1, DoneInHand DEF InHand
<1> QED
  BY <1>6, <1>7 DEF TypeInv

\* A step of a request that leaves the tables, the cache and the counters with
\* their types.
LEMMA StepType ==
  ASSUME TypeInv, NEW r \in Requests, NEW label, NEW q, Steps(r, label, q),
         WellFormed(Users, Rows, Users)', pinned' \subseteq Users,
         cache' \in [Keys -> Entry \cup {NoEntry}],
         patches' \in 0..MaxPatches, latest' \in [Users -> Nat]
  PROVE  TypeInv'
<1>1. InHand'
  BY StepsInHand DEF TypeInv
<1>2. pc' \in [Requests -> PC] /\ req' \in [Requests -> Req]
  BY DEF Steps
<1> QED
  BY <1>1, <1>2, TablesType DEF TypeInv, TypeOK, Req

LEMMA QuietType ==
  ASSUME TypeInv, NEW r \in Requests, NEW label, NEW q, Steps(r, label, q), ElseUnchanged
  PROVE  TypeInv'
<1>1. WellFormed(Users, Rows, Users)'
  BY TypeWellFormed DEF TypeInv, WellFormed, ElseUnchanged, repoVars
<1> QED
  BY <1>1, StepType DEF TypeInv, TypeOK, ElseUnchanged, repoVars

LEMMA WriteType ==
  ASSUME TypeInv, NEW r \in Requests, NEW label, NEW q, Steps(r, label, q),
         NEW u \in Users, NEW val, NEW by \in Users, Writes(u, val, by)
  PROVE  TypeInv'
<1>1. WellFormed(Users, Rows, Users)'
  BY TypeWellFormed, CommitWellFormed DEF TypeInv, Writes, Rows
<1>2. latest' \in [Users -> Nat]
  BY DEF Writes, TypeInv, TypeOK
<1> QED
  BY <1>1, <1>2, StepType DEF TypeInv, TypeOK, Writes

LEMMA NextTypeInv ==
  ASSUME TypeInv, [Next]_vars
  PROVE  TypeInv'
<1>1. CASE UNCHANGED vars
  <2>1. UNCHANGED <<primary, replica, wal, pinned, cache, pc, req, patches, latest>>
    BY <1>1 DEF vars, repoVars, reqVars
  <2>2. TypeOK'
    BY <2>1 DEF TypeInv, TypeOK
  <2>3. InHand'
    BY <2>1 DEF TypeInv, InHand, InHandAt
  <2> QED
    BY <2>2, <2>3 DEF TypeInv
<1>2. ASSUME Replicate, UNCHANGED <<cache, reqVars, patches, latest>>
      PROVE  TypeInv'
  <2>1. WellFormed(Users, Rows, Users)' /\ pinned' = pinned
    BY <1>2, TypeWellFormed, ReplicateEffect DEF TypeInv
  <2>2. TypeOK'
    BY <1>2, <2>1, TablesType DEF TypeInv, TypeOK, reqVars
  <2>3. InHand'
    BY <1>2 DEF TypeInv, InHand, InHandAt, reqVars
  <2> QED
    BY <2>2, <2>3 DEF TypeInv
<1>3. ASSUME NEW u \in Users, PinExpire(u, Writing(u)),
             UNCHANGED <<cache, reqVars, patches, latest>>
      PROVE  TypeInv'
  <2>1. TypeOK'
    BY <1>3 DEF TypeInv, TypeOK, PinExpire, reqVars
  <2>2. InHand'
    BY <1>3 DEF TypeInv, InHand, InHandAt, reqVars
  <2> QED
    BY <2>1, <2>2 DEF TypeInv
<1>4. ASSUME NEW k \in Keys, CacheExpire(k)
      PROVE  TypeInv'
  <2>1. TypeOK'
    BY <1>4 DEF TypeInv, TypeOK, CacheExpire, SetCache, repoVars, reqVars
  <2>2. InHand'
    BY <1>4 DEF TypeInv, InHand, InHandAt, CacheExpire, reqVars
  <2> QED
    BY <2>1, <2>2 DEF TypeInv
<1>5. ASSUME NEW r \in Requests, GetUser(r) \/ GetMe(r) \/ LookUpUser(r)
      PROVE  TypeInv'
  BY <1>5, GetArrives, QuietType
<1>6. ASSUME NEW r \in Requests, GetAuthenticatedUser(r)
      PROVE  TypeInv'
  BY <1>6, AuthArrives, QuietType
<1>7. ASSUME NEW r \in Requests, PatchUser(r)
      PROVE  TypeInv'
  <2>1. PICK q : Steps(r, "patchRead", q)
    BY <1>7, PatchArrives
  <2>2. UNCHANGED <<repoVars, cache, latest>> /\ patches' \in 0..MaxPatches
    BY <1>7, PatchArrives
  <2>3. WellFormed(Users, Rows, Users)'
    BY <2>2, TypeWellFormed DEF TypeInv, WellFormed, repoVars
  <2> QED
    BY <2>1, <2>2, <2>3, StepType DEF TypeInv, TypeOK, repoVars
<1>8. ASSUME NEW r \in Requests, DeleteUser(r)
      PROVE  TypeInv'
  BY <1>8, DeleteArrives, QuietType
<1>9. ASSUME NEW r \in Requests, CreateUser(r)
      PROVE  TypeInv'
  BY <1>9, CreateArrives, QuietType
<1>10. ASSUME NEW r \in Requests, GetCache(r) \/ UidCache(r)
       PROVE  TypeInv'
  BY <1>10, CacheAsked, QuietType
<1>11. ASSUME NEW r \in Requests, GetRead(r) \/ UidRead(r)
       PROVE  TypeInv'
  BY <1>11, ProfileRead, QuietType
<1>12. ASSUME NEW r \in Requests, GetFill(r) \/ UidFillId(r) \/ UidFillUid(r)
       PROVE  TypeInv'
  <2>1. /\ UNCHANGED <<repoVars, patches, latest>>
        /\ req[r].entry \in Entry /\ req[r].entry.user \in Users /\ req[r].key \in Keys
        /\ \/ cache' = cache
           \/ cache' = [cache EXCEPT ![<<"id", req[r].entry.user>>] = req[r].entry]
           \/ cache' = [cache EXCEPT ![req[r].key] = req[r].entry]
    BY <1>12, CacheFilled
  <2>2. cache' \in [Keys -> Entry \cup {NoEntry}]
    BY <2>1, UserKeys DEF TypeInv, TypeOK
  <2>3. WellFormed(Users, Rows, Users)'
    BY <2>1, TypeWellFormed DEF TypeInv, WellFormed, repoVars
  <2>4. \E label, q : Steps(r, label, q)
    BY <1>12, CacheFilled
  <2> QED
    BY <2>1, <2>2, <2>3, <2>4, StepType DEF TypeInv, TypeOK, repoVars
<1>13. ASSUME NEW r \in Requests, AuthRead(r) \/ PatchReadBack(r) \/ CreateReadBack(r)
       PROVE  TypeInv'
  BY <1>13, OwnRowRead, QuietType
<1>14. ASSUME NEW r \in Requests, PatchRead(r)
       PROVE  TypeInv'
  BY <1>14, PatchReads, QuietType
<1>15. ASSUME NEW r \in Requests, PatchExisting(r) \/ PatchAvatar(r)
       PROVE  TypeInv'
  BY <1>15, PatchPrepares, QuietType
<1>16. ASSUME NEW r \in Requests,
              PatchDelId(r) \/ PatchDelUid(r) \/ DeleteDelId(r) \/ DeleteDelUid(r)
       PROVE  TypeInv'
  <2>1. /\ UNCHANGED <<repoVars, patches, latest>>
        /\ cache' = cache \/ \E k \in Keys : cache' = [cache EXCEPT ![k] = NoEntry]
    BY <1>16, CacheRemoved
  <2>2. cache' \in [Keys -> Entry \cup {NoEntry}]
    BY <2>1 DEF TypeInv, TypeOK
  <2>3. WellFormed(Users, Rows, Users)'
    BY <2>1, TypeWellFormed DEF TypeInv, WellFormed, repoVars
  <2>4. \E label, q : Steps(r, label, q)
    BY <1>16, CacheRemoved
  <2> QED
    BY <2>1, <2>2, <2>3, <2>4, StepType DEF TypeInv, TypeOK, repoVars
<1>17. ASSUME NEW r \in Requests, PatchPin(r) \/ DeletePin(r) \/ CreatePin(r)
       PROVE  TypeInv'
  <2>1. /\ UNCHANGED <<primary, replica, wal, cache, patches, latest>>
        /\ req[r].ctx \in Users /\ PinUser(req[r].ctx)
        /\ \E label, q : Steps(r, label, q)
    BY <1>17, WriterPins
  <2>2. pinned' \subseteq Users
    BY <2>1 DEF PinUser, TypeInv, TypeOK
  <2>3. WellFormed(Users, Rows, Users)'
    BY <2>1, TypeWellFormed DEF TypeInv, WellFormed
  <2> QED
    BY <2>1, <2>2, <2>3, StepType DEF TypeInv, TypeOK
<1>18. ASSUME NEW r \in Requests, PatchWrite(r)
       PROVE  TypeInv'
  BY <1>18, PatchWrites, QuietType, WriteType
<1>19. ASSUME NEW r \in Requests, DeleteRead(r)
       PROVE  TypeInv'
  BY <1>19, DeleteReads, QuietType
<1>20. ASSUME NEW r \in Requests, DeleteRow(r)
       PROVE  TypeInv'
  <2>1. /\ req[r].ctx \in Users /\ req[r].key[2] \in Users
        /\ UNCHANGED <<pinned, cache, patches, latest>>
        /\ \E label, q : Steps(r, label, q)
    BY <1>20, RowDeleted
  <2>2. CASE UNCHANGED repoVars
    BY <2>1, <2>2, QuietType DEF ElseUnchanged
  <2>3. CASE Commit(req[r].key[2], NoRow, req[r].ctx)
    <3>1. WellFormed(Users, Rows, Users)'
      BY <2>1, <2>3, TypeWellFormed, CommitWellFormed DEF TypeInv, Rows
    <3> QED
      BY <2>1, <3>1, StepType DEF TypeInv, TypeOK
  <2> QED
    BY <1>20, <2>2, <2>3, RowDeleted
<1>21. ASSUME NEW r \in Requests, CreateInsert(r)
       PROVE  TypeInv'
  BY <1>21, RowCreated, QuietType, WriteType
<1>22. ASSUME NEW r \in Requests, Finish(r) \/ Abort(r)
       PROVE  TypeInv'
  BY <1>22, Ends, QuietType
<1>23. CASE Backend
  BY <1>2, <1>3, <1>4, <1>23 DEF Backend
<1>24. ASSUME NEW r \in Requests, Proceed(r)
       PROVE  TypeInv'
  BY <1>10, <1>11, <1>12, <1>13, <1>14, <1>15, <1>16, <1>17, <1>18, <1>19, <1>20, <1>21,
     <1>22, <1>24 DEF Proceed
<1> QED
  BY <1>1, <1>5, <1>6, <1>7, <1>8, <1>9, <1>22, <1>23, <1>24 DEF Next

\* Every variable has its type.
THEOREM TypeCorrect == Spec => []TypeOK
<1>1. Spec => []TypeInv
  BY InitTypeInv, NextTypeInv, PTL DEF Spec
<1>2. TypeInv => TypeOK
  BY DEF TypeInv
<1> QED
  BY <1>1, <1>2, PTL
-----------------------------------------------------------------------------
\* What the cache holds, in every environment

LatestGrows == \A u \in Users : latest[u] <= latest'[u]

LEMMA RowsKept ==
  ASSUME RowsCommitted, UNCHANGED <<primary, replica, wal, latest>>
  PROVE  RowsCommitted' /\ (TypeInv => LatestGrows)
<1>1. RowsCommitted'
  BY DEF RowsCommitted
<1>2. TypeInv => LatestGrows
  BY DEF TypeInv, TypeOK, LatestGrows
<1> QED
  BY <1>1, <1>2

\* A committed row has a version that has been written.
LEMMA RowCommitted ==
  ASSUME TypeInv, TypeInv', RowsCommitted, LatestGrows,
         NEW k \in Users, NEW row \in Rows, NEW by \in Users, Commit(k, row, by),
         row # NoRow => row.ver \in 1..latest'[k]
  PROVE  RowsCommitted'
<1>1. WellFormed(Users, Rows, Users)
  BY TypeWellFormed DEF TypeInv
<1>2. /\ primary'[k] = row
      /\ \A j \in Users \ {k} : primary'[j] = primary[j]
      /\ replica' = replica
      /\ \A i \in DOMAIN wal' :
           \/ i \in DOMAIN wal /\ wal'[i] = wal[i]
           \/ wal'[i].key = k /\ wal'[i].row = row
  BY <1>1, CommitEffect
<1>3. ASSUME NEW u \in Users, NEW n, n \in 1..latest[u]
      PROVE  n \in 1..latest'[u]
  <2>1. latest[u] \in Nat /\ latest'[u] \in Nat /\ latest[u] <= latest'[u]
    BY DEF TypeInv, TypeOK, LatestGrows
  <2> QED
    BY <1>3, <2>1
<1>4. ASSUME NEW u \in Users
      PROVE  /\ primary'[u] # NoRow => primary'[u].ver \in 1..latest'[u]
             /\ replica'[u] # NoRow => replica'[u].ver \in 1..latest'[u]
  <2>1. CASE u = k
    BY <1>2, <1>3, <2>1 DEF RowsCommitted
  <2>2. CASE u # k
    BY <1>2, <1>3, <2>2 DEF RowsCommitted
  <2> QED
    BY <2>1, <2>2
<1>5. ASSUME NEW i \in DOMAIN wal', wal'[i].row # NoRow
      PROVE  wal'[i].row.ver \in 1..latest'[wal'[i].key]
  <2>1. CASE i \in DOMAIN wal /\ wal'[i] = wal[i]
    <3>1. wal[i].key \in Users
      BY <1>1, <2>1, LogRecords
    <3> QED
      BY <1>3, <1>5, <2>1, <3>1 DEF RowsCommitted
  <2>2. CASE wal'[i].key = k /\ wal'[i].row = row
    BY <1>5, <2>2
  <2> QED
    BY <1>2, <2>1, <2>2
<1> QED
  BY <1>4, <1>5 DEF RowsCommitted

LEMMA RowsReplicated ==
  ASSUME TypeInv, RowsCommitted, Replicate, UNCHANGED latest
  PROVE  RowsCommitted'
<1>1. WellFormed(Users, Rows, Users)
  BY TypeWellFormed DEF TypeInv
<1>2. /\ primary' = primary /\ 1 \in DOMAIN wal
      /\ wal[1].key \in Users
      /\ \A i \in DOMAIN wal' : i + 1 \in DOMAIN wal /\ wal'[i] = wal[i + 1]
      /\ replica'[wal[1].key] = wal[1].row
      /\ \A j \in Users \ {wal[1].key} : replica'[j] = replica[j]
  BY <1>1, ReplicateEffect
<1>3. ASSUME NEW u \in Users
      PROVE  /\ primary'[u] # NoRow => primary'[u].ver \in 1..latest'[u]
             /\ replica'[u] # NoRow => replica'[u].ver \in 1..latest'[u]
  <2>1. CASE u = wal[1].key
    BY <1>2, <2>1 DEF RowsCommitted
  <2>2. CASE u # wal[1].key
    BY <1>2, <2>2 DEF RowsCommitted
  <2> QED
    BY <2>1, <2>2
<1>4. ASSUME NEW i \in DOMAIN wal', wal'[i].row # NoRow
      PROVE  wal'[i].row.ver \in 1..latest'[wal'[i].key]
  BY <1>2, <1>4 DEF RowsCommitted
<1> QED
  BY <1>3, <1>4 DEF RowsCommitted

\* A write leaves a row of the version it has just counted.
LEMMA WriteRows ==
  ASSUME TypeInv, TypeInv', RowsCommitted,
         NEW u \in Users, NEW val, NEW by \in Users, Writes(u, val, by)
  PROVE  RowsCommitted' /\ LatestGrows
<1>1. /\ latest' = [latest EXCEPT ![u] = @ + 1]
      /\ latest \in [Users -> Nat]
  BY DEF Writes, TypeInv, TypeOK
<1>2. LatestGrows /\ latest[u] + 1 \in 1..latest'[u]
  BY <1>1 DEF LatestGrows
<1>3. PICK row \in Row : row.ver = latest[u] + 1 /\ Commit(u, row, by)
  BY DEF Writes
<1> QED
  BY <1>2, <1>3, RowCommitted DEF Rows

\* The version of a profile that is read is one that has been written.
LEMMA ReadCommitted ==
  ASSUME TypeInv, RowsCommitted, NEW u \in Users, NEW ctx, NEW t \in Snapshots(ctx),
         t[u] # NoRow
  PROVE  t[u].ver \in 1..latest[u] /\ Profile(t, u).ver = t[u].ver /\ Profile(t, u).user = u
<1>1. t = primary \/ t = replica
  BY ReadsTables
<1> QED
  BY <1>1, ProfileType DEF TypeInv, RowsCommitted

LEMMA StepFills ==
  ASSUME TypeInv, TypeInv', FillsCommitted, LatestGrows,
         NEW r \in Requests, NEW label, NEW q, Steps(r, label, q),
         label \in FillPC => q.entry.ver \in 1..latest'[q.entry.user],
         label \in {"uidFillId", "uidFillUid"} => q.entry.user = q.key[2]
  PROVE  FillsCommitted'
<1>1. ASSUME NEW s \in Requests
      PROVE  /\ pc'[s] \in FillPC => req'[s].entry.ver \in 1..latest'[req'[s].entry.user]
             /\ pc'[s] = "uidFillUid" \/ pc'[s] = "uidFillId" =>
                  req'[s].entry.user = req'[s].key[2]
  <2>1. CASE s = r
    BY <2>1 DEF Steps
  <2>2. CASE s # r
    <3>1. pc'[s] = pc[s] /\ req'[s] = req[s]
      BY <2>2 DEF Steps
    <3>2. ASSUME pc[s] \in FillPC
          PROVE  req[s].entry.ver \in 1..latest'[req[s].entry.user]
      <4>1. req[s].entry \in Entry
        BY <3>2, ReqType DEF InHandAt
      <4>2. req[s].entry.user \in Users
        BY <4>1 DEF Entry
      <4>3. /\ latest[req[s].entry.user] \in Nat /\ latest'[req[s].entry.user] \in Nat
            /\ latest[req[s].entry.user] <= latest'[req[s].entry.user]
        BY <4>2 DEF TypeInv, TypeOK, LatestGrows
      <4>4. req[s].entry.ver \in 1..latest[req[s].entry.user]
        BY <3>2 DEF FillsCommitted
      <4> QED
        BY <4>3, <4>4
    <3> QED
      BY <3>1, <3>2 DEF FillsCommitted
  <2> QED
    BY <2>1, <2>2
<1> QED
  BY <1>1 DEF FillsCommitted

LEMMA CacheKept ==
  ASSUME TypeInv, TypeInv', CacheHoldsCommitted, LatestGrows,
         \/ cache' = cache
         \/ \E k \in Keys : \E entry :
              /\ cache' = [cache EXCEPT ![k] = entry]
              /\ entry # NoEntry => entry.user = k[2] /\ entry.ver \in 1..latest[k[2]]
  PROVE  CacheHoldsCommitted'
<1>1. ASSUME NEW k \in Keys, cache'[k] # NoEntry
      PROVE  cache'[k].user = k[2] /\ cache'[k].ver \in 1..latest'[k[2]]
  <2>1. cache'[k].user = k[2] /\ cache'[k].ver \in 1..latest[k[2]]
    <3>1. CASE cache' = cache
      BY <1>1, <3>1 DEF CacheHoldsCommitted
    <3>2. ASSUME NEW j \in Keys, NEW entry, cache' = [cache EXCEPT ![j] = entry],
                 entry # NoEntry => entry.user = j[2] /\ entry.ver \in 1..latest[j[2]]
          PROVE  cache'[k].user = k[2] /\ cache'[k].ver \in 1..latest[k[2]]
      <4>1. cache'[k] = IF k = j THEN entry ELSE cache[k]
        BY <3>2 DEF TypeInv, TypeOK
      <4> QED
        BY <1>1, <3>2, <4>1 DEF CacheHoldsCommitted
    <3> QED
      BY <3>1, <3>2
  <2>2. k[2] \in Users
    BY KeyOf
  <2>3. latest[k[2]] \in Nat /\ latest'[k[2]] \in Nat /\ latest[k[2]] <= latest'[k[2]]
    BY <2>2 DEF TypeInv, TypeOK, LatestGrows
  <2> QED
    BY <2>1, <2>3
<1> QED
  BY <1>1 DEF CacheHoldsCommitted

LEMMA InitCacheInv == Init => CacheInv
<1> SUFFICES ASSUME Init PROVE CacheInv
  OBVIOUS
<1>1. TypeInv
  BY InitTypeInv
<1>2. /\ \A r \in Requests : pc[r] = "idle"
      /\ \A k \in Keys : cache[k] = NoEntry
      /\ wal = <<>> /\ replica = primary
      /\ \A u \in Users : primary[u] = IF u \in Registered
                                       THEN [ver |-> 1, val |-> [f \in Fields |-> 0]]
                                       ELSE NoRow
      /\ \A u \in Users : latest[u] = IF u \in Registered THEN 1 ELSE 0
  BY DEF Init, RepoInit
<1>3. RowsCommitted
  <2>1. ASSUME NEW u \in Users, primary[u] # NoRow
        PROVE  primary[u].ver \in 1..latest[u]
    BY <1>2, <2>1
  <2> QED
    BY <1>2, <2>1 DEF RowsCommitted
<1>4. FillsCommitted
  BY <1>2 DEF FillsCommitted, FillPC
<1>5. CacheHoldsCommitted
  BY <1>2 DEF CacheHoldsCommitted
<1> QED
  BY <1>3, <1>4, <1>5 DEF CacheInv

\* A step that changes no table and no cache entry, and does not come to a fill.
LEMMA QuietCache ==
  ASSUME TypeInv, TypeInv', CacheInv, ElseUnchanged,
         NEW r \in Requests, NEW label, NEW q, Steps(r, label, q), label \notin FillPC
  PROVE  CacheInv'
<1>1. UNCHANGED <<primary, replica, wal, latest, cache>>
  BY DEF ElseUnchanged, repoVars
<1>2. RowsCommitted' /\ LatestGrows
  BY <1>1, RowsKept DEF CacheInv
<1>3. FillsCommitted'
  BY <1>2, StepFills DEF CacheInv, FillPC
<1>4. CacheHoldsCommitted'
  BY <1>1, <1>2, CacheKept DEF CacheInv
<1> QED
  BY <1>2, <1>3, <1>4 DEF CacheInv

\* A write, by a step that does not come to a fill.
LEMMA WriteCache ==
  ASSUME TypeInv, TypeInv', CacheInv, UNCHANGED cache,
         NEW r \in Requests, NEW label, NEW q, Steps(r, label, q), label \notin FillPC,
         RowsCommitted', LatestGrows
  PROVE  CacheInv'
<1>1. FillsCommitted'
  BY StepFills DEF CacheInv, FillPC
<1>2. CacheHoldsCommitted'
  BY CacheKept DEF CacheInv
<1> QED
  BY <1>1, <1>2 DEF CacheInv

LEMMA NextCacheInv ==
  ASSUME TypeInv, TypeInv', CacheInv, [Next]_vars
  PROVE  CacheInv'
<1>1. CASE UNCHANGED vars
  BY <1>1 DEF vars, repoVars, reqVars, CacheInv, RowsCommitted, FillsCommitted,
              CacheHoldsCommitted
<1>2. ASSUME UNCHANGED <<reqVars, latest>>, RowsCommitted',
             cache' = cache \/ \E k \in Keys : cache' = [cache EXCEPT ![k] = NoEntry]
      PROVE  CacheInv'
  <2>1. LatestGrows
    BY <1>2 DEF TypeInv, TypeOK, LatestGrows
  <2>2. FillsCommitted'
    BY <1>2 DEF CacheInv, FillsCommitted, reqVars
  <2>3. CacheHoldsCommitted'
    BY <1>2, <2>1, CacheKept DEF CacheInv
  <2> QED
    BY <1>2, <2>2, <2>3 DEF CacheInv
<1>3. CASE Backend
  <2>1. ASSUME Replicate, UNCHANGED <<cache, reqVars, patches, latest>>
        PROVE  CacheInv'
    BY <1>2, <2>1, RowsReplicated DEF CacheInv
  <2>2. ASSUME NEW u \in Users, PinExpire(u, Writing(u)),
               UNCHANGED <<cache, reqVars, patches, latest>>
        PROVE  CacheInv'
    BY <1>2, <2>2, RowsKept DEF CacheInv, PinExpire
  <2>3. ASSUME NEW k \in Keys, CacheExpire(k)
        PROVE  CacheInv'
    BY <1>2, <2>3, RowsKept DEF CacheInv, CacheExpire, SetCache, repoVars
  <2> QED
    BY <1>3, <2>1, <2>2, <2>3 DEF Backend
<1>4. ASSUME NEW r \in Requests, GetUser(r) \/ GetMe(r) \/ LookUpUser(r)
      PROVE  CacheInv'
  BY <1>4, GetArrives, QuietCache DEF FillPC
<1>5. ASSUME NEW r \in Requests, GetAuthenticatedUser(r)
      PROVE  CacheInv'
  BY <1>5, AuthArrives, QuietCache DEF FillPC
<1>6. ASSUME NEW r \in Requests, PatchUser(r)
      PROVE  CacheInv'
  <2>1. PICK q : Steps(r, "patchRead", q)
    BY <1>6, PatchArrives
  <2>2. UNCHANGED <<primary, replica, wal, cache, latest>>
    BY <1>6, PatchArrives DEF repoVars
  <2>3. RowsCommitted' /\ LatestGrows
    BY <2>2, RowsKept DEF CacheInv
  <2> QED
    BY <2>1, <2>2, <2>3, WriteCache DEF FillPC
<1>7. ASSUME NEW r \in Requests, DeleteUser(r) \/ CreateUser(r)
      PROVE  CacheInv'
  BY <1>7, DeleteArrives, CreateArrives, QuietCache DEF FillPC
<1>8. ASSUME NEW r \in Requests, GetCache(r) \/ UidCache(r)
      PROVE  CacheInv'
  BY <1>8, CacheAsked, QuietCache DEF FillPC
<1>9. ASSUME NEW r \in Requests, GetRead(r) \/ UidRead(r)
      PROVE  CacheInv'
  <2>1. ElseUnchanged
    BY <1>9, ProfileRead
  <2>2. CASE Steps(r, "failed", req[r])
    BY <2>1, <2>2, QuietCache DEF FillPC
  <2>3. ASSUME NEW label \in {"getFill", "uidFillId"}, NEW t \in Snapshots(req[r].ctx), NEW q,
               Steps(r, label, q), t[req[r].key[2]] # NoRow, req[r].key[2] \in Users,
               q.entry = Profile(t, req[r].key[2]), q.key = req[r].key
        PROVE  CacheInv'
    <3>1. /\ q.entry.ver \in 1..latest[q.entry.user]
          /\ q.entry.user = q.key[2]
      BY <2>3, ReadCommitted DEF CacheInv
    <3>2. UNCHANGED <<primary, replica, wal, latest, cache>>
      BY <2>1 DEF ElseUnchanged, repoVars
    <3>3. RowsCommitted' /\ LatestGrows
      BY <3>2, RowsKept DEF CacheInv
    <3>4. q.entry.ver \in 1..latest'[q.entry.user]
      BY <3>1, <3>2
    <3>5. FillsCommitted'
      BY <2>3, <3>1, <3>3, <3>4, StepFills DEF CacheInv
    <3>6. CacheHoldsCommitted'
      BY <3>2, <3>3, CacheKept DEF CacheInv
    <3> QED
      BY <3>3, <3>5, <3>6 DEF CacheInv
  <2> QED
    BY <1>9, <2>2, <2>3, ProfileRead
<1>10. ASSUME NEW r \in Requests, GetFill(r) \/ UidFillId(r) \/ UidFillUid(r)
       PROVE  CacheInv'
  <2> DEFINE entry == req[r].entry
  <2>1. /\ UNCHANGED <<primary, replica, wal, latest>>
        /\ entry.user \in Users /\ req[r].key \in Keys /\ pc[r] \in FillPC
        /\ \/ cache' = cache
           \/ cache' = [cache EXCEPT ![<<"id", entry.user>>] = entry]
           \/ pc[r] = "uidFillUid" /\ cache' = [cache EXCEPT ![req[r].key] = entry]
    BY <1>10, CacheFilled DEF repoVars
  <2>2. RowsCommitted' /\ LatestGrows
    BY <2>1, RowsKept DEF CacheInv
  <2>3. /\ entry.ver \in 1..latest[entry.user]
        /\ pc[r] = "uidFillUid" \/ pc[r] = "uidFillId" => entry.user = req[r].key[2]
    BY <2>1 DEF CacheInv, FillsCommitted
  <2>4. CacheHoldsCommitted'
    <3>1. \/ cache' = cache
          \/ \E k \in Keys : \E e :
               /\ cache' = [cache EXCEPT ![k] = e]
               /\ e # NoEntry => e.user = k[2] /\ e.ver \in 1..latest[k[2]]
      BY <2>1, <2>3, UserKeys
    <3> QED
      BY <2>2, <3>1, CacheKept DEF CacheInv
  <2>5. CASE \E label \in {"answered", "getCache", "failed"} : \E q : Steps(r, label, q)
    <3>1. FillsCommitted'
      BY <2>2, <2>5, StepFills DEF CacheInv, FillPC
    <3> QED
      BY <2>2, <2>4, <3>1 DEF CacheInv
  <2>6. CASE pc[r] = "uidFillId" /\ Steps(r, "uidFillUid", req[r])
    <3>1. entry.ver \in 1..latest'[entry.user]
      BY <2>1, <2>3
    <3>2. FillsCommitted'
      BY <2>2, <2>3, <2>6, <3>1, StepFills DEF CacheInv
    <3> QED
      BY <2>2, <2>4, <3>2 DEF CacheInv
  <2> QED
    BY <1>10, <2>5, <2>6, CacheFilled
<1>11. ASSUME NEW r \in Requests, AuthRead(r) \/ PatchReadBack(r) \/ CreateReadBack(r)
       PROVE  CacheInv'
  BY <1>11, OwnRowRead, QuietCache DEF FillPC
<1>12. ASSUME NEW r \in Requests, PatchRead(r)
       PROVE  CacheInv'
  BY <1>12, PatchReads, QuietCache DEF FillPC
<1>13. ASSUME NEW r \in Requests, PatchExisting(r) \/ PatchAvatar(r)
       PROVE  CacheInv'
  BY <1>13, PatchPrepares, QuietCache DEF FillPC
<1>14. ASSUME NEW r \in Requests,
              PatchDelId(r) \/ PatchDelUid(r) \/ DeleteDelId(r) \/ DeleteDelUid(r)
       PROVE  CacheInv'
  <2>1. /\ UNCHANGED <<primary, replica, wal, latest>>
        /\ cache' = cache \/ \E k \in Keys : cache' = [cache EXCEPT ![k] = NoEntry]
    BY <1>14, CacheRemoved DEF repoVars
  <2>2. RowsCommitted' /\ LatestGrows
    BY <2>1, RowsKept DEF CacheInv
  <2>3. CacheHoldsCommitted'
    BY <2>1, <2>2, CacheKept DEF CacheInv
  <2>4. PICK label \in {"failed", "deleteDelUid", "deletePin", "patchDelUid", "patchPin"} :
          Steps(r, label, req[r])
    BY <1>14, CacheRemoved
  <2>5. FillsCommitted'
    BY <2>2, <2>4, StepFills DEF CacheInv, FillPC
  <2> QED
    BY <2>2, <2>3, <2>5 DEF CacheInv
<1>15. ASSUME NEW r \in Requests, PatchPin(r) \/ DeletePin(r) \/ CreatePin(r)
       PROVE  CacheInv'
  <2>1. /\ UNCHANGED <<primary, replica, wal, cache, latest>>
        /\ \E label \in {"patchWrite", "deleteRow", "createInsert"} : Steps(r, label, req[r])
    BY <1>15, WriterPins
  <2>2. RowsCommitted' /\ LatestGrows
    BY <2>1, RowsKept DEF CacheInv
  <2> QED
    BY <2>1, <2>2, WriteCache DEF FillPC
<1>16. ASSUME NEW r \in Requests, PatchWrite(r) \/ CreateInsert(r)
       PROVE  CacheInv'
  <2>1. \/ ElseUnchanged
        \/ \E u \in Users, by \in Users : \E val : Writes(u, val, by)
    BY <1>16, PatchWrites, RowCreated
  <2>2. PICK label \in {"patchReadBack", "failed", "createReadBack"} : \E q : Steps(r, label, q)
    BY <1>16, PatchWrites, RowCreated
  <2>3. CASE ElseUnchanged
    BY <2>2, <2>3, QuietCache DEF FillPC
  <2>4. ASSUME NEW u \in Users, NEW by \in Users, NEW val, Writes(u, val, by)
        PROVE  CacheInv'
    <3>1. RowsCommitted' /\ LatestGrows
      BY <2>4, WriteRows DEF CacheInv
    <3>2. UNCHANGED cache
      BY <2>4 DEF Writes
    <3> QED
      BY <2>2, <3>1, <3>2, WriteCache DEF FillPC
  <2> QED
    BY <2>1, <2>3, <2>4
<1>17. ASSUME NEW r \in Requests, DeleteRead(r)
       PROVE  CacheInv'
  BY <1>17, DeleteReads, QuietCache DEF FillPC
<1>18. ASSUME NEW r \in Requests, DeleteRow(r)
       PROVE  CacheInv'
  <2>1. /\ req[r].ctx \in Users /\ req[r].key[2] \in Users
        /\ UNCHANGED <<pinned, cache, patches, latest>>
        /\ \E label \in {"deleted", "failed"} : Steps(r, label, req[r])
    BY <1>18, RowDeleted
  <2>2. LatestGrows
    BY <2>1 DEF TypeInv, TypeOK, LatestGrows
  <2>3. RowsCommitted'
    <3>1. CASE UNCHANGED repoVars
      BY <2>1, <3>1, RowsKept DEF CacheInv, repoVars
    <3>2. CASE Commit(req[r].key[2], NoRow, req[r].ctx)
      BY <2>1, <2>2, <3>2, RowCommitted DEF CacheInv, Rows
    <3> QED
      BY <1>18, <3>1, <3>2, RowDeleted
  <2> QED
    BY <2>1, <2>2, <2>3, WriteCache DEF FillPC
<1>19. ASSUME NEW r \in Requests, Finish(r) \/ Abort(r)
       PROVE  CacheInv'
  BY <1>19, Ends, QuietCache DEF FillPC
<1>20. ASSUME NEW r \in Requests, Proceed(r)
       PROVE  CacheInv'
  BY <1>8, <1>9, <1>10, <1>11, <1>12, <1>13, <1>14, <1>15, <1>16, <1>17, <1>18, <1>19,
     <1>20 DEF Proceed
<1> QED
  BY <1>1, <1>3, <1>4, <1>5, <1>6, <1>7, <1>19, <1>20 DEF Next

\* A cache entry is of the user its key names, and of a version of that user's
\* row that has been committed, whatever Redis, the replica and the callers do:
\* setUserToCacheWithUID is given the profile and the UID separately, and the
\* row may have changed, or gone, since the profile was read.
THEOREM CommittedCached == Spec => []CacheHoldsCommitted
<1>1. Init => TypeInv /\ CacheInv
  BY InitTypeInv, InitCacheInv
<1>2. TypeInv /\ CacheInv /\ [Next]_vars => (TypeInv /\ CacheInv)'
  BY NextTypeInv, NextCacheInv
<1>3. TypeInv /\ CacheInv => CacheHoldsCommitted
  BY DEF CacheInv
<1> QED
  BY <1>1, <1>2, <1>3, PTL DEF Spec
-----------------------------------------------------------------------------
\* What a user reads of their own row, when the replica keeps up within
\* ReplicationTimeFrame and Redis answers

WriterPC == {"patchWrite", "deleteRow", "createInsert"}

\* A read made for u, of u's row, finds the row as its last write left it.
LEMMA OwnRead ==
  ASSUME "redis" \notin Environment, TypeInv, PinInv, NEW u \in Users,
         NEW t \in Snapshots(u), t[u] # NoRow
  PROVE  IsLatest(u, t[u])
<1>1. CASE t = primary
  BY <1>1 DEF PinInv, PrimaryLatest, IsLatest
<1>2. CASE HasReplica /\ u \notin pinned /\ t = replica
  <2>1. IsLatest(u, replica[u]) \/ Pending(u, 0)
    BY <1>2 DEF PinInv, OwnersPending
  <2>2. ~Pending(u, 0)
    BY <1>2 DEF PinInv, WritersPinned, Pending
  <2> QED
    BY <1>2, <2>1, <2>2
<1> QED
  BY <1>1, <1>2, ReadsPinned

\* What a step may do to a row and its count.
TableStep ==
  \A u \in Users :
    \/ primary'[u] = primary[u] /\ latest'[u] = latest[u]
    \/ latest'[u] = latest[u] + 1
    \/ primary'[u] = NoRow /\ latest'[u] = latest[u]

\* The other requests keep what they rely on.
LEMMA StepOwnRow ==
  ASSUME TypeInv, TypeInv', OwnRow, TableStep, NEW r \in Requests, NEW label, NEW q,
         Steps(r, label, q), OwnRowAt(pc[r], req[r])'
  PROVE  OwnRow'
<1>1. ASSUME NEW s \in Requests
      PROVE  OwnRowAt(pc[s], req[s])'
  <2>1. CASE s = r
    BY <2>1
  <2>2. CASE s # r
    <3>1. pc'[s] = pc[s] /\ req'[s] = req[s]
      BY <2>2 DEF Steps
    <3>2. OwnRowAt(pc[s], req[s])
      BY DEF OwnRow
    <3>3. CASE pc[s] \in PatchPC \cup {"authRead"}
      <4>1. req[s].ctx \in Users /\ req[s].floor \in Nat
        BY <3>3, ReqType DEF InHandAt, Req
      <4>2. /\ latest[req[s].ctx] \in Nat
            /\ \/ /\ primary'[req[s].ctx] = primary[req[s].ctx]
                  /\ latest'[req[s].ctx] = latest[req[s].ctx]
               \/ latest'[req[s].ctx] = latest[req[s].ctx] + 1
               \/ primary'[req[s].ctx] = NoRow /\ latest'[req[s].ctx] = latest[req[s].ctx]
        BY <4>1 DEF TableStep, TypeInv, TypeOK
      <4>3. pc[s] # "patched" /\ pc[s] # "answered"
        BY <3>3 DEF PatchPC
      <4> QED
        BY <3>1, <3>2, <4>1, <4>2, <4>3 DEF OwnRowAt
    <3>4. CASE pc[s] \notin PatchPC \cup {"authRead"}
      BY <3>1, <3>2, <3>4 DEF OwnRowAt
    <3> QED
      BY <3>3, <3>4
  <2> QED
    BY <2>1, <2>2
<1> QED
  BY <1>1 DEF OwnRow

\* A request that does not read or write its own row relies on nothing.
LEMMA NoOwnRow ==
  ASSUME NEW r \in Requests, NEW label, NEW q, Steps(r, label, q),
         label \notin PatchPC \cup {"authRead", "patched"},
         label = "answered" => q.op # "auth"
  PROVE  OwnRowAt(pc[r], req[r])'
  BY DEF Steps, OwnRowAt

\* A PATCH carries on with the fields it has read.
LEMMA CarryOwnRow ==
  ASSUME PinInv, UNCHANGED <<primary, latest>>,
         NEW r \in Requests, NEW label \in PatchPC, NEW q, Steps(r, label, q),
         pc[r] \in PatchPC \ {"patchRead", "patchReadBack"},
         q.ctx = req[r].ctx, q.floor = req[r].floor, q.mask = req[r].mask,
         \A f \in Fields \ {"avatar"} : q.val[f] = req[r].val[f]
  PROVE  OwnRowAt(pc[r], req[r])'
<1>1. OwnRowAt(pc[r], req[r])
  BY DEF PinInv, OwnRow
<1>2. label # "patched" /\ label # "answered"
  BY DEF PatchPC
<1> QED
  BY <1>1, <1>2 DEF Steps, OwnRowAt

LEMMA InitPinInv == Init => PinInv
<1> SUFFICES ASSUME Init PROVE PinInv
  OBVIOUS
<1>1. /\ \A r \in Requests : pc[r] = "idle"
      /\ wal = <<>> /\ replica = primary
      /\ \A u \in Users : primary[u] = IF u \in Registered
                                       THEN [ver |-> 1, val |-> [f \in Fields |-> 0]]
                                       ELSE NoRow
      /\ \A u \in Users : latest[u] = IF u \in Registered THEN 1 ELSE 0
  BY DEF Init, RepoInit
<1>2. WritersPinned /\ CreatedOnce
  BY <1>1 DEF WritersPinned, CreatedOnce
<1>3. PrimaryLatest
  <2> SUFFICES ASSUME NEW u \in Users, primary[u] # NoRow PROVE primary[u].ver = latest[u]
    BY DEF PrimaryLatest
  <2> QED
    BY <1>1
<1>4. OwnersPending
  BY <1>1, <1>3 DEF OwnersPending, PrimaryLatest, IsLatest
<1>5. OwnRow
  BY <1>1 DEF OwnRow, OwnRowAt, PatchPC
<1> QED
  BY <1>2, <1>3, <1>4, <1>5 DEF PinInv

\* A step that leaves the tables, the log, the marks and the counts alone, and
\* does not come to a write or to the start of a creation.
LEMMA QuietPin ==
  ASSUME TypeInv, TypeInv', PinInv, UNCHANGED <<primary, replica, wal, pinned, latest>>,
         NEW r \in Requests, NEW label, NEW q, Steps(r, label, q),
         label \notin WriterPC \cup {"createPin"}, OwnRowAt(pc[r], req[r])'
  PROVE  PinInv'
<1>1. /\ pc'[r] = label
      /\ \A s \in Requests \ {r} : pc'[s] = pc[s] /\ req'[s] = req[s]
  BY DEF Steps
<1>2. WritersPinned'
  BY <1>1 DEF PinInv, WritersPinned, WriterPC
<1>3. CreatedOnce'
  BY <1>1 DEF PinInv, CreatedOnce, WriterPC
<1>4. PrimaryLatest' /\ (HasReplica => OwnersPending')
  BY DEF PinInv, PrimaryLatest, OwnersPending, IsLatest, Pending
<1>5. OwnRow'
  <2>1. TableStep
    BY DEF TableStep
  <2> QED
    BY <2>1, StepOwnRow DEF PinInv
<1> QED
  BY <1>2, <1>3, <1>4, <1>5 DEF PinInv

\* A write at the end of the log leaves the log's rows followed by a write of
\* their user's own, or the latest.
LEMMA CommitPending ==
  ASSUME HasReplica, TypeInv, CacheInv, PinInv,
         NEW k \in Users, NEW row \in Rows, NEW by \in Users, Commit(k, row, by),
         row # NoRow => row.ver = latest'[k],
         \A u \in Users \ {k} : latest'[u] = latest[u],
         by = k \/ latest[k] = 0 \/ (row = NoRow /\ latest'[k] = latest[k])
  PROVE  OwnersPending'
<1>1. WellFormed(Users, Rows, Users)
  BY TypeWellFormed DEF TypeInv
<1>2. /\ primary'[k] = row
      /\ \A j \in Users \ {k} : primary'[j] = primary[j]
      /\ replica' = replica
  BY <1>1, CommitEffect
<1>3. /\ DOMAIN wal' = 1..(Len(wal) + 1)
      /\ \A i \in DOMAIN wal : wal'[i] = wal[i]
      /\ wal'[Len(wal) + 1].key = k /\ wal'[Len(wal) + 1].row = row
      /\ wal'[Len(wal) + 1].by = by
  BY <1>1, CommitEffect
<1>4. Len(wal) \in Nat /\ DOMAIN wal = 1..Len(wal) /\ Len(wal) + 1 \in DOMAIN wal'
  BY <1>1, <1>3, LogRecords
<1>5. ASSUME NEW u \in Users, NEW i \in 0..Len(wal), Pending(u, i)
      PROVE  Pending(u, i)'
  BY <1>3, <1>4, <1>5 DEF Pending
<1>6. ASSUME NEW u \in Users, NEW old, NEW i \in 0..Len(wal), old.ver \in 1..latest[u],
             IsLatest(u, old) \/ Pending(u, i)
      PROVE  IsLatest(u, old)' \/ Pending(u, i)'
  <2>1. CASE Pending(u, i)
    BY <1>5, <2>1
  <2>2. CASE u # k /\ IsLatest(u, old)
    BY <1>2, <2>2 DEF IsLatest
  <2>3. CASE u = k /\ IsLatest(u, old)
    <3>1. latest[k] # 0
      BY <1>6, <2>3 DEF TypeInv, TypeOK
    <3>2. CASE by = k
      BY <1>3, <1>4, <2>3, <3>2 DEF Pending
    <3>3. CASE row = NoRow /\ latest'[k] = latest[k]
      BY <1>2, <2>3, <3>3 DEF IsLatest
    <3> QED
      BY <3>1, <3>2, <3>3
  <2> QED
    BY <1>6, <2>1, <2>2, <2>3
<1>7. ASSUME NEW u \in Users, replica'[u] # NoRow
      PROVE  IsLatest(u, replica[u])' \/ Pending(u, 0)'
  <2>1. replica[u] # NoRow /\ replica[u].ver \in 1..latest[u]
    BY <1>2, <1>7 DEF CacheInv, RowsCommitted
  <2>2. (IsLatest(u, replica[u]) \/ Pending(u, 0)) /\ 0 \in 0..Len(wal)
    BY <1>4, <2>1 DEF PinInv, OwnersPending
  <2>3. ASSUME NEW old, old = replica[u]
        PROVE  IsLatest(u, replica[u])' \/ Pending(u, 0)'
    <3>1. IsLatest(u, old)' \/ Pending(u, 0)'
      BY <1>6, <2>1, <2>2, <2>3
    <3> QED
      BY <1>2, <2>3, <3>1 DEF IsLatest
  <2> QED
    BY <2>3
<1>8. ASSUME NEW i \in DOMAIN wal', wal'[i].row # NoRow
      PROVE  IsLatest(wal[i].key, wal[i].row)' \/ Pending(wal[i].key, i)'
  <2>1. CASE i = Len(wal) + 1
    BY <1>2, <1>3, <1>8, <2>1 DEF IsLatest
  <2>2. CASE i # Len(wal) + 1
    <3>1. i \in DOMAIN wal /\ wal'[i] = wal[i] /\ i \in 0..Len(wal)
      BY <1>3, <1>4, <2>2
    <3>2. wal[i].row # NoRow /\ wal[i].key \in Users /\ wal[i].row.ver \in 1..latest[wal[i].key]
      BY <1>1, <1>8, <3>1, LogRecords DEF CacheInv, RowsCommitted
    <3>3. IsLatest(wal[i].key, wal[i].row) \/ Pending(wal[i].key, i)
      BY <3>1, <3>2 DEF PinInv, OwnersPending
    <3>4. ASSUME NEW u, NEW old, u = wal[i].key, old = wal[i].row
          PROVE  IsLatest(wal[i].key, wal[i].row)' \/ Pending(wal[i].key, i)'
      <4>1. IsLatest(u, old)' \/ Pending(u, i)'
        BY <1>6, <3>1, <3>2, <3>3, <3>4
      <4> QED
        BY <3>1, <3>4, <4>1 DEF IsLatest, Pending
    <3> QED
      BY <3>4
  <2> QED
    BY <2>1, <2>2
<1> QED
  BY <1>7, <1>8 DEF OwnersPending

\* A write made for a pinned user.
LEMMA CommitPin ==
  ASSUME TypeInv, TypeInv', CacheInv, PinInv, UNCHANGED pinned,
         NEW k \in Users, NEW row \in Rows, NEW by \in Users, Commit(k, row, by),
         by \in pinned,
         row # NoRow => row.ver = latest'[k],
         \A u \in Users \ {k} : latest'[u] = latest[u],
         latest'[k] = latest[k] + 1 \/ (row = NoRow /\ latest'[k] = latest[k]),
         by = k \/ latest[k] = 0 \/ (row = NoRow /\ latest'[k] = latest[k]),
         NEW r \in Requests, NEW label, NEW q, Steps(r, label, q),
         label \notin WriterPC \cup {"createPin"}, OwnRowAt(pc[r], req[r])',
         \A s \in Requests \ {r} :
           pc[s] \in {"createPin", "createInsert"} =>
             req[s].key[2] # k \/ latest'[k] = latest[k]
  PROVE  PinInv'
<1>1. WellFormed(Users, Rows, Users)
  BY TypeWellFormed DEF TypeInv
<1>2. /\ primary'[k] = row
      /\ \A j \in Users \ {k} : primary'[j] = primary[j]
      /\ \A i \in DOMAIN wal' :
           \/ i \in DOMAIN wal /\ wal'[i] = wal[i]
           \/ wal'[i].by = by
  BY <1>1, CommitEffect
<1>3. /\ pc'[r] = label
      /\ \A s \in Requests \ {r} : pc'[s] = pc[s] /\ req'[s] = req[s]
  BY DEF Steps
<1>4. WritersPinned'
  <2>1. \A s \in Requests : pc'[s] \in WriterPC => req'[s].ctx \in pinned
    BY <1>3 DEF PinInv, WritersPinned, WriterPC
  <2>2. \A i \in DOMAIN wal' : wal'[i].by \in pinned
    BY <1>2 DEF PinInv, WritersPinned
  <2> QED
    BY <2>1, <2>2 DEF WritersPinned, WriterPC
<1>5. CreatedOnce'
  <2>1. ASSUME NEW s \in Requests, pc'[s] \in {"createPin", "createInsert"}
        PROVE  latest'[req'[s].key[2]] = 0
    <3>1. s # r /\ pc'[s] = pc[s] /\ req'[s] = req[s]
      BY <1>3, <2>1 DEF WriterPC
    <3>2. latest[req[s].key[2]] = 0
      BY <2>1, <3>1 DEF PinInv, CreatedOnce
    <3>3. pc[s] \in CreatePC
      BY <2>1, <3>1 DEF CreatePC
    <3>4. req[s].key \in Keys
      BY <3>3, ReqType DEF InHandAt
    <3>5. req[s].key[2] \in Users
      BY <3>4, KeyOf
    <3> QED
      BY <2>1, <3>1, <3>2, <3>5
  <2> QED
    BY <1>3, <2>1 DEF PinInv, CreatedOnce, WriterPC
<1>6. PrimaryLatest'
  <2> SUFFICES ASSUME NEW u \in Users, primary'[u] # NoRow
               PROVE  primary'[u].ver = latest'[u]
    BY DEF PrimaryLatest
  <2>1. CASE u = k
    BY <1>2, <2>1
  <2>2. CASE u # k
    BY <1>2, <2>2 DEF PinInv, PrimaryLatest
  <2> QED
    BY <2>1, <2>2
<1>7. HasReplica => OwnersPending'
  BY CommitPending
<1>8. OwnRow'
  <2>1. TableStep
    BY <1>2 DEF TableStep
  <2> QED
    BY <2>1, StepOwnRow DEF PinInv
<1> QED
  BY <1>4, <1>5, <1>6, <1>7, <1>8 DEF PinInv

\* The replica's step.
LEMMA ReplicatePin ==
  ASSUME TypeInv, PinInv, Replicate, UNCHANGED <<reqVars, latest>>
  PROVE  PinInv'
<1>1. WellFormed(Users, Rows, Users)
  BY TypeWellFormed DEF TypeInv
<1>2. /\ primary' = primary /\ pinned' = pinned
      /\ Len(wal) \in Nat \ {0} /\ 1 \in DOMAIN wal
      /\ wal[1].key \in Users
      /\ DOMAIN wal' = 1..(Len(wal) - 1)
      /\ \A i \in DOMAIN wal' : i + 1 \in DOMAIN wal /\ wal'[i] = wal[i + 1]
      /\ replica'[wal[1].key] = wal[1].row
      /\ \A j \in Users \ {wal[1].key} : replica'[j] = replica[j]
  BY <1>1, ReplicateEffect
<1>3. DOMAIN wal = 1..Len(wal)
  BY <1>1, LogRecords
<1>4. WritersPinned' /\ CreatedOnce' /\ PrimaryLatest' /\ OwnRow'
  BY <1>2 DEF PinInv, WritersPinned, CreatedOnce, PrimaryLatest, OwnRow, OwnRowAt, reqVars
<1>5. ASSUME HasReplica PROVE OwnersPending'
  <2>1. ASSUME NEW u, NEW i \in 1..Len(wal), Pending(u, i)
        PROVE  Pending(u, i - 1)'
    <3>1. PICK j \in DOMAIN wal : j > i /\ wal[j].key = u /\ wal[j].by = u
      BY <2>1 DEF Pending
    <3>2. j - 1 \in DOMAIN wal' /\ j - 1 > i - 1 /\ (j - 1) + 1 = j
      BY <1>2, <1>3, <3>1
    <3>3. wal'[j - 1] = wal[j]
      BY <1>2, <3>2
    <3> QED
      BY <3>1, <3>2, <3>3 DEF Pending
  <2>2. ASSUME NEW u \in Users, replica'[u] # NoRow
        PROVE  IsLatest(u, replica[u])' \/ Pending(u, 0)'
    <3>1. CASE u = wal[1].key
      <4>1. IsLatest(u, wal[1].row) \/ Pending(u, 1)
        BY <1>2, <1>5, <2>2, <3>1 DEF PinInv, OwnersPending
      <4>2. Pending(u, 1) => Pending(u, 0)'
        BY <1>2, <2>1
      <4> QED
        BY <1>2, <3>1, <4>1, <4>2 DEF IsLatest
    <3>2. CASE u # wal[1].key
      <4>1. IsLatest(u, replica[u]) \/ Pending(u, 0)
        BY <1>2, <1>5, <2>2, <3>2 DEF PinInv, OwnersPending
      <4>2. Pending(u, 0) => Pending(u, 1)
        BY <1>3, <3>2 DEF Pending
      <4>3. Pending(u, 1) => Pending(u, 0)'
        BY <1>2, <2>1
      <4> QED
        BY <1>2, <3>2, <4>1, <4>2, <4>3 DEF IsLatest
    <3> QED
      BY <3>1, <3>2
  <2>3. ASSUME NEW i \in DOMAIN wal', wal'[i].row # NoRow
        PROVE  IsLatest(wal[i].key, wal[i].row)' \/ Pending(wal[i].key, i)'
    <3>1. i + 1 \in DOMAIN wal /\ wal'[i] = wal[i + 1] /\ i \in Nat
      BY <1>2, <2>3
    <3>2. IsLatest(wal[i + 1].key, wal[i + 1].row) \/ Pending(wal[i + 1].key, i + 1)
      BY <1>5, <2>3, <3>1 DEF PinInv, OwnersPending
    <3>3. CASE IsLatest(wal[i + 1].key, wal[i + 1].row)
      BY <1>2, <3>1, <3>3 DEF IsLatest
    <3>4. CASE Pending(wal[i + 1].key, i + 1)
      <4>1. ASSUME NEW u, u = wal[i + 1].key, Pending(u, i + 1)
            PROVE  Pending(u, i)'
        BY <1>3, <2>1, <3>1, <4>1
      <4> QED
        BY <3>1, <3>4, <4>1 DEF Pending
    <3> QED
      BY <3>2, <3>3, <3>4
  <2> QED
    BY <2>2, <2>3 DEF OwnersPending
<1> QED
  BY <1>4, <1>5 DEF PinInv

\* The version of the row on arrival is one that has been written.
LEMMA FloorOnArrival ==
  ASSUME TypeInv, PinInv, NEW u \in Users
  PROVE  Version(primary, u) <= latest[u]
<1>1. latest[u] \in Nat
  BY DEF TypeInv, TypeOK
<1> QED
  BY <1>1 DEF Version, PinInv, PrimaryLatest

LEMMA NextPinInv ==
  ASSUME TimelyReplication, "redis" \notin Environment,
         TypeInv, TypeInv', CacheInv, PinInv, [Next]_vars
  PROVE  PinInv'
<1> USE DEF WriterPC
<1>1. ASSUME UNCHANGED <<primary, replica, wal, pinned, reqVars, latest>>
      PROVE  PinInv'
  BY <1>1 DEF PinInv, WritersPinned, CreatedOnce, PrimaryLatest, OwnersPending, IsLatest,
              Pending, OwnRow, OwnRowAt, reqVars
<1>2. CASE Backend
  <2>1. ASSUME Replicate, UNCHANGED <<cache, reqVars, patches, latest>>
        PROVE  PinInv'
    BY <2>1, ReplicatePin
  <2>2. ASSUME NEW u \in Users, PinExpire(u, Writing(u)),
               UNCHANGED <<cache, reqVars, patches, latest>>
        PROVE  PinInv'
    <3>1. /\ UNCHANGED <<primary, replica, wal, pc, req, latest>>
          /\ pinned' = pinned \ {u} /\ ~Writing(u)
          /\ \A i \in DOMAIN wal : wal[i].by # u
      BY <2>2 DEF PinExpire, reqVars
    <3>2. WritersPinned'
      BY <3>1 DEF PinInv, WritersPinned, Writing
    <3>3. CreatedOnce' /\ PrimaryLatest' /\ OwnRow' /\ (HasReplica => OwnersPending')
      BY <3>1 DEF PinInv, CreatedOnce, PrimaryLatest, OwnersPending, IsLatest, Pending,
                  OwnRow, OwnRowAt
    <3> QED
      BY <3>2, <3>3 DEF PinInv
  <2>3. ASSUME NEW k \in Keys, CacheExpire(k)
        PROVE  PinInv'
    BY <1>1, <2>3 DEF CacheExpire, repoVars
  <2> QED
    BY <1>2, <2>1, <2>2, <2>3 DEF Backend
<1>3. ASSUME NEW r \in Requests, NEW label, NEW q, Steps(r, label, q),
             UNCHANGED <<repoVars, latest>>,
             label \notin WriterPC \cup {"createPin"}, OwnRowAt(pc[r], req[r])'
      PROVE  PinInv'
  BY <1>3, QuietPin DEF repoVars
<1>4. ASSUME NEW r \in Requests, NEW label, NEW q, Steps(r, label, q),
             UNCHANGED <<repoVars, latest>>,
             label \notin PatchPC \cup WriterPC \cup {"createPin", "authRead", "patched"},
             label = "answered" => q.op # "auth"
      PROVE  PinInv'
  BY <1>3, <1>4, NoOwnRow
<1>5. ASSUME NEW r \in Requests, NEW label \in {"authRead", "patchRead"}, NEW q,
             Steps(r, label, q), UNCHANGED <<repoVars, latest>>,
             q.floor = Version(primary, q.ctx)
      PROVE  PinInv'
  <2>1. q.ctx \in Users
    BY <1>5 DEF Steps, InHandAt, PatchPC
  <2>2. OwnRowAt(pc[r], req[r])'
    <3>1. /\ pc'[r] = label /\ req'[r] = q /\ latest' = latest
          /\ q.floor <= latest[q.ctx]
      BY <1>5, <2>1, FloorOnArrival DEF Steps
    <3> QED
      BY <3>1 DEF OwnRowAt, PatchPC
  <2> QED
    BY <1>3, <1>5, <2>2
<1>6. ASSUME NEW r \in Requests, GetUser(r) \/ GetMe(r) \/ LookUpUser(r)
      PROVE  PinInv'
  BY <1>4, <1>6, GetArrives DEF PatchPC, ElseUnchanged
<1>7. ASSUME NEW r \in Requests, GetAuthenticatedUser(r)
      PROVE  PinInv'
  BY <1>5, <1>7, AuthArrives DEF ElseUnchanged
<1>8. ASSUME NEW r \in Requests, PatchUser(r)
      PROVE  PinInv'
  BY <1>5, <1>8, PatchArrives
<1>9. ASSUME NEW r \in Requests, DeleteUser(r)
      PROVE  PinInv'
  BY <1>4, <1>9, DeleteArrives DEF PatchPC, ElseUnchanged
<1>10. ASSUME NEW r \in Requests, CreateUser(r)
       PROVE  PinInv'
  <2>1. UNCHANGED <<primary, replica, wal, pinned, latest>>
    BY <1>10, CreateArrives DEF ElseUnchanged, repoVars
  <2>2. PICK q : /\ Steps(r, "createPin", q)
                 /\ latest[q.key[2]] = 0
                 /\ \A s \in Requests : pc[s] \in CreatePC => req[s].key # q.key
    BY <1>10, CreateArrives
  <2>3. /\ pc'[r] = "createPin" /\ req'[r] = q
        /\ \A s \in Requests \ {r} : pc'[s] = pc[s] /\ req'[s] = req[s]
    BY <2>2 DEF Steps
  <2>4. WritersPinned'
    BY <2>1, <2>3 DEF PinInv, WritersPinned
  <2>5. CreatedOnce'
    <3>1. ASSUME NEW s \in Requests \ {r}, pc[s] \in {"createPin", "createInsert"}
          PROVE  req[s].key[2] # q.key[2]
      <4>1. pc[s] \in CreatePC
        BY <3>1 DEF CreatePC
      <4>2. \E u \in Users : req[s].key = <<"id", u>>
        BY <4>1, ReqType DEF InHandAt
      <4>3. \E u \in Users : q.key = <<"id", u>>
        BY <2>2 DEF Steps, InHandAt, CreatePC
      <4>4. req[s].key # q.key
        BY <2>2, <4>1
      <4> QED
        BY <4>2, <4>3, <4>4
    <3> QED
      BY <2>1, <2>2, <2>3, <3>1 DEF PinInv, CreatedOnce
  <2>6. PrimaryLatest' /\ (HasReplica => OwnersPending')
    BY <2>1 DEF PinInv, PrimaryLatest, OwnersPending, IsLatest, Pending
  <2>7. OwnRow'
    <3>1. TableStep /\ OwnRowAt(pc[r], req[r])'
      BY <2>1, <2>2, NoOwnRow DEF TableStep, PatchPC
    <3> QED
      BY <2>2, <3>1, StepOwnRow DEF PinInv
  <2> QED
    BY <2>4, <2>5, <2>6, <2>7 DEF PinInv
<1>11. ASSUME NEW r \in Requests, GetCache(r) \/ UidCache(r)
       PROVE  PinInv'
  BY <1>4, <1>11, CacheAsked DEF PatchPC, ElseUnchanged
<1>12. ASSUME NEW r \in Requests, GetRead(r) \/ UidRead(r)
       PROVE  PinInv'
  BY <1>4, <1>12, ProfileRead DEF PatchPC, ElseUnchanged
<1>13. ASSUME NEW r \in Requests, GetFill(r) \/ UidFillId(r) \/ UidFillUid(r)
       PROVE  PinInv'
  BY <1>4, <1>13, CacheFilled DEF PatchPC
<1>14. ASSUME NEW r \in Requests, AuthRead(r) \/ PatchReadBack(r) \/ CreateReadBack(r)
       PROVE  PinInv'
  <2>1. UNCHANGED <<repoVars, latest>> /\ req[r].ctx \in Users
    BY <1>14, OwnRowRead DEF ElseUnchanged
  <2>2. CASE Steps(r, "failed", req[r])
    BY <1>4, <2>1, <2>2 DEF PatchPC
  <2>3. ASSUME NEW label \in {"answered", "patched", "created"},
               NEW t \in Snapshots(req[r].ctx), NEW q,
               Steps(r, label, q), t[req[r].ctx] # NoRow,
               q.entry.ver = t[req[r].ctx].ver,
               q.floor = req[r].floor, q.ctx = req[r].ctx,
               label = "answered" => pc[r] = "authRead",
               label = "patched" => pc[r] = "patchReadBack"
        PROVE  PinInv'
    <3>1. q.entry.ver = latest[q.ctx]
      BY <2>1, <2>3, OwnRead DEF IsLatest
    <3>2. label # "created" => q.floor <= latest[q.ctx]
      <4>1. OwnRowAt(pc[r], req[r])
        BY DEF PinInv, OwnRow
      <4> QED
        BY <2>3, <4>1 DEF OwnRowAt, PatchPC
    <3>3. latest[q.ctx] \in Nat /\ q.floor \in Nat
      BY <2>1, <2>3, ReqType DEF TypeInv, TypeOK, Req
    <3>4. OwnRowAt(pc[r], req[r])'
      BY <2>3, <3>1, <3>2, <3>3 DEF OwnRowAt, Steps, PatchPC
    <3> QED
      BY <1>3, <2>1, <2>3, <3>4
  <2> QED
    BY <1>14, <2>2, <2>3, OwnRowRead
<1>15. ASSUME NEW r \in Requests, PatchRead(r)
       PROVE  PinInv'
  <2>1. UNCHANGED <<repoVars, latest>> /\ req[r].ctx \in Users /\ pc[r] = "patchRead"
    BY <1>15, PatchReads DEF ElseUnchanged, PatchRead
  <2>2. CASE Steps(r, "failed", req[r])
    BY <1>4, <2>1, <2>2 DEF PatchPC
  <2>3. ASSUME NEW t \in Snapshots(req[r].ctx), NEW q, Steps(r, "patchExisting", q),
               t[req[r].ctx] # NoRow,
               q.ctx = req[r].ctx, q.floor = req[r].floor, q.mask = req[r].mask,
               \A f \in Fields \ {q.mask} : q.val[f] = t[q.ctx].val[f]
        PROVE  PinInv'
    <3>1. primary[q.ctx] # NoRow => t[q.ctx] = primary[q.ctx]
      BY <2>1, <2>3, OwnRead DEF IsLatest
    <3>2. q.floor <= latest[q.ctx]
      <4>1. OwnRowAt(pc[r], req[r])
        BY DEF PinInv, OwnRow
      <4> QED
        BY <2>1, <2>3, <4>1 DEF OwnRowAt, PatchPC
    <3>3. OwnRowAt(pc[r], req[r])'
      BY <2>1, <2>3, <3>1, <3>2 DEF OwnRowAt, Steps, PatchPC, repoVars
    <3> QED
      BY <1>3, <2>1, <2>3, <3>3
  <2> QED
    BY <1>15, <2>2, <2>3, PatchReads
<1>16. ASSUME NEW r \in Requests, PatchExisting(r) \/ PatchAvatar(r)
       PROVE  PinInv'
  <2>1. UNCHANGED <<repoVars, latest>> /\ pc[r] \in {"patchExisting", "patchAvatar"}
    BY <1>16, PatchPrepares DEF ElseUnchanged
  <2>2. CASE Steps(r, "failed", req[r])
    BY <1>4, <2>1, <2>2 DEF PatchPC
  <2>3. ASSUME NEW label \in {"patchAvatar", "patchDelId"}, NEW q, Steps(r, label, q),
               q.ctx = req[r].ctx, q.floor = req[r].floor, q.mask = req[r].mask,
               \A f \in Fields \ {"avatar"} : q.val[f] = req[r].val[f]
        PROVE  PinInv'
    <3>1. label \in PatchPC /\ pc[r] \in PatchPC \ {"patchRead", "patchReadBack"}
      BY <2>1 DEF PatchPC
    <3>2. OwnRowAt(pc[r], req[r])'
      BY <2>1, <2>3, <3>1, CarryOwnRow DEF repoVars
    <3> QED
      BY <1>3, <2>1, <2>3, <3>2
  <2> QED
    BY <1>16, <2>2, <2>3, PatchPrepares
<1>17. ASSUME NEW r \in Requests,
              PatchDelId(r) \/ PatchDelUid(r) \/ DeleteDelId(r) \/ DeleteDelUid(r)
       PROVE  PinInv'
  <2>1. UNCHANGED <<repoVars, latest>>
    BY <1>17, CacheRemoved
  <2>2. CASE \E label \in {"failed", "deleteDelUid", "deletePin"} : Steps(r, label, req[r])
    BY <1>4, <2>1, <2>2 DEF PatchPC
  <2>3. ASSUME pc[r] \in {"patchDelId", "patchDelUid"},
               NEW label \in {"patchDelUid", "patchPin"}, Steps(r, label, req[r])
        PROVE  PinInv'
    <3>1. label \in PatchPC /\ pc[r] \in PatchPC \ {"patchRead", "patchReadBack"}
      BY <2>3 DEF PatchPC
    <3>2. OwnRowAt(pc[r], req[r])'
      BY <2>1, <2>3, <3>1, CarryOwnRow DEF repoVars
    <3> QED
      BY <1>3, <2>1, <2>3, <3>2
  <2> QED
    BY <1>17, <2>2, <2>3, CacheRemoved
<1>18. ASSUME NEW r \in Requests, PatchPin(r) \/ DeletePin(r) \/ CreatePin(r)
       PROVE  PinInv'
  <2>1. /\ UNCHANGED <<primary, replica, wal, latest>>
        /\ PinUser(req[r].ctx)
        /\ \/ pc[r] = "patchPin" /\ Steps(r, "patchWrite", req[r])
           \/ pc[r] = "deletePin" /\ Steps(r, "deleteRow", req[r])
           \/ pc[r] = "createPin" /\ Steps(r, "createInsert", req[r])
    BY <1>18, WriterPins
  <2>2. pinned' = pinned \cup {req[r].ctx}
    BY <2>1, PinSets
  <2>3. PICK label \in WriterPC :
          /\ Steps(r, label, req[r])
          /\ label = "createInsert" => pc[r] = "createPin"
          /\ label = "patchWrite" => pc[r] = "patchPin"
    BY <2>1
  <2>4. /\ pc'[r] = label /\ req'[r] = req[r]
        /\ \A s \in Requests \ {r} : pc'[s] = pc[s] /\ req'[s] = req[s]
    BY <2>3 DEF Steps
  <2>5. WritersPinned'
    <3>1. \A s \in Requests : pc'[s] \in WriterPC => req'[s].ctx \in pinned'
      BY <2>2, <2>4 DEF PinInv, WritersPinned
    <3>2. \A i \in DOMAIN wal' : wal'[i].by \in pinned'
      BY <2>1, <2>2 DEF PinInv, WritersPinned
    <3> QED
      BY <3>1, <3>2 DEF WritersPinned
  <2>6. CreatedOnce'
    <3>1. \A s \in Requests : /\ req'[s] = req[s]
                              /\ pc'[s] \in {"createPin", "createInsert"} =>
                                   pc[s] \in {"createPin", "createInsert"}
      BY <2>3, <2>4
    <3> QED
      BY <2>1, <3>1 DEF PinInv, CreatedOnce
  <2>7. PrimaryLatest' /\ (HasReplica => OwnersPending')
    BY <2>1 DEF PinInv, PrimaryLatest, OwnersPending, IsLatest, Pending
  <2>8. OwnRowAt(pc[r], req[r])'
    <3>1. CASE label = "patchWrite"
      BY <2>1, <2>3, <3>1, CarryOwnRow DEF PatchPC
    <3>2. CASE label # "patchWrite"
      BY <2>3, <3>2, NoOwnRow DEF PatchPC
    <3> QED
      BY <3>1, <3>2
  <2>9. OwnRow'
    <3>1. TableStep
      BY <2>1 DEF TableStep
    <3> QED
      BY <2>3, <2>8, <3>1, StepOwnRow DEF PinInv
  <2> QED
    BY <2>5, <2>6, <2>7, <2>9 DEF PinInv
<1>19. ASSUME NEW r \in Requests, PatchWrite(r)
       PROVE  PinInv'
  <2> DEFINE u == req[r].ctx
  <2>1. u \in Users /\ pc[r] = "patchWrite" /\ u \in pinned
    BY <1>19, PatchWrites DEF PinInv, WritersPinned
  <2>2. CASE ElseUnchanged /\ Steps(r, "patchReadBack", req[r])
    <3>1. UNCHANGED <<primary, latest, repoVars>>
      BY <2>2 DEF ElseUnchanged, repoVars
    <3>2. OwnRowAt(pc[r], req[r])'
      BY <2>1, <2>2, <3>1, CarryOwnRow DEF PatchPC
    <3> QED
      BY <1>3, <2>2, <3>1, <3>2
  <2>3. ASSUME Writes(u, req[r].val, u), primary[u] # NoRow, NEW q,
               Steps(r, "patchReadBack", q), q.floor = latest[u] + 1, q.ctx = u
        PROVE  PinInv'
    <3>1. PICK row \in Row : row.ver = latest[u] + 1 /\ Commit(u, row, u)
      BY <2>3 DEF Writes
    <3>2. /\ latest'[u] = latest[u] + 1 /\ latest[u] \in Nat
          /\ \A v \in Users \ {u} : latest'[v] = latest[v]
          /\ UNCHANGED pinned
      BY <2>1, <2>3 DEF Writes, TypeInv, TypeOK
    <3>3. OwnRowAt(pc[r], req[r])'
      BY <2>3, <3>2 DEF OwnRowAt, Steps
    <3>4. \A s \in Requests \ {r} :
            pc[s] \in {"createPin", "createInsert"} => req[s].key[2] # u
      <4>1. latest[u] # 0
        BY <2>1, <2>3, <3>2 DEF CacheInv, RowsCommitted
      <4> QED
        BY <4>1 DEF PinInv, CreatedOnce
    <3>5. row \in Rows
      BY DEF Rows
    <3> QED
      BY <2>1, <2>3, <3>1, <3>2, <3>3, <3>4, <3>5, CommitPin
  <2> QED
    BY <1>19, <2>2, <2>3, PatchWrites
<1>20. ASSUME NEW r \in Requests, DeleteRead(r)
       PROVE  PinInv'
  BY <1>4, <1>20, DeleteReads DEF PatchPC, ElseUnchanged
<1>21. ASSUME NEW r \in Requests, DeleteRow(r)
       PROVE  PinInv'
  <2>1. /\ req[r].ctx \in Users /\ req[r].key[2] \in Users /\ pc[r] = "deleteRow"
        /\ UNCHANGED <<pinned, cache, patches, latest>> /\ req[r].ctx \in pinned
    BY <1>21, RowDeleted DEF PinInv, WritersPinned
  <2>2. PICK label \in {"deleted", "failed"} : Steps(r, label, req[r])
    BY <1>21, RowDeleted
  <2>3. CASE UNCHANGED repoVars
    BY <1>4, <2>1, <2>2, <2>3 DEF PatchPC
  <2>4. CASE Commit(req[r].key[2], NoRow, req[r].ctx)
    <3>1. OwnRowAt(pc[r], req[r])'
      BY <2>2, NoOwnRow DEF PatchPC
    <3>2. NoRow \in Rows
      BY DEF Rows
    <3> QED
      BY <2>1, <2>2, <2>4, <3>1, <3>2, CommitPin
  <2> QED
    BY <1>21, <2>3, <2>4, RowDeleted
<1>22. ASSUME NEW r \in Requests, CreateInsert(r)
       PROVE  PinInv'
  <2> DEFINE u == req[r].key[2]
             by == req[r].ctx
  <2>1. by \in Users /\ u \in Users /\ pc[r] = "createInsert" /\ by \in pinned /\ latest[u] = 0
    BY <1>22, RowCreated DEF PinInv, WritersPinned, CreatedOnce
  <2>2. CASE ElseUnchanged /\ Steps(r, "failed", req[r])
    BY <1>4, <2>2 DEF PatchPC, ElseUnchanged
  <2>3. CASE Writes(u, [f \in Fields |-> 0], by) /\ Steps(r, "createReadBack", req[r])
    <3>1. PICK row \in Row : row.ver = latest[u] + 1 /\ Commit(u, row, by)
      BY <2>3 DEF Writes
    <3>2. /\ latest'[u] = latest[u] + 1 /\ latest[u] \in Nat
          /\ \A v \in Users \ {u} : latest'[v] = latest[v]
          /\ UNCHANGED pinned
      BY <2>1, <2>3 DEF Writes, TypeInv, TypeOK
    <3>3. OwnRowAt(pc[r], req[r])'
      BY <2>3, NoOwnRow DEF PatchPC
    <3>4. \A s \in Requests \ {r} :
            pc[s] \in {"createPin", "createInsert"} => req[s].key[2] # u
      BY <2>1 DEF PinInv, CreatedOnce
    <3>5. row \in Rows
      BY DEF Rows
    <3> QED
      BY <2>1, <2>3, <3>1, <3>2, <3>3, <3>4, <3>5, CommitPin
  <2> QED
    BY <1>22, <2>2, <2>3, RowCreated
<1>23. ASSUME NEW r \in Requests, Finish(r) \/ Abort(r)
       PROVE  PinInv'
  BY <1>4, <1>23, Ends DEF PatchPC, ElseUnchanged
<1>24. ASSUME NEW r \in Requests, Proceed(r)
       PROVE  PinInv'
  BY <1>11, <1>12, <1>13, <1>14, <1>15, <1>16, <1>17, <1>18, <1>19, <1>20, <1>21, <1>22,
     <1>23, <1>24 DEF Proceed
<1>25. CASE UNCHANGED vars
  BY <1>1, <1>25 DEF vars, repoVars
<1> QED
  BY <1>2, <1>6, <1>7, <1>8, <1>9, <1>10, <1>23, <1>24, <1>25 DEF Next

\* A user who has written reads what they wrote: what GetAuthenticatedUser, or
\* the read-back of a PATCH, answers is no older than the row the primary had
\* when the request arrived, or than its own UPDATE.
THEOREM OwnWritesSeen ==
  ASSUME TimelyReplication, "redis" \notin Environment
  PROVE  Spec => []OwnPatchVisible
<1>1. Init => TypeInv /\ CacheInv /\ PinInv
  BY InitTypeInv, InitCacheInv, InitPinInv
<1>2. TypeInv /\ CacheInv /\ PinInv /\ [Next]_vars => (TypeInv /\ CacheInv /\ PinInv)'
  BY NextTypeInv, NextCacheInv, NextPinInv
<1>3. PinInv => OwnPatchVisible
  BY DEF PinInv, OwnRow, OwnRowAt, OwnPatchVisible
<1> QED
  BY <1>1, <1>2, <1>3, PTL DEF Spec

\* Only the UPDATE of a PATCH takes it from its last step before to its first
\* step after.
LEMMA WrittenByPatchWrite ==
  ASSUME TypeInv, Next, NEW r \in Requests,
         pc[r] = "patchWrite", pc'[r] = "patchReadBack"
  PROVE  PatchWrite(r)
<1>1. ASSUME NEW s \in Requests, NEW label, NEW q, Steps(s, label, q),
             label # "patchReadBack"
      PROVE  FALSE
  BY <1>1 DEF Steps
<1>2. ASSUME NEW s \in Requests,
             GetUser(s) \/ GetMe(s) \/ LookUpUser(s) \/ GetAuthenticatedUser(s)
               \/ PatchUser(s) \/ DeleteUser(s) \/ CreateUser(s) \/ Abort(s)
      PROVE  FALSE
  BY <1>1, <1>2, GetArrives, AuthArrives, PatchArrives, DeleteArrives, CreateArrives, Ends
<1>3. ASSUME NEW s \in Requests, Proceed(s)
      PROVE  PatchWrite(r)
  <2>1. CASE PatchWrite(s)
    <3>1. CASE s = r
      BY <2>1, <3>1
    <3>2. CASE s # r
      BY <2>1, <3>2, PatchWrites DEF Steps
    <3> QED
      BY <3>1, <3>2
  <2>2. CASE GetCache(s) \/ UidCache(s) \/ GetRead(s) \/ UidRead(s)
               \/ GetFill(s) \/ UidFillId(s) \/ UidFillUid(s)
    BY <1>1, <2>2, CacheAsked, ProfileRead, CacheFilled
  <2>3. CASE AuthRead(s) \/ PatchReadBack(s) \/ CreateReadBack(s)
               \/ PatchRead(s) \/ PatchExisting(s) \/ PatchAvatar(s)
    BY <1>1, <2>3, OwnRowRead, PatchReads, PatchPrepares
  <2>4. CASE PatchDelId(s) \/ PatchDelUid(s) \/ DeleteDelId(s) \/ DeleteDelUid(s)
               \/ PatchPin(s) \/ DeletePin(s) \/ CreatePin(s)
    BY <1>1, <2>4, CacheRemoved, WriterPins
  <2>5. CASE DeleteRead(s) \/ DeleteRow(s) \/ CreateInsert(s) \/ Finish(s)
    BY <1>1, <2>5, DeleteReads, RowDeleted, RowCreated, Ends
  <2> QED
    BY <1>3, <2>1, <2>2, <2>3, <2>4, <2>5 DEF Proceed
<1>4. ASSUME Backend PROVE FALSE
  BY <1>4 DEF Backend, CacheExpire, reqVars
<1> QED
  BY <1>2, <1>3, <1>4 DEF Next

\* publichandler.go:231: as long as nobody else writes the row between the
\* arrival of a PATCH and its UPDATE, the fields that its mask does not name
\* stay as they are in the primary, although what is written back was read
\* elsewhere, perhaps on the replica, some calls earlier.
THEOREM LonePatch ==
  ASSUME TimelyReplication, "redis" \notin Environment
  PROVE  Spec => LonePatchKeepsFields
<1>1. TypeInv /\ TypeInv' /\ PinInv /\ [Next]_vars =>
        [\A r \in Requests :
           (/\ pc[r] = "patchWrite" /\ pc'[r] = "patchReadBack"
            /\ primary[req[r].ctx] # NoRow
            /\ primary[req[r].ctx].ver = req[r].floor)
             => \A f \in Fields \ {req[r].mask, "avatar"} :
                  primary'[req[r].ctx].val[f] = primary[req[r].ctx].val[f]]_vars
  <2> SUFFICES ASSUME TypeInv, TypeInv', PinInv, Next, NEW r \in Requests,
                      pc[r] = "patchWrite", pc'[r] = "patchReadBack",
                      primary[req[r].ctx] # NoRow,
                      primary[req[r].ctx].ver = req[r].floor,
                      NEW f \in Fields \ {req[r].mask, "avatar"}
               PROVE  primary'[req[r].ctx].val[f] = primary[req[r].ctx].val[f]
    OBVIOUS
  <2>1. /\ req[r].ctx \in Users
        /\ Writes(req[r].ctx, req[r].val, req[r].ctx)
    BY WrittenByPatchWrite, PatchWrites
  <2>2. primary'[req[r].ctx].val = req[r].val
    BY <2>1 DEF Writes, Commit, TypeInv, TypeOK
  <2>3. latest[req[r].ctx] = req[r].floor
    BY <2>1 DEF PinInv, PrimaryLatest
  <2>4. req[r].val[f] = primary[req[r].ctx].val[f]
    BY <2>3 DEF PinInv, OwnRow, OwnRowAt, PatchPC
  <2> QED
    BY <2>2, <2>4
<1>2. Init => TypeInv /\ CacheInv /\ PinInv
  BY InitTypeInv, InitCacheInv, InitPinInv
<1>3. TypeInv /\ CacheInv /\ PinInv /\ [Next]_vars => (TypeInv /\ CacheInv /\ PinInv)'
  BY NextTypeInv, NextCacheInv, NextPinInv
<1> QED
  BY <1>1, <1>2, <1>3, PTL DEF Spec, LonePatchKeepsFields

-----------------------------------------------------------------------------
\* What a PATCH leaves in the cache, when requests come one at a time

RemovedPC == {"patchPin", "patchWrite", "patchReadBack", "patched"}

\* The request comes to no step that relies on the removed keys.
LEMMA KeysFree ==
  ASSUME \A r, s \in Requests : r = s,
         NEW r \in Requests, NEW label, NEW q, Steps(r, label, q),
         label \notin RemovedPC \cup {"patchDelUid"}
  PROVE  KeysRemoved'
  BY DEF Steps, KeysRemoved, RemovedPC

\* The request goes on, the keys removed.
LEMMA KeysStay ==
  ASSUME \A r, s \in Requests : r = s, KeysRemoved,
         NEW r \in Requests, NEW label, NEW q, Steps(r, label, q),
         UNCHANGED cache, pc[r] \in RemovedPC, label # "patchDelUid", q.ctx = req[r].ctx
  PROVE  KeysRemoved'
  BY DEF Steps, KeysRemoved, RemovedPC

LEMMA NextKeysRemoved ==
  ASSUME \A r, s \in Requests : r = s, TypeInv, KeysRemoved, [Next]_vars
  PROVE  KeysRemoved'
<1> USE DEF RemovedPC
<1>1. CASE UNCHANGED vars
  BY <1>1 DEF vars, reqVars, KeysRemoved
<1>2. CASE Backend
  <2>1. UNCHANGED <<pc, req>>
    BY <1>2 DEF Backend, CacheExpire, reqVars
  <2>2. \A k \in Keys : cache[k] = NoEntry => cache'[k] = NoEntry
    BY <1>2 DEF Backend, CacheExpire, SetCache, TypeInv, TypeOK
  <2>3. ASSUME NEW r \in Requests, pc[r] \in RemovedPC \cup {"patchDelUid"}
        PROVE  <<"id", req[r].ctx>> \in Keys /\ <<"uid", req[r].ctx>> \in Keys
    <3>1. req[r].ctx \in Users
      BY <2>3, ReqType DEF InHandAt, PatchPC, KeysRemoved
    <3> QED
      BY <3>1, UserKeys
  <2> QED
    BY <2>1, <2>2, <2>3 DEF KeysRemoved
<1>3. ASSUME NEW r \in Requests,
             GetUser(r) \/ GetMe(r) \/ LookUpUser(r) \/ GetAuthenticatedUser(r)
               \/ PatchUser(r) \/ DeleteUser(r) \/ CreateUser(r) \/ Abort(r) \/ Finish(r)
      PROVE  KeysRemoved'
  BY <1>3, KeysFree, GetArrives, AuthArrives, PatchArrives, DeleteArrives, CreateArrives, Ends
<1>4. ASSUME NEW r \in Requests,
             GetCache(r) \/ UidCache(r) \/ GetRead(r) \/ UidRead(r)
               \/ GetFill(r) \/ UidFillId(r) \/ UidFillUid(r)
               \/ PatchRead(r) \/ PatchExisting(r) \/ PatchAvatar(r)
      PROVE  KeysRemoved'
  BY <1>4, KeysFree, CacheAsked, ProfileRead, CacheFilled, PatchReads, PatchPrepares
<1>5. ASSUME NEW r \in Requests, DeleteRead(r) \/ DeleteRow(r) \/ CreateInsert(r)
      PROVE  KeysRemoved'
  BY <1>5, KeysFree, DeleteReads, RowDeleted, RowCreated
<1>6. ASSUME NEW r \in Requests, AuthRead(r) \/ PatchReadBack(r) \/ CreateReadBack(r)
      PROVE  KeysRemoved'
  <2>1. UNCHANGED cache
    BY <1>6, OwnRowRead DEF ElseUnchanged
  <2>2. CASE \E label \in {"failed", "answered", "created"} : \E q : Steps(r, label, q)
    BY <2>2, KeysFree
  <2>3. CASE \E q : /\ Steps(r, "patched", q) /\ q.ctx = req[r].ctx
                    /\ pc[r] = "patchReadBack"
    BY <2>1, <2>3, KeysStay
  <2> QED
    BY <1>6, <2>2, <2>3, OwnRowRead
<1>7. ASSUME NEW r \in Requests,
             PatchDelId(r) \/ PatchDelUid(r) \/ DeleteDelId(r) \/ DeleteDelUid(r)
      PROVE  KeysRemoved'
  <2> DEFINE u == req[r].ctx
  <2>1. CASE \E label \in {"failed", "deleteDelUid", "deletePin"} : Steps(r, label, req[r])
    BY <2>1, KeysFree
  <2>2. ASSUME pc[r] \in {"patchDelId", "patchDelUid"}
        PROVE  u \in Users /\ <<"id", u>> \in Keys /\ <<"uid", u>> \in Keys
    <3>1. u \in Users
      BY <2>2, ReqType DEF InHandAt, PatchPC
    <3> QED
      BY <3>1, UserKeys
  <2>3. CASE /\ pc[r] = "patchDelId" /\ Steps(r, "patchDelUid", req[r])
             /\ cache' = [cache EXCEPT ![<<"id", u>>] = NoEntry]
    <3>1. cache'[<<"id", u>>] = NoEntry
      BY <2>2, <2>3 DEF TypeInv, TypeOK
    <3> QED
      BY <2>3, <3>1 DEF Steps, KeysRemoved
  <2>4. CASE /\ pc[r] = "patchDelUid" /\ Steps(r, "patchPin", req[r])
             /\ cache' = [cache EXCEPT ![<<"uid", u>>] = NoEntry]
    <3>1. cache'[<<"uid", u>>] = NoEntry
      BY <2>2, <2>4 DEF TypeInv, TypeOK
    <3>2. cache'[<<"id", u>>] = NoEntry
      BY <2>2, <2>4 DEF TypeInv, TypeOK, KeysRemoved
    <3> QED
      BY <2>2, <2>4, <3>1, <3>2 DEF Steps, KeysRemoved
  <2> QED
    BY <1>7, <2>1, <2>3, <2>4, CacheRemoved
<1>8. ASSUME NEW r \in Requests, PatchPin(r) \/ DeletePin(r) \/ CreatePin(r)
      PROVE  KeysRemoved'
  BY <1>8, WriterPins, KeysFree, KeysStay
<1>9. ASSUME NEW r \in Requests, PatchWrite(r)
      PROVE  KeysRemoved'
  <2>1. UNCHANGED cache /\ pc[r] = "patchWrite"
    BY <1>9 DEF PatchWrite
  <2>2. PICK q : Steps(r, "patchReadBack", q) /\ q.ctx = req[r].ctx
    BY <1>9, PatchWrites
  <2> QED
    BY <2>1, <2>2, KeysStay
<1>10. ASSUME NEW r \in Requests, Proceed(r)
       PROVE  KeysRemoved'
  BY <1>3, <1>4, <1>5, <1>6, <1>7, <1>8, <1>9, <1>10 DEF Proceed
<1> QED
  BY <1>1, <1>2, <1>3, <1>10 DEF Next

\* cache.go:114-116: as long as requests come one at a time, neither key of the
\* user holds a profile older than the one a PATCH has written, wherever reads
\* are served from and whatever fails.  (With a read in between they may: see
\* CacheConverges.)
THEOREM CacheInvalidated ==
  ASSUME \A r, s \in Requests : r = s
  PROVE  Spec => []CacheInvalidatedByUpdate
<1>1. Init => TypeInv /\ KeysRemoved
  <2>1. Init => KeysRemoved
    BY DEF Init, KeysRemoved
  <2> QED
    BY <2>1, InitTypeInv
<1>2. TypeInv /\ KeysRemoved /\ [Next]_vars => (TypeInv /\ KeysRemoved)'
  BY NextTypeInv, NextKeysRemoved
<1>3. KeysRemoved => CacheInvalidatedByUpdate
  BY DEF KeysRemoved, CacheInvalidatedByUpdate, Fresh
<1> QED
  BY <1>1, <1>2, <1>3, PTL DEF Spec
=============================================================================
