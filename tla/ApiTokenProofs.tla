--------------------------- MODULE ApiTokenProofs ---------------------------
(***************************************************************************)
(* Theorems about ApiToken, for every set of users, ids, access tokens and *)
(* request slots, with or without a replica, and whatever the environment  *)
(* may do but for what a theorem rules out by name.                        *)
(***************************************************************************)
EXTENDS ApiToken, TLAPS

WalRecord == [key : AccessTokens, row : Row \cup {NoRow}, by : Users]

-----------------------------------------------------------------------------
\* Lemmas about the repository's operators

\* A read is served from the primary or from the replica.
LEMMA SnapshotsAreTables ==
  ASSUME NEW u, NEW t \in Snapshots(u)
  PROVE  t = primary \/ t = replica
  BY DEF Snapshots

\* Committing a well-formed row leaves the tables and the log well formed.
LEMMA CommitType ==
  ASSUME TypeOK, NEW at \in AccessTokens, NEW row \in Row \cup {NoRow},
         NEW u \in Users, Commit(at, row, u)
  PROVE  /\ primary' \in [AccessTokens -> Row \cup {NoRow}]
         /\ replica' \in [AccessTokens -> Row \cup {NoRow}]
         /\ wal' \in Seq(WalRecord)
<1>1. [key |-> at, row |-> row, by |-> u] \in WalRecord
  BY DEF WalRecord
<1>2. wal \in Seq(WalRecord)
  BY DEF TypeOK, WalRecord
<1>3. Append(wal, [key |-> at, row |-> row, by |-> u]) \in Seq(WalRecord)
  BY <1>1, <1>2
<1>4. wal' \in Seq(WalRecord)
  BY <1>2, <1>3 DEF Commit
<1> QED
  BY <1>4 DEF Commit, TypeOK

\* Pinning touches nothing but the pins.
LEMMA PinUserType ==
  ASSUME TypeOK, NEW u \in Users \cup {NoUser}, PinUser(u)
  PROVE  pinned' \subseteq Users \cup {NoUser}
  BY DEF PinUser, TypeOK

\* Replication moves the oldest record of the log into the replica.
LEMMA ReplicateType ==
  ASSUME TypeOK, Replicate
  PROVE  /\ replica' \in [AccessTokens -> Row \cup {NoRow}]
         /\ wal' \in Seq(WalRecord)
<1>1. wal \in Seq(WalRecord) /\ wal # <<>>
  BY DEF TypeOK, WalRecord, Replicate
<1>2. Head(wal) \in WalRecord /\ Tail(wal) \in Seq(WalRecord)
  BY <1>1
<1> QED
  BY <1>2 DEF Replicate, TypeOK, WalRecord

-----------------------------------------------------------------------------
\* Type correctness

\* What a request has in hand at each label: the fields the code has assigned
\* by then.
InHand ==
  \A r \in Requests :
    /\ pc[r] \in CreatePC \cup DeletePC =>
         req[r].user \in Users /\ req[r].id \in Ids
    /\ pc[r] \in CreatePC \cup ValidatePC \cup Decided
                   \cup {"deleteUncache", "deletePin", "deleteRow"} =>
         req[r].at \in AccessTokens
    /\ pc[r] \in {"validateFill", "validatePin", "validateTouch"} \cup Decided
         => req[r].uid \in Users

TypeInv == TypeOK /\ InHand



LEMMA NoReqType == NoReq \in Req
  BY RepositoryAssumption, ApiTokenAssumption DEF NoReq, Req

LEMMA InitTypeInv == Init => TypeInv
<1> SUFFICES ASSUME Init PROVE TypeInv
  OBVIOUS
<1>1. wal \in Seq([key : AccessTokens, row : Row \cup {NoRow}, by : Users])
  BY DEF Init, RepoInit
<1>2. \A r \in Requests : pc[r] = "idle"
  BY DEF Init
<1>3. TypeOK
  BY <1>1, NoReqType, RepositoryAssumption DEF Init, RepoInit, TypeOK, PC
<1>4. InHand
  BY <1>2 DEF InHand, CreatePC, DeletePC, ValidatePC, Decided
<1> QED
  BY <1>3, <1>4 DEF TypeInv

\* A request's record after the handler has taken its inputs.
LEMMA ArriveType ==
  ASSUME TypeOK, NEW r \in Requests, NEW label \in PC, NEW inputs \in Req,
         Arrive(r, label, inputs)
  PROVE  /\ pc' \in [Requests -> PC]
         /\ req' \in [Requests -> Req]
         /\ pc'[r] = label /\ req'[r] = inputs
         /\ \A s \in Requests \ {r} : pc'[s] = pc[s] /\ req'[s] = req[s]
  BY DEF Arrive, Goto, TypeOK

\* Assigning one field of a request's record.
LEMMA AssignUid ==
  ASSUME NEW q \in Req, NEW u \in Users
  PROVE  [q EXCEPT !.uid = u] \in Req
  BY DEF Req

LEMMA AssignAt ==
  ASSUME NEW q \in Req, NEW at \in AccessTokens
  PROVE  [q EXCEPT !.at = at] \in Req
  BY DEF Req

LEMMA NextTypeInv == TypeInv /\ [Next]_vars => TypeInv'
<1> SUFFICES ASSUME TypeInv, [Next]_vars PROVE TypeInv'
  OBVIOUS
<1> USE ApiTokenAssumption, RepositoryAssumption
    DEF TypeInv, InHand, PC, CreatePC, DeletePC, ValidatePC, DonePC,
        Decided, repoVars, history
<1>1. ASSUME NEW r \in Requests, CreateToken(r) PROVE TypeInv'
  <2>1. PICK u \in Users, id \in Ids, at \in AccessTokens :
          /\ Arrive(r, "createPin",
                    [NoReq EXCEPT !.user = u, !.id = id, !.at = at])
          /\ UNCHANGED <<repoVars, cache, history>>
    BY <1>1 DEF CreateToken, GeneratedTokens
  <2> DEFINE inputs == [NoReq EXCEPT !.user = u, !.id = id, !.at = at]
  <2>2. inputs \in Req /\ inputs.user = u /\ inputs.id = id /\ inputs.at = at
    BY DEF NoReq, Req
  <2> HIDE DEF inputs
  <2>3. /\ pc' \in [Requests -> PC] /\ req' \in [Requests -> Req]
        /\ pc'[r] = "createPin" /\ req'[r] = inputs
        /\ \A s \in Requests \ {r} : pc'[s] = pc[s] /\ req'[s] = req[s]
    BY <2>1, <2>2, ArriveType DEF inputs
  <2>4. TypeOK'
    BY <2>1, <2>3 DEF TypeOK
  <2>5. InHand'
    BY <2>2, <2>3
  <2> QED
    BY <2>4, <2>5
<1>2. ASSUME NEW r \in Requests, DeleteToken(r) PROVE TypeInv'
  <2>1. PICK u \in Users, id \in Ids :
          /\ Arrive(r, "deleteCheck", [NoReq EXCEPT !.user = u, !.id = id])
          /\ UNCHANGED <<repoVars, cache, history>>
    BY <1>2 DEF DeleteToken
  <2> DEFINE inputs == [NoReq EXCEPT !.user = u, !.id = id]
  <2>2. inputs \in Req /\ inputs.user = u /\ inputs.id = id
    BY DEF NoReq, Req
  <2> HIDE DEF inputs
  <2>3. /\ pc' \in [Requests -> PC] /\ req' \in [Requests -> Req]
        /\ pc'[r] = "deleteCheck" /\ req'[r] = inputs
        /\ \A s \in Requests \ {r} : pc'[s] = pc[s] /\ req'[s] = req[s]
    BY <2>1, <2>2, ArriveType DEF inputs
  <2>4. TypeOK'
    BY <2>1, <2>3 DEF TypeOK
  <2>5. InHand'
    BY <2>2, <2>3
  <2> QED
    BY <2>4, <2>5
<1>3. ASSUME NEW r \in Requests, ValidateToken(r) PROVE TypeInv'
  <2>1. PICK at \in AccessTokens :
          /\ Arrive(r, "validateCache",
                    [NoReq EXCEPT !.at = at, !.facts = FactsOf(at)])
          /\ UNCHANGED <<repoVars, cache, history>>
    BY <1>3 DEF ValidateToken
  <2> DEFINE inputs == [NoReq EXCEPT !.at = at, !.facts = FactsOf(at)]
  <2>2. inputs \in Req /\ inputs.at = at
    BY DEF NoReq, Req, FactsOf
  <2> HIDE DEF inputs
  <2>3. /\ pc' \in [Requests -> PC] /\ req' \in [Requests -> Req]
        /\ pc'[r] = "validateCache" /\ req'[r] = inputs
        /\ \A s \in Requests \ {r} : pc'[s] = pc[s] /\ req'[s] = req[s]
    BY <2>1, <2>2, ArriveType DEF inputs
  <2>4. TypeOK'
    BY <2>1, <2>3 DEF TypeOK
  <2>5. InHand'
    BY <2>2, <2>3
  <2> QED
    BY <2>4, <2>5
<1>4. ASSUME NEW r \in Requests, CreatePin(r) PROVE TypeInv'
  BY <1>4 DEF CreatePin, PinUser, Goto, TypeOK, Req
<1>5. ASSUME NEW r \in Requests, CreateInsert(r) PROVE TypeInv'
  <2> DEFINE at == req[r].at
             u  == req[r].user
             id == req[r].id
  <2>1. at \in AccessTokens /\ u \in Users /\ id \in Ids
    BY <1>5 DEF CreateInsert
  <2>2. CASE Goto(r, "createFailed") /\ UNCHANGED <<repoVars, issued>>
    BY <1>5, <2>2 DEF CreateInsert, Goto, TypeOK
  <2>3. CASE /\ Commit(at, [owner |-> u, id |-> id], u)
             /\ issued' = [issued EXCEPT ![at] = @ \cup {u}]
             /\ Goto(r, "createCache")
             /\ UNCHANGED pinned
    <3>1. [owner |-> u, id |-> id] \in Row \cup {NoRow}
      BY <2>1 DEF Row
    <3>2. /\ primary' \in [AccessTokens -> Row \cup {NoRow}]
          /\ replica' \in [AccessTokens -> Row \cup {NoRow}]
          /\ wal' \in Seq(WalRecord)
      BY <2>1, <2>3, <3>1, CommitType
    <3>3. issued' \in [AccessTokens -> SUBSET Users]
      BY <2>1, <2>3 DEF TypeOK
    <3>4. UNCHANGED <<cache, req, expired>>
      BY <1>5 DEF CreateInsert
    <3>5. pc' \in [Requests -> PC] /\ pc' = [pc EXCEPT ![r] = "createCache"]
      BY <2>3 DEF Goto, TypeOK
    <3>6. TypeOK'
      BY <2>3, <3>2, <3>3, <3>4, <3>5 DEF TypeOK, WalRecord
    <3>7. InHand'
      BY <1>5, <2>1, <3>4, <3>5 DEF TypeOK
    <3> QED
      BY <3>6, <3>7
  <2> QED
    BY <1>5, <2>2, <2>3 DEF CreateInsert
<1>6. ASSUME NEW r \in Requests, CreateCache(r) PROVE TypeInv'
  BY <1>6 DEF CreateCache, SetCache, RedisFault, Goto, TypeOK
<1>7. ASSUME NEW r \in Requests, CreateReadBack(r) PROVE TypeInv'
  <2>1. UNCHANGED <<repoVars, cache, history>>
    BY <1>7 DEF CreateReadBack
  <2>2. CASE Goto(r, "createFailed") /\ UNCHANGED req
    BY <2>1, <2>2 DEF Goto, TypeOK
  <2>3. ASSUME NEW at \in AccessTokens,
               req' = [req EXCEPT ![r].at = at], Goto(r, "created")
        PROVE  TypeInv'
    <3>1. [req[r] EXCEPT !.at = at] \in Req
      BY AssignAt DEF TypeOK
    <3>2. TypeOK'
      BY <2>1, <2>3, <3>1 DEF Goto, TypeOK
    <3>3. /\ pc'[r] = "created"
          /\ \A s \in Requests \ {r} : pc'[s] = pc[s] /\ req'[s] = req[s]
      BY <2>3 DEF Goto, TypeOK
    <3> QED
      BY <2>1, <3>2, <3>3
  <2> QED
    BY <1>7, <2>2, <2>3 DEF CreateReadBack, Named
<1>8. ASSUME NEW r \in Requests, DeleteCheck(r) PROVE TypeInv'
  BY <1>8 DEF DeleteCheck, Goto, TypeOK
<1>9. ASSUME NEW r \in Requests, DeleteGet(r) PROVE TypeInv'
  <2>1. pc[r] = "deleteGet" /\ UNCHANGED <<repoVars, cache, history>>
    BY <1>9 DEF DeleteGet
  <2>2. CASE Goto(r, "deleteFailed") /\ UNCHANGED req
    BY <2>1, <2>2 DEF Goto, TypeOK
  <2>3. ASSUME NEW at \in AccessTokens,
               req' = [req EXCEPT ![r].at = at], Goto(r, "deleteUncache")
        PROVE  TypeInv'
    <3>1. req' \in [Requests -> Req] /\ pc' \in [Requests -> PC]
      <4>1. [req[r] EXCEPT !.at = at] \in Req
        BY AssignAt DEF TypeOK
      <4> QED
        BY <2>3, <4>1 DEF Goto, TypeOK
    <3>2. TypeOK'
      BY <2>1, <3>1 DEF TypeOK
    <3>3. /\ req'[r].at = at /\ req'[r].user = req[r].user
          /\ req'[r].id = req[r].id
      BY <2>3 DEF TypeOK, Req
    <3>4. /\ pc'[r] = "deleteUncache"
          /\ \A s \in Requests \ {r} : pc'[s] = pc[s] /\ req'[s] = req[s]
      BY <2>3 DEF Goto, TypeOK
    <3>5. InHand'
      BY <2>1, <3>3, <3>4
    <3> QED
      BY <3>2, <3>5
  <2> QED
    BY <1>9, <2>2, <2>3 DEF DeleteGet, Named
<1>10. ASSUME NEW r \in Requests, DeleteUncache(r) PROVE TypeInv'
  BY <1>10 DEF DeleteUncache, SetCache, RedisFault, Goto, TypeOK
<1>11. ASSUME NEW r \in Requests, DeletePin(r) PROVE TypeInv'
  BY <1>11 DEF DeletePin, PinUser, Goto, TypeOK, Req
<1>12. ASSUME NEW r \in Requests, DeleteRow(r) PROVE TypeInv'
  <2>1. pc[r] = "deleteRow" /\ UNCHANGED <<cache, req, history>>
    BY <1>12 DEF DeleteRow
  <2>2. CASE Goto(r, "deleteFailed") /\ UNCHANGED repoVars
    BY <2>1, <2>2 DEF Goto, TypeOK
  <2>3. ASSUME NEW at \in AccessTokens, Commit(at, NoRow, req[r].user),
               Goto(r, "deleted"), UNCHANGED pinned
        PROVE  TypeInv'
    <3>1. /\ primary' \in [AccessTokens -> Row \cup {NoRow}]
          /\ replica' \in [AccessTokens -> Row \cup {NoRow}]
          /\ wal' \in Seq(WalRecord)
      BY <2>1, <2>3, CommitType
    <3>2. TypeOK'
      BY <2>1, <2>3, <3>1 DEF TypeOK, WalRecord, Goto
    <3>3. InHand'
      BY <2>1, <2>3 DEF Goto, TypeOK
    <3> QED
      BY <3>2, <3>3
  <2> QED
    BY <1>12, <2>2, <2>3 DEF DeleteRow, Named
<1>13. ASSUME NEW r \in Requests, ValidateCache(r) PROVE TypeInv'
  <2>1. /\ pc[r] = "validateCache" /\ req[r].at \in AccessTokens
        /\ UNCHANGED <<repoVars, cache, history>>
    BY <1>13 DEF ValidateCache
  <2>2. CASE Goto(r, "validateLookup") /\ UNCHANGED req
    BY <2>1, <2>2 DEF Goto, TypeOK
  <2>3. CASE /\ cache[req[r].at] # NoUser
             /\ req' = [req EXCEPT ![r].uid = cache[req[r].at]]
             /\ Goto(r, "validatePin")
    <3>1. cache[req[r].at] \in Users
      BY <2>1, <2>3 DEF TypeOK
    <3>2. req' \in [Requests -> Req] /\ pc' \in [Requests -> PC]
      <4>1. req[r] \in Req
        BY DEF TypeOK
      <4>2. [req[r] EXCEPT !.uid = cache[req[r].at]] \in Req
        BY <3>1, <4>1, AssignUid
      <4> QED
        BY <2>3, <4>2 DEF Goto, TypeOK
    <3>3. TypeOK'
      BY <2>1, <3>2 DEF TypeOK
    <3>4. req'[r].at = req[r].at /\ req'[r].uid \in Users
      BY <2>3, <3>1 DEF TypeOK, Req
    <3>5. /\ pc'[r] = "validatePin"
          /\ \A s \in Requests \ {r} : pc'[s] = pc[s] /\ req'[s] = req[s]
      BY <2>3 DEF Goto, TypeOK
    <3>6. InHand'
      BY <2>1, <3>4, <3>5
    <3> QED
      BY <3>3, <3>6
  <2> QED
    BY <1>13, <2>2, <2>3 DEF ValidateCache
<1>14. ASSUME NEW r \in Requests, ValidateLookup(r) PROVE TypeInv'
  <2>1. /\ pc[r] = "validateLookup" /\ req[r].at \in AccessTokens
        /\ UNCHANGED <<repoVars, cache, history>>
    BY <1>14 DEF ValidateLookup
  <2>2. CASE Goto(r, "rejected") /\ UNCHANGED req
    BY <2>1, <2>2 DEF Goto, TypeOK
  <2>3. ASSUME NEW t \in Snapshots(NoUser), t[req[r].at] # NoRow,
               req' = [req EXCEPT ![r].uid = t[req[r].at].owner],
               Goto(r, "validateFill")
        PROVE  TypeInv'
    <3>1. t[req[r].at].owner \in Users
      BY <2>1, <2>3, SnapshotsAreTables DEF TypeOK, Row
    <3>2. req' \in [Requests -> Req] /\ pc' \in [Requests -> PC]
      <4>1. req[r] \in Req
        BY DEF TypeOK
      <4>2. [req[r] EXCEPT !.uid = t[req[r].at].owner] \in Req
        BY <3>1, <4>1, AssignUid
      <4> QED
        BY <2>3, <4>2 DEF Goto, TypeOK
    <3>3. TypeOK'
      BY <2>1, <3>2 DEF TypeOK
    <3>4. req'[r].at = req[r].at /\ req'[r].uid \in Users
      BY <2>3, <3>1 DEF TypeOK, Req
    <3>5. /\ pc'[r] = "validateFill"
          /\ \A s \in Requests \ {r} : pc'[s] = pc[s] /\ req'[s] = req[s]
      BY <2>3 DEF Goto, TypeOK
    <3>6. InHand'
      BY <2>1, <3>4, <3>5
    <3> QED
      BY <3>3, <3>6
  <2> QED
    BY <1>14, <2>2, <2>3 DEF ValidateLookup
<1>15. ASSUME NEW r \in Requests, ValidateFill(r) PROVE TypeInv'
  BY <1>15 DEF ValidateFill, SetCache, RedisFault, Goto, TypeOK
<1>16. ASSUME NEW r \in Requests, ValidatePin(r) PROVE TypeInv'
  BY <1>16 DEF ValidatePin, PinUser, Goto, TypeOK
<1>17. ASSUME NEW r \in Requests, ValidateTouch(r) PROVE TypeInv'
  BY <1>17 DEF ValidateTouch, Goto, TypeOK
<1>18. ASSUME NEW r \in Requests, ValidateUser(r) PROVE TypeInv'
  BY <1>18 DEF ValidateUser, Goto, TypeOK
<1>19. ASSUME NEW r \in Requests, Finish(r) \/ Abort(r) PROVE TypeInv'
  BY <1>19, NoReqType DEF Finish, Abort, Goto, TypeOK
<1>20. ASSUME Replicate, UNCHANGED <<cache, reqVars, history>> PROVE TypeInv'
  <2>1. replica' \in [AccessTokens -> Row \cup {NoRow}] /\ wal' \in Seq(WalRecord)
    BY <1>20, ReplicateType
  <2>2. TypeOK'
    BY <1>20, <2>1 DEF Replicate, TypeOK, WalRecord, reqVars
  <2> QED
    BY <1>20, <2>2 DEF reqVars
<1>21. ASSUME NEW u \in Users \cup {NoUser}, PinExpire(u, Writing(u)),
              UNCHANGED <<cache, reqVars, history>>
       PROVE  TypeInv'
  BY <1>21 DEF PinExpire, TypeOK, reqVars
<1>22. ASSUME NEW at \in AccessTokens, CacheExpire(at) \/ TokenExpire(at)
       PROVE  TypeInv'
  BY <1>22 DEF CacheExpire, TokenExpire, SetCache, TypeOK, reqVars
<1>23. CASE UNCHANGED vars
  BY <1>23 DEF vars, TypeOK, reqVars
<1> QED
  BY <1>1, <1>2, <1>3, <1>4, <1>5, <1>6, <1>7, <1>8, <1>9, <1>10, <1>11,
     <1>12, <1>13, <1>14, <1>15, <1>16, <1>17, <1>18, <1>19, <1>20, <1>21,
     <1>22, <1>23 DEF Next, Proceed, Backend

\* Every variable of the token service keeps its type, and every request has
\* in hand what the call it makes next needs.
THEOREM TypeCorrect == Spec => []TypeOK
<1>1. Spec => []TypeInv
  BY InitTypeInv, NextTypeInv, PTL DEF Spec
<1>2. TypeInv => TypeOK
  BY DEF TypeInv
<1> QED
  BY <1>1, <1>2, PTL

-----------------------------------------------------------------------------
\* Nobody is tied to a token that was not inserted for them

\* Every copy of a row, in the tables or on its way to the replica, is of a
\* user the token was inserted for.
RowsIssued ==
  /\ \A at \in AccessTokens :
       /\ primary[at] # NoRow => primary[at].owner \in issued[at]
       /\ replica[at] # NoRow => replica[at].owner \in issued[at]
  /\ \A i \in DOMAIN wal :
       wal[i].row # NoRow => wal[i].row.owner \in issued[wal[i].key]

\* CreateToken gets to the cache only after its own INSERT; DeleteToken resolves
\* no user.
LocalsIssued ==
  \A r \in Requests :
    /\ pc[r] = "createCache" => req[r].user \in issued[req[r].at]
    /\ pc[r] \in CreatePC \cup {"deleteCheck", "deleteGet"} => req[r].uid = NoUser

IssueInv == OnlyIssuedOwners /\ RowsIssued /\ LocalsIssued

LEMMA InitIssueInv == Init => IssueInv
  BY RepositoryAssumption
     DEF Init, RepoInit, NoReq, IssueInv, OnlyIssuedOwners, RowsIssued,
         LocalsIssued

\* The log's records after a write are the old ones and the write's own.
LEMMA CommitRecords ==
  ASSUME TypeOK, NEW at, NEW row, NEW u, Commit(at, row, u),
         NEW i \in DOMAIN wal'
  PROVE  \/ i \in DOMAIN wal /\ wal'[i] = wal[i]
         \/ wal'[i] = [key |-> at, row |-> row, by |-> u]
  BY DEF Commit, TypeOK

\* The records Replicate leaves are records that were there.
LEMMA ReplicateRecords ==
  ASSUME TypeOK, Replicate, NEW i \in DOMAIN wal'
  PROVE  i + 1 \in DOMAIN wal /\ wal'[i] = wal[i + 1]
  BY DEF Replicate, TypeOK

LEMMA NextIssueInv == TypeInv /\ IssueInv /\ [Next]_vars => IssueInv'
<1> SUFFICES ASSUME TypeInv, IssueInv, [Next]_vars PROVE IssueInv'
  OBVIOUS
<1> USE ApiTokenAssumption, RepositoryAssumption
    DEF TypeInv, IssueInv, OnlyIssuedOwners, RowsIssued, LocalsIssued, repoVars,
        history, CreatePC
<1>1. ASSUME NEW r \in Requests,
             CreateToken(r) \/ DeleteToken(r) \/ ValidateToken(r)
      PROVE  IssueInv'
  <2>1. PICK inputs : inputs.uid = NoUser /\ req' = [req EXCEPT ![r] = inputs]
    BY <1>1 DEF CreateToken, DeleteToken, ValidateToken, Arrive, NoReq
  <2>2. /\ pc'[r] \in {"createPin", "deleteCheck", "validateCache"}
        /\ pc' = [pc EXCEPT ![r] = pc'[r]]
        /\ UNCHANGED <<repoVars, cache, history>>
    BY <1>1 DEF CreateToken, DeleteToken, ValidateToken, Arrive, Goto, TypeOK
  <2>3. \A s \in Requests \ {r} : pc'[s] = pc[s] /\ req'[s] = req[s]
    BY <2>1, <2>2 DEF TypeOK
  <2>4. req'[r].uid = NoUser
    BY <2>1 DEF TypeOK
  <2> QED
    BY <2>2, <2>3, <2>4
<1>2. ASSUME NEW r \in Requests,
             CreatePin(r) \/ DeletePin(r) \/ ValidatePin(r)
               \/ ValidateTouch(r) \/ ValidateUser(r) \/ DeleteCheck(r)
      PROVE  IssueInv'
  <2>1. /\ pc'[r] # "createCache"
        /\ pc'[r] = "deleteGet" => pc[r] = "deleteCheck"
        /\ pc'[r] # "deleteCheck"
        /\ pc'[r] \in CreatePC => pc[r] \in CreatePC
        /\ \A s \in Requests \ {r} : pc'[s] = pc[s]
        /\ UNCHANGED <<primary, replica, wal, cache, req, history>>
    BY <1>2 DEF CreatePin, DeletePin, ValidatePin, ValidateTouch,
       ValidateUser, DeleteCheck, Goto, TypeOK
  <2> QED
    BY <2>1
<1>3. ASSUME NEW r \in Requests, CreateInsert(r) PROVE IssueInv'
  <2> DEFINE at == req[r].at
             u  == req[r].user
             id == req[r].id
  <2>1. at \in AccessTokens /\ u \in Users /\ id \in Ids
    BY <1>3 DEF CreateInsert, InHand
  <2>2. CASE Goto(r, "createFailed") /\ UNCHANGED <<repoVars, issued>>
    BY <1>3, <2>2 DEF CreateInsert, Goto, TypeOK
  <2>3. CASE /\ Commit(at, [owner |-> u, id |-> id], u)
             /\ issued' = [issued EXCEPT ![at] = @ \cup {u}]
             /\ Goto(r, "createCache")
    <3>1. \A a \in AccessTokens : issued[a] \subseteq issued'[a]
      BY <2>1, <2>3 DEF TypeOK
    <3>2. u \in issued'[at]
      BY <2>1, <2>3 DEF TypeOK
    <3>3. UNCHANGED <<cache, req, replica>>
      BY <1>3, <2>3 DEF CreateInsert, Commit
    <3>4. pc' = [pc EXCEPT ![r] = "createCache"]
      BY <2>3 DEF Goto
    <3>5. OnlyIssuedOwners'
      <4>1. ASSUME NEW s \in Requests, req[s].uid # NoUser
            PROVE  req[s].uid \in issued'[req[s].at]
        <5>1. req[s].uid \in issued[req[s].at]
          BY <4>1
        <5>2. CASE req[s].at \in AccessTokens
          BY <3>1, <5>1, <5>2
        <5>3. CASE req[s].at \notin AccessTokens
          BY <2>1, <2>3, <5>1, <5>3 DEF TypeOK
        <5> QED
          BY <5>2, <5>3
      <4> QED
        BY <3>1, <3>3, <4>1
    <3>6. LocalsIssued'
      <4>1. ASSUME NEW s \in Requests, pc'[s] = "createCache"
            PROVE  req[s].user \in issued'[req[s].at]
        <5>1. CASE s = r
          BY <3>2, <5>1
        <5>2. CASE s # r
          <6>1. pc[s] = "createCache"
            BY <3>4, <4>1, <5>2 DEF TypeOK
          <6>2. req[s].at \in AccessTokens
            BY <6>1 DEF InHand
          <6> QED
            BY <3>1, <6>1, <6>2
        <5> QED
          BY <5>1, <5>2
      <4>2. pc[r] = "createInsert"
        BY <1>3 DEF CreateInsert
      <4>3. \A s \in Requests :
              pc'[s] \in CreatePC \cup {"deleteCheck", "deleteGet"} => req[s].uid = NoUser
        BY <3>4, <4>2 DEF TypeOK
      <4> QED
        BY <3>3, <4>1, <4>3
    <3>7. RowsIssued'
      <4>1. \A a \in AccessTokens :
              primary'[a] # NoRow => primary'[a].owner \in issued'[a]
        BY <2>1, <2>3, <3>1, <3>2 DEF Commit, TypeOK
      <4>2. \A a \in AccessTokens :
              replica'[a] # NoRow => replica'[a].owner \in issued'[a]
        BY <3>1, <3>3
      <4>3. ASSUME NEW i \in DOMAIN wal', wal'[i].row # NoRow
            PROVE  wal'[i].row.owner \in issued'[wal'[i].key]
        <5>1. CASE i \in DOMAIN wal /\ wal'[i] = wal[i]
          <6> wal \in Seq(WalRecord)
            BY DEF TypeOK, WalRecord
          <6>1. wal[i] \in WalRecord
            BY <5>1
          <6>2. wal[i].key \in AccessTokens
            BY <6>1 DEF WalRecord
          <6> QED
            BY <3>1, <4>3, <5>1, <6>2
        <5>2. CASE wal'[i] = [key |-> at, row |-> [owner |-> u, id |-> id],
                              by |-> u]
          BY <3>2, <5>2
        <5> QED
          BY <2>3, <5>1, <5>2, CommitRecords
      <4> QED
        BY <4>1, <4>2, <4>3
    <3> QED
      BY <3>5, <3>6, <3>7
  <2> QED
    BY <1>3, <2>2, <2>3 DEF CreateInsert
<1>4. ASSUME NEW r \in Requests, CreateCache(r) PROVE IssueInv'
  <2>1. req[r].at \in AccessTokens /\ req[r].user \in issued[req[r].at]
    BY <1>4 DEF CreateCache, InHand
  <2> QED
    BY <1>4, <2>1 DEF CreateCache, SetCache, RedisFault, Goto, TypeOK
<1>5. ASSUME NEW r \in Requests, CreateReadBack(r) \/ DeleteGet(r)
      PROVE  IssueInv'
  <2>1. req[r].uid = NoUser /\ UNCHANGED <<repoVars, cache, history>>
    BY <1>5 DEF CreateReadBack, DeleteGet
  <2>2. /\ \A s \in Requests \ {r} : pc'[s] = pc[s] /\ req'[s] = req[s]
        /\ req'[r].uid = NoUser
        /\ pc'[r] \in {"created", "createFailed", "deleteUncache", "deleteFailed"}
    BY <1>5, <2>1 DEF CreateReadBack, DeleteGet, Goto, TypeOK, Req
  <2> QED
    BY <2>1, <2>2
<1>6. ASSUME NEW r \in Requests, DeleteUncache(r) PROVE IssueInv'
  BY <1>6 DEF DeleteUncache, SetCache, RedisFault, Goto, TypeOK
<1>7. ASSUME NEW r \in Requests, DeleteRow(r) PROVE IssueInv'
  <2>1. UNCHANGED <<cache, req, history>>
    BY <1>7 DEF DeleteRow
  <2>2. /\ \A s \in Requests \ {r} : pc'[s] = pc[s]
        /\ pc'[r] \in {"deleted", "deleteFailed"}
    BY <1>7 DEF DeleteRow, Goto, TypeOK
  <2>3. CASE UNCHANGED repoVars
    BY <2>1, <2>2, <2>3
  <2>4. ASSUME NEW at \in AccessTokens, Commit(at, NoRow, req[r].user)
        PROVE  IssueInv'
    <3>1. \A a \in AccessTokens :
            primary'[a] # NoRow => primary'[a] = primary[a]
      BY <2>4 DEF Commit, TypeOK
    <3>2. \A i \in DOMAIN wal' :
            wal'[i].row # NoRow => i \in DOMAIN wal /\ wal'[i] = wal[i]
      BY <2>4, CommitRecords
    <3>3. replica' = replica
      BY <2>4 DEF Commit
    <3> QED
      BY <2>1, <2>2, <3>1, <3>2, <3>3
  <2> QED
    BY <1>7, <2>3, <2>4 DEF DeleteRow, Named
<1>8. ASSUME NEW r \in Requests, ValidateCache(r) PROVE IssueInv'
  <2>1. req[r].at \in AccessTokens /\ UNCHANGED <<repoVars, cache, history>>
    BY <1>8 DEF ValidateCache, InHand, ValidatePC
  <2>2. /\ \A s \in Requests \ {r} : pc'[s] = pc[s] /\ req'[s] = req[s]
        /\ req'[r].at = req[r].at
        /\ \/ req'[r].uid = req[r].uid
           \/ req'[r].uid = cache[req[r].at]
        /\ pc'[r] \in {"validatePin", "validateLookup"}
    BY <1>8 DEF ValidateCache, Goto, TypeOK, Req
  <2> QED
    BY <2>1, <2>2
<1>9. ASSUME NEW r \in Requests, ValidateLookup(r) PROVE IssueInv'
  <2>1. req[r].at \in AccessTokens /\ UNCHANGED <<repoVars, cache, history>>
    BY <1>9 DEF ValidateLookup, InHand, ValidatePC
  <2>2. /\ \A s \in Requests \ {r} : pc'[s] = pc[s] /\ req'[s] = req[s]
        /\ req'[r].at = req[r].at
        /\ \/ req'[r].uid = req[r].uid
           \/ \E t \in {primary, replica} : /\ t[req[r].at] # NoRow
                                           /\ req'[r].uid = t[req[r].at].owner
        /\ pc'[r] \in {"validateFill", "rejected"}
    BY <1>9, SnapshotsAreTables DEF ValidateLookup, Goto, TypeOK, Req
  <2> QED
    BY <2>1, <2>2
<1>10. ASSUME NEW r \in Requests, ValidateFill(r) PROVE IssueInv'
  BY <1>10 DEF ValidateFill, SetCache, RedisFault, Goto, TypeOK
<1>11. ASSUME NEW r \in Requests, Finish(r) \/ Abort(r) PROVE IssueInv'
  <2>1. NoReq.uid = NoUser
    BY DEF NoReq
  <2>2. /\ \A s \in Requests \ {r} : pc'[s] = pc[s] /\ req'[s] = req[s]
        /\ pc'[r] = "idle" /\ req'[r] = NoReq
        /\ UNCHANGED <<repoVars, cache, history>>
    BY <1>11 DEF Finish, Abort, Goto, TypeOK
  <2> QED
    BY <2>1, <2>2
<1>12. ASSUME Replicate, UNCHANGED <<cache, reqVars, history>> PROVE IssueInv'
  <2>1. 1 \in DOMAIN wal /\ Head(wal) = wal[1]
    BY <1>12 DEF Replicate, TypeOK
  <2>2. \A at \in AccessTokens :
          \/ replica'[at] = replica[at]
          \/ wal[1].key = at /\ replica'[at] = wal[1].row
    BY <1>12, <2>1 DEF Replicate, TypeOK
  <2>3. \A i \in DOMAIN wal' : \E j \in DOMAIN wal : wal'[i] = wal[j]
    BY <1>12, ReplicateRecords
  <2>4. UNCHANGED <<primary, cache, pc, req, issued>>
    BY <1>12 DEF Replicate, reqVars
  <2>5. RowsIssued'
    BY <2>1, <2>2, <2>3, <2>4
  <2> QED
    BY <2>4, <2>5
<1>13. ASSUME NEW u \in Users \cup {NoUser}, PinExpire(u, Writing(u)),
              UNCHANGED <<cache, reqVars, history>>
       PROVE  IssueInv'
  BY <1>13 DEF PinExpire, reqVars
<1>14. ASSUME NEW at \in AccessTokens, CacheExpire(at) \/ TokenExpire(at)
       PROVE  IssueInv'
  BY <1>14 DEF CacheExpire, TokenExpire, SetCache, TypeOK, reqVars
<1>15. CASE UNCHANGED vars
  BY <1>15 DEF vars, reqVars
<1> QED
  BY <1>1, <1>2, <1>3, <1>4, <1>5, <1>6, <1>7, <1>8, <1>9, <1>10, <1>11,
     <1>12, <1>13, <1>14, <1>15 DEF Next, Proceed, Backend

LEMMA Inductive == Spec => [](TypeInv /\ IssueInv)
<1>1. Init => TypeInv /\ IssueInv
  BY InitTypeInv, InitIssueInv
<1>2. TypeInv /\ IssueInv /\ [Next]_vars => (TypeInv /\ IssueInv)'
  BY NextTypeInv, NextIssueInv
<1> QED
  BY <1>1, <1>2, PTL DEF Spec

\* The cache of setAPITokenToCache, and every validation, names a user the
\* token was inserted for, even when Redis fails, requests die half-way and two
\* requests draw the same token.
THEOREM IssuedOwners == Spec => []OnlyIssuedOwners
<1>1. IssueInv => OnlyIssuedOwners
  BY DEF IssueInv
<1> QED
  BY <1>1, Inductive, PTL

-----------------------------------------------------------------------------
\* The service implements TokenAuthority, unless the token generator races

Drawing == {"createPin", "createInsert"}

\* GenerateToken gave the string to one request, which alone inserts it.
SingleIssue ==
  /\ \A at \in AccessTokens : \A u, v \in issued[at] : u = v
  /\ \A r \in Requests : pc[r] \in Drawing => issued[req[r].at] = {}
  /\ \A r, s \in Requests :
       pc[r] \in Drawing /\ pc[s] \in Drawing /\ req[r].at = req[s].at => r = s

LEMMA InitSingleIssue == Init => SingleIssue
  BY DEF Init, SingleIssue, Drawing

LEMMA NextSingleIssue ==
  ASSUME "rng" \notin Environment
  PROVE  TypeInv /\ SingleIssue /\ [Next]_vars => SingleIssue'
<1> SUFFICES ASSUME TypeInv, SingleIssue, [Next]_vars PROVE SingleIssue'
  OBVIOUS
<1> USE DEF SingleIssue, Drawing, TypeInv, history
<1>1. ASSUME NEW r \in Requests, CreateToken(r) PROVE SingleIssue'
  <2>1. PICK u \in Users, id \in Ids, at \in GeneratedTokens :
          /\ Arrive(r, "createPin",
                    [NoReq EXCEPT !.user = u, !.id = id, !.at = at])
          /\ UNCHANGED <<repoVars, cache, history>>
    BY <1>1 DEF CreateToken
  <2>2. [NoReq EXCEPT !.user = u, !.id = id, !.at = at].at = at
    BY DEF NoReq
  <2>3. /\ at \in AccessTokens /\ issued[at] = {}
        /\ \A s \in Requests : pc[s] \in Drawing => req[s].at # at
    BY DEF GeneratedTokens, CreatePC
  <2>4. /\ req'[r].at = at /\ issued' = issued
        /\ \A s \in Requests \ {r} : pc'[s] = pc[s] /\ req'[s] = req[s]
    BY <2>1, <2>2 DEF Arrive, Goto, TypeOK
  <2> QED
    BY <2>3, <2>4
<1>2. ASSUME NEW r \in Requests, CreateInsert(r) PROVE SingleIssue'
  <2>1. /\ req[r].at \in AccessTokens /\ issued[req[r].at] = {}
        /\ pc[r] = "createInsert" /\ req' = req
    BY <1>2 DEF CreateInsert, InHand, CreatePC
  <2>2. /\ pc'[r] \notin Drawing
        /\ \A s \in Requests \ {r} : pc'[s] = pc[s]
    BY <1>2 DEF CreateInsert, Goto, TypeOK
  <2>3. \A at \in AccessTokens :
          \/ issued'[at] = issued[at]
          \/ at = req[r].at /\ issued'[at] = {req[r].user}
    BY <1>2, <2>1 DEF CreateInsert, TypeOK
  <2>4. \A s \in Requests : pc[s] \in Drawing => req[s].at \in AccessTokens
    BY DEF InHand, CreatePC
  <2>5. \A at \in AccessTokens : \A u, v \in issued'[at] : u = v
    BY <2>3
  <2>6. \A s \in Requests : pc'[s] \in Drawing => issued'[req'[s].at] = {}
    BY <2>1, <2>2, <2>3, <2>4
  <2> QED
    BY <2>1, <2>2, <2>5, <2>6
<1>3. ASSUME issued' = issued,
             \A s \in Requests :
               pc'[s] \in Drawing => pc[s] \in Drawing /\ req'[s] = req[s]
      PROVE  SingleIssue'
  BY <1>3
<1>4. ASSUME NEW r \in Requests, DeleteToken(r) \/ ValidateToken(r)
      PROVE  SingleIssue'
  BY <1>3, <1>4 DEF DeleteToken, ValidateToken, Arrive, Goto, TypeOK
<1>5. ASSUME NEW r \in Requests,
             \/ CreatePin(r) \/ CreateCache(r) \/ CreateReadBack(r)
             \/ DeleteCheck(r) \/ DeleteGet(r) \/ DeleteUncache(r)
             \/ DeletePin(r) \/ DeleteRow(r)
      PROVE  SingleIssue'
  BY <1>3, <1>5 DEF CreatePin, CreateCache, CreateReadBack, DeleteCheck,
     DeleteGet, DeleteUncache, DeletePin, DeleteRow, Goto, TypeOK
<1>6. ASSUME NEW r \in Requests,
             \/ ValidateCache(r) \/ ValidateLookup(r) \/ ValidateFill(r)
             \/ ValidatePin(r) \/ ValidateTouch(r) \/ ValidateUser(r)
             \/ Finish(r) \/ Abort(r)
      PROVE  SingleIssue'
  BY <1>3, <1>6 DEF ValidateCache, ValidateLookup, ValidateFill, ValidatePin,
     ValidateTouch, ValidateUser, Finish, Abort, Goto, TypeOK
<1>7. CASE Backend
  BY <1>3, <1>7 DEF Backend, CacheExpire, TokenExpire, reqVars
<1>8. CASE UNCHANGED vars
  BY <1>3, <1>8 DEF vars, reqVars
<1> QED
  BY <1>1, <1>2, <1>4, <1>5, <1>6, <1>7, <1>8 DEF Next, Proceed

Owner == [at \in AccessTokens |->
            IF primary[at] = NoRow THEN NoUser ELSE primary[at].owner]
Spent == {at \in AccessTokens : issued[at] # {}}
Verdict == [r \in Requests |->
              IF pc[r] \in Decided
              THEN [at |-> req[r].at, uid |-> req[r].uid]
              ELSE [at |-> NoToken, uid |-> NoUser]]

\* The initial states of the service map to those of the authority.
LEMMA InitRefines == Init => Authority!Init
  BY DEF Init, RepoInit, Authority!Init, Authority!Undecided, Decided

\* A step that moves no request into or out of a decision, and neither inserts
\* nor deletes a row, is a stutter.
LEMMA Stutter ==
  ASSUME UNCHANGED <<primary, issued>>,
         \A s \in Requests :
           \/ pc[s] \notin Decided /\ pc'[s] \notin Decided
           \/ pc[s] \in Decided /\ pc'[s] \in Decided /\ req'[s] = req[s]
  PROVE  UNCHANGED Authority!vars
<1>1. UNCHANGED <<Owner, Spent>>
  BY DEF Owner, Spent
<1>2. UNCHANGED Verdict
  BY DEF Verdict
<1> QED
  BY <1>1, <1>2 DEF Authority!vars, Owner, Spent, Verdict

\* Every step of the service is a step of the authority or a stutter: INSERT
\* issues, DELETE revokes, and the UPDATE of last_use_time decides.
LEMMA NextRefines ==
  TypeInv /\ IssueInv /\ SingleIssue /\ [Next]_vars
    => [Authority!Next]_(Authority!vars)
<1> SUFFICES ASSUME TypeInv, IssueInv, SingleIssue, [Next]_vars
             PROVE  [Authority!Next]_(Authority!vars)
  OBVIOUS
<1> USE ApiTokenAssumption, RepositoryAssumption DEF TypeInv, history, repoVars
<1>1. ASSUME NEW r \in Requests, CreateInsert(r)
      PROVE  [Authority!Next]_(Authority!vars)
  <2>1. PICK at \in AccessTokens, u \in Users, id \in Ids :
          /\ at = req[r].at /\ u = req[r].user /\ id = req[r].id
          /\ issued[at] = {}
    BY <1>1 DEF CreateInsert, InHand, CreatePC, SingleIssue, Drawing
  <2>2. \A s \in Requests :
          \/ pc[s] \notin Decided /\ pc'[s] \notin Decided
          \/ pc[s] \in Decided /\ pc'[s] \in Decided /\ req'[s] = req[s]
    BY <1>1 DEF CreateInsert, Goto, TypeOK, Decided
  <2>3. CASE UNCHANGED <<repoVars, issued>>
    BY <2>2, <2>3, Stutter
  <2>4. CASE /\ Commit(at, [owner |-> u, id |-> id], u)
             /\ issued' = [issued EXCEPT ![at] = @ \cup {u}]
    <3>1. [owner |-> u, id |-> id] # NoRow
      BY <2>1
    <3>2. Owner' = [Owner EXCEPT ![at] = u]
      BY <2>1, <2>4, <3>1 DEF Owner, Commit, TypeOK
    <3>3. at \notin Spent /\ Spent' = Spent \cup {at}
      <4>1. issued'[at] = {u} /\ \A a \in AccessTokens \ {at} : issued'[a] = issued[a]
        BY <2>1, <2>4 DEF TypeOK
      <4> QED
        BY <2>1, <4>1 DEF Spent
    <3>4. UNCHANGED Verdict
      BY <2>2 DEF Verdict
    <3>5. Authority!Issue(at, u)
      BY <3>2, <3>3, <3>4 DEF Authority!Issue, Owner, Spent, Verdict
    <3> QED
      BY <2>1, <3>5 DEF Authority!Next
  <2> QED
    BY <1>1, <2>1, <2>3, <2>4 DEF CreateInsert
<1>2. ASSUME NEW r \in Requests, DeleteRow(r)
      PROVE  [Authority!Next]_(Authority!vars)
  <2>1. \A s \in Requests :
          \/ pc[s] \notin Decided /\ pc'[s] \notin Decided
          \/ pc[s] \in Decided /\ pc'[s] \in Decided /\ req'[s] = req[s]
    BY <1>2 DEF DeleteRow, Goto, TypeOK, Decided
  <2>2. issued' = issued
    BY <1>2 DEF DeleteRow
  <2>3. CASE UNCHANGED repoVars
    BY <2>1, <2>2, <2>3, Stutter
  <2>4. ASSUME NEW at \in AccessTokens, primary[at] # NoRow,
               Commit(at, NoRow, req[r].user)
        PROVE  [Authority!Next]_(Authority!vars)
    <3>1. Owner' = [Owner EXCEPT ![at] = NoUser]
      BY <2>4 DEF Owner, Commit, TypeOK
    <3>2. Owner[at] # NoUser
      BY <2>4 DEF Owner, TypeOK, Row
    <3>3. UNCHANGED <<Spent, Verdict>>
      BY <2>1, <2>2 DEF Spent, Verdict
    <3>4. Authority!Revoke(at)
      BY <3>1, <3>2, <3>3 DEF Authority!Revoke, Owner, Spent, Verdict
    <3> QED
      BY <3>4 DEF Authority!Next
  <2> QED
    BY <1>2, <2>3, <2>4 DEF DeleteRow, Named
<1>3. ASSUME NEW r \in Requests, ValidateTouch(r)
      PROVE  [Authority!Next]_(Authority!vars)
  <2>1. PICK at \in AccessTokens :
          /\ at = req[r].at /\ req[r].uid \in Users
          /\ pc[r] = "validateTouch" /\ UNCHANGED <<primary, req, issued>>
    BY <1>3 DEF ValidateTouch, InHand, ValidatePC
  <2>2. CASE primary[at] = NoRow
    <3>1. pc' = [pc EXCEPT ![r] = "rejected"]
      BY <1>3, <2>1, <2>2 DEF ValidateTouch, RowsAffected, Goto
    <3> QED
      BY <2>1, <3>1, Stutter DEF Decided, TypeOK
  <2>3. CASE primary[at] # NoRow
    <3>1. pc' = [pc EXCEPT ![r] = "validateUser"]
      BY <1>3, <2>1, <2>3 DEF ValidateTouch, RowsAffected, Goto
    <3>2. primary[at].owner \in issued[at] /\ req[r].uid \in issued[at]
      BY <2>1, <2>3 DEF IssueInv, RowsIssued, OnlyIssuedOwners
    <3>3. Owner[at] = req[r].uid
      BY <2>1, <2>3, <3>2 DEF SingleIssue, Owner
    <3>4. Owner[at] # NoUser
      BY <2>1, <3>3
    <3>5. Verdict[r] = [at |-> NoToken, uid |-> NoUser]
      BY <2>1 DEF Verdict, Decided
    <3>6. Verdict' = [Verdict EXCEPT ![r] = [at |-> at, uid |-> Owner[at]]]
      BY <2>1, <3>1, <3>3 DEF Verdict, Decided, TypeOK
    <3>7. UNCHANGED <<Owner, Spent>>
      BY <2>1 DEF Owner, Spent
    <3>8. Authority!Accept(r, at)
      BY <3>4, <3>5, <3>6, <3>7
         DEF Authority!Accept, Authority!Undecided, Owner, Spent, Verdict
    <3> QED
      BY <2>1, <3>8 DEF Authority!Next
  <2> QED
    BY <2>2, <2>3
<1>4. ASSUME NEW r \in Requests, ValidateUser(r) \/ Finish(r) \/ Abort(r)
      PROVE  [Authority!Next]_(Authority!vars)
  <2>1. /\ UNCHANGED <<primary, issued>>
        /\ \A s \in Requests \ {r} : pc'[s] = pc[s] /\ req'[s] = req[s]
    BY <1>4 DEF ValidateUser, Finish, Abort, Goto, TypeOK
  <2>2. CASE pc[r] \notin Decided
    BY <1>4, <2>1, <2>2, Stutter
       DEF ValidateUser, Finish, Abort, Goto, Decided, TypeOK
  <2>3. CASE pc[r] \in Decided /\ pc'[r] \in Decided
    <3>1. req' = req
      BY <1>4, <2>3 DEF ValidateUser, Finish, Abort, Goto, Decided, TypeOK
    <3> QED
      BY <2>1, <2>3, <3>1, Stutter
  <2>4. CASE pc[r] \in Decided /\ pc'[r] \notin Decided
    <3>1. req[r].at \in AccessTokens
      BY <2>4 DEF InHand
    <3>2. Verdict[r] # [at |-> NoToken, uid |-> NoUser]
      BY <2>4, <3>1 DEF Verdict
    <3>3. Verdict' = [Verdict EXCEPT ![r] = [at |-> NoToken, uid |-> NoUser]]
      BY <2>1, <2>4 DEF Verdict
    <3>4. UNCHANGED <<Owner, Spent>>
      BY <2>1 DEF Owner, Spent
    <3>5. Authority!Forget(r)
      BY <3>2, <3>3, <3>4
         DEF Authority!Forget, Authority!Undecided, Owner, Spent, Verdict
    <3> QED
      BY <3>5 DEF Authority!Next
  <2> QED
    BY <2>2, <2>3, <2>4
<1>5. ASSUME NEW r \in Requests,
             CreateToken(r) \/ DeleteToken(r) \/ ValidateToken(r)
      PROVE  UNCHANGED Authority!vars
  BY <1>5, Stutter
     DEF CreateToken, DeleteToken, ValidateToken, Arrive, Goto, Decided, TypeOK
<1>6. ASSUME NEW r \in Requests,
             \/ CreatePin(r) \/ CreateCache(r) \/ CreateReadBack(r)
             \/ DeleteCheck(r) \/ DeleteGet(r) \/ DeleteUncache(r)
             \/ DeletePin(r)
      PROVE  UNCHANGED Authority!vars
  BY <1>6, Stutter
     DEF CreatePin, CreateCache, CreateReadBack, DeleteCheck, DeleteGet,
         DeleteUncache, DeletePin, Goto, Decided, TypeOK
<1>7. ASSUME NEW r \in Requests,
             \/ ValidateCache(r) \/ ValidateLookup(r) \/ ValidateFill(r)
             \/ ValidatePin(r)
      PROVE  UNCHANGED Authority!vars
  BY <1>7, Stutter
     DEF ValidateCache, ValidateLookup, ValidateFill, ValidatePin, Goto,
         Decided, TypeOK
<1>8. CASE Backend
  BY <1>8, Stutter
     DEF Backend, Replicate, PinExpire, CacheExpire, TokenExpire, reqVars
<1>9. CASE UNCHANGED vars
  BY <1>9, Stutter DEF vars, reqVars
<1> QED
  BY <1>1, <1>2, <1>3, <1>4, <1>5, <1>6, <1>7, <1>8, <1>9 DEF Next, Proceed

\* A token is accepted only as the one user it was issued to, and only if it is
\* in the table at the instant its use is recorded: never after its deletion,
\* however stale the cache and the replica are.  The exception is the data race
\* on the source of GenerateToken.
THEOREM Refinement ==
  ASSUME "rng" \notin Environment
  PROVE  Spec => ImplementsAuthority
<1>1. Init => SingleIssue
  BY InitSingleIssue
<1>2. TypeInv /\ SingleIssue /\ [Next]_vars => SingleIssue'
  BY NextSingleIssue
<1>3. Spec => []SingleIssue
  BY <1>1, <1>2, Inductive, PTL DEF Spec
<1> QED
  BY <1>3, Inductive, InitRefines, NextRefines, PTL
     DEF Spec, ImplementsAuthority, Authority!Spec

-----------------------------------------------------------------------------
\* What PinUser is for: as long as the time frame of a mark bounds the lag of
\* the replica and Redis answers, a request reads its own user's writes, in
\* every interleaving.

\* Every write on its way to the replica, and every write that is about to be
\* made, is by a user whose reads go to the primary.
WritersPinned ==
  /\ \A i \in DOMAIN wal : wal[i].by \in pinned
  /\ \A r \in Requests :
       pc[r] \in {"createInsert", "deleteRow"} => req[r].user \in pinned

\* The log has a write of key at by user u, after position i.
Pending(at, u, i) ==
  \E j \in DOMAIN wal : j > i /\ wal[j].key = at /\ wal[j].by = u

\* Position i of the log is the last write of key at: the row the primary has,
\* written by its owner.
Put(i, at) ==
  /\ wal[i].key = at /\ wal[i].row = primary[at] /\ wal[i].by = primary[at].owner
  /\ \A j \in DOMAIN wal : j > i => wal[j].key # at

\* Wherever the replica differs from the primary, the owner of either row has
\* a write in the log: a row that only the replica has, or is still to get, was
\* deleted by its owner; a row that only the primary has is in the log.
OwnersPending ==
  /\ \A at \in AccessTokens :
       replica[at] # NoRow /\ replica[at] # primary[at]
         => Pending(at, replica[at].owner, 0)
  /\ \A i \in DOMAIN wal :
       wal[i].row # NoRow /\ wal[i].row # primary[wal[i].key]
         => Pending(wal[i].key, wal[i].row.owner, i)
  /\ \A at \in AccessTokens :
       primary[at] # NoRow /\ (replica[at] # primary[at] \/ Lagging(at))
         => \E i \in DOMAIN wal : Put(i, at)

LagInv == WritersPinned /\ (HasReplica => OwnersPending)

LEMMA InitLagInv == Init => LagInv
  BY DEF Init, RepoInit, LagInv, WritersPinned, OwnersPending, Lagging

LEMMA LogKeys == TypeOK => \A i \in DOMAIN wal : wal[i].key \in AccessTokens
<1> SUFFICES ASSUME TypeOK, NEW i \in DOMAIN wal PROVE wal[i].key \in AccessTokens
  OBVIOUS
<1>1. wal \in Seq(WalRecord)
  BY DEF TypeOK, WalRecord
<1>2. wal[i] \in WalRecord
  BY <1>1
<1> QED
  BY <1>2 DEF WalRecord

\* The log after a write, with a replica, is the log and the write.
LEMMA CommitLog ==
  ASSUME TypeOK, HasReplica, NEW at, NEW row, NEW u, Commit(at, row, u)
  PROVE  /\ Len(wal) \in Nat /\ Len(wal') = Len(wal) + 1
         /\ DOMAIN wal = 1..Len(wal) /\ DOMAIN wal' = 1..(Len(wal) + 1)
         /\ \A i \in DOMAIN wal : i \in DOMAIN wal' /\ wal'[i] = wal[i]
         /\ wal'[Len(wal) + 1] = [key |-> at, row |-> row, by |-> u]
  BY DEF Commit, TypeOK

\* A row is written or deleted by its owner, so that a write keeps
\* OwnersPending.
LEMMA CommitPending ==
  ASSUME TypeOK, HasReplica, OwnersPending,
         NEW at \in AccessTokens, NEW row \in Row \cup {NoRow}, NEW u \in Users,
         Commit(at, row, u),
         \/ primary[at] = NoRow /\ row # NoRow /\ row.owner = u
         \/ primary[at] # NoRow /\ primary[at].owner = u /\ row = NoRow
  PROVE  OwnersPending'
<1>1. /\ primary' = [primary EXCEPT ![at] = row] /\ replica' = replica
      /\ primary'[at] = row
      /\ \A a \in AccessTokens \ {at} : primary'[a] = primary[a]
  BY DEF Commit, TypeOK
<1>2. PICK new \in DOMAIN wal' :
        /\ DOMAIN wal' = DOMAIN wal \cup {new} /\ new \in Nat
        /\ \A i \in DOMAIN wal : i \in 1..(new - 1) /\ wal'[i] = wal[i]
        /\ wal'[new] = [key |-> at, row |-> row, by |-> u] /\ new > 0
  <2>1. /\ Len(wal) \in Nat /\ DOMAIN wal = 1..Len(wal)
        /\ DOMAIN wal' = 1..(Len(wal) + 1)
        /\ \A i \in DOMAIN wal : wal'[i] = wal[i]
        /\ wal'[Len(wal) + 1] = [key |-> at, row |-> row, by |-> u]
    BY CommitLog
  <2>2. 1..(Len(wal) + 1) = (1..Len(wal)) \cup {Len(wal) + 1}
    BY <2>1
  <2> QED
    BY <2>1, <2>2
<1>3. \A i \in DOMAIN wal : wal[i].key \in AccessTokens
  BY LogKeys
<1>4. \A a \in AccessTokens : \A v, i : Pending(a, v, i) => Pending(a, v, i)'
  BY <1>2 DEF Pending
<1>6. ASSUME NEW a \in AccessTokens, replica'[a] # NoRow, replica'[a] # primary'[a]
      PROVE  Pending(a, replica[a].owner, 0)'
  <2>1. CASE replica[a] # primary[a]
    BY <1>1, <1>4, <1>6, <2>1 DEF OwnersPending
  <2>2. CASE replica[a] = primary[a]
    <3>1. a = at /\ replica[a].owner = u
      BY <1>1, <1>6, <2>2
    <3> QED
      BY <1>1, <1>2, <3>1 DEF Pending
  <2> QED
    BY <2>1, <2>2
<1>7. ASSUME NEW i \in DOMAIN wal', wal'[i].row # NoRow,
             wal'[i].row # primary'[wal'[i].key]
      PROVE  Pending(wal[i].key, wal[i].row.owner, i)'
  <2>1. i \in DOMAIN wal /\ wal'[i] = wal[i]
    BY <1>1, <1>2, <1>7
  <2>2. CASE wal[i].row # primary[wal[i].key]
    BY <1>3, <1>4, <1>7, <2>1, <2>2 DEF OwnersPending
  <2>3. CASE wal[i].row = primary[wal[i].key]
    <3>1. wal[i].key = at /\ wal[i].row.owner = u
      BY <1>1, <1>3, <1>7, <2>1, <2>3
    <3> QED
      BY <1>2, <2>1, <3>1 DEF Pending
  <2> QED
    BY <2>2, <2>3
<1>8. ASSUME NEW a \in AccessTokens, primary'[a] # NoRow,
             replica'[a] # primary'[a] \/ Lagging(a)'
      PROVE  \E i \in DOMAIN wal' : Put(i, a)'
  <2>1. CASE a = at
    <3>1. row # NoRow /\ row.owner = u /\ primary'[a] = row
      BY <1>1, <1>8, <2>1
    <3>2. \A j \in DOMAIN wal' : ~(j > new)
      BY <1>2
    <3>3. Put(new, a)'
      BY <1>2, <2>1, <3>1, <3>2 DEF Put
    <3> QED
      BY <1>2, <3>3
  <2>2. CASE a # at
    <3>1. replica[a] # primary[a] \/ Lagging(a)
      BY <1>1, <1>2, <1>8, <2>2 DEF Lagging
    <3>2. PICK i \in DOMAIN wal : Put(i, a)
      BY <1>1, <1>8, <2>2, <3>1 DEF OwnersPending
    <3>3. Put(i, a)'
      BY <1>1, <1>2, <2>2, <3>2 DEF Put
    <3> QED
      BY <1>2, <3>3
  <2> QED
    BY <2>1, <2>2
<1> QED
  BY <1>1, <1>6, <1>7, <1>8 DEF OwnersPending

\* The replica's step takes the first write off the log.
LEMMA ReplicatePending ==
  ASSUME TypeOK, OwnersPending, Replicate
  PROVE  OwnersPending'
<1>1. /\ Len(wal) \in Nat \ {0} /\ DOMAIN wal = 1..Len(wal)
      /\ DOMAIN wal' = 1..(Len(wal) - 1)
      /\ \A i \in DOMAIN wal' : wal'[i] = wal[i + 1]
      /\ Head(wal) = wal[1]
  BY DEF Replicate, TypeOK
<1>2. /\ primary' = primary /\ wal[1].key \in AccessTokens
      /\ replica'[wal[1].key] = wal[1].row
      /\ \A at \in AccessTokens \ {wal[1].key} : replica'[at] = replica[at]
  <2>1. wal[1].key \in AccessTokens
    BY <1>1, LogKeys
  <2> QED
    BY <1>1, <2>1 DEF Replicate, TypeOK
<1>3. ASSUME NEW at, NEW u, NEW i \in Nat, Pending(at, u, i + 1)
      PROVE  Pending(at, u, i)'
  <2>1. PICK j \in DOMAIN wal : j > i + 1 /\ wal[j].key = at /\ wal[j].by = u
    BY <1>3 DEF Pending
  <2>2. j - 1 \in DOMAIN wal' /\ wal'[j - 1] = wal[j] /\ j - 1 > i
    BY <1>1, <2>1
  <2> QED
    BY <2>1, <2>2 DEF Pending
<1>4. ASSUME NEW at \in AccessTokens, replica'[at] # NoRow, replica'[at] # primary'[at]
      PROVE  Pending(at, replica[at].owner, 0)'
  <2>1. CASE at = wal[1].key
    <3>1. Pending(at, wal[1].row.owner, 1)
      BY <1>1, <1>2, <1>4, <2>1 DEF OwnersPending
    <3> QED
      BY <1>2, <1>3, <2>1, <3>1
  <2>2. CASE at # wal[1].key
    <3>1. Pending(at, replica[at].owner, 0)
      BY <1>2, <1>4, <2>2 DEF OwnersPending
    <3>2. Pending(at, replica[at].owner, 1)
      BY <1>1, <2>2, <3>1 DEF Pending
    <3> QED
      BY <1>2, <1>3, <2>2, <3>2
  <2> QED
    BY <2>1, <2>2
<1>5. ASSUME NEW i \in DOMAIN wal', wal'[i].row # NoRow,
             wal'[i].row # primary'[wal'[i].key]
      PROVE  Pending(wal[i].key, wal[i].row.owner, i)'
  <2>1. i + 1 \in DOMAIN wal /\ i \in Nat /\ wal'[i] = wal[i + 1]
    BY <1>1
  <2>2. Pending(wal[i + 1].key, wal[i + 1].row.owner, i + 1)
    BY <1>2, <1>5, <2>1 DEF OwnersPending
  <2> QED
    BY <1>3, <2>1, <2>2
<1>6. ASSUME NEW at \in AccessTokens, primary'[at] # NoRow,
             replica'[at] # primary'[at] \/ Lagging(at)'
      PROVE  \E i \in DOMAIN wal' : Put(i, at)'
  <2>1. replica[at] # primary[at] \/ Lagging(at)
    BY <1>1, <1>2, <1>6 DEF Lagging
  <2>2. PICK i \in DOMAIN wal : Put(i, at)
    BY <1>2, <1>6, <2>1 DEF OwnersPending
  <2>3. CASE i = 1
    <3>1. replica'[at] = primary'[at] /\ ~Lagging(at)'
      BY <1>1, <1>2, <2>2, <2>3 DEF Put, Lagging
    <3> QED
      BY <1>6, <3>1
  <2>4. CASE i # 1
    <3>1. i - 1 \in DOMAIN wal' /\ wal'[i - 1] = wal[i]
      BY <1>1, <2>4
    <3>2. Put(i - 1, at)'
      BY <1>1, <1>2, <2>2, <3>1 DEF Put
    <3> QED
      BY <3>1, <3>2
  <2> QED
    BY <2>3, <2>4
<1> QED
  BY <1>4, <1>5, <1>6 DEF OwnersPending

-----------------------------------------------------------------------------
\* The invariant

LEMMA NextLagInv ==
  ASSUME TimelyReplication, "redis" \notin Environment
  PROVE  TypeInv /\ LagInv /\ [Next]_vars => LagInv'
<1> SUFFICES ASSUME TypeInv, LagInv, [Next]_vars PROVE LagInv'
  OBVIOUS
<1> USE ApiTokenAssumption, RepositoryAssumption DEF TypeInv, repoVars, history
<1> DEFINE Writes == {"createInsert", "deleteRow"}
<1>1. ASSUME UNCHANGED <<primary, replica, wal>>, pinned \subseteq pinned',
             \A r \in Requests :
               pc'[r] \in Writes =>
                 \/ req'[r].user \in pinned'
                 \/ pc[r] \in Writes /\ req'[r].user = req[r].user
      PROVE  LagInv'
  <2>1. WritersPinned'
    BY <1>1 DEF LagInv, WritersPinned
  <2>2. OwnersPending => OwnersPending'
    BY <1>1 DEF OwnersPending, Pending, Put, Lagging
  <2> QED
    BY <2>1, <2>2 DEF LagInv
<1>2. ASSUME NEW r \in Requests, NEW u \in Users \cup {NoUser}, PinUser(u)
      PROVE  pinned' = pinned \cup {u}
  BY <1>2 DEF PinUser, RedisMayFail
<1>3. ASSUME NEW r \in Requests, CreatePin(r) \/ DeletePin(r)
      PROVE  LagInv'
  <2>1. req[r].user \in Users /\ UNCHANGED <<primary, replica, wal, req>>
    BY <1>3 DEF CreatePin, DeletePin, InHand, CreatePC, DeletePC
  <2>2. pinned' = pinned \cup {req[r].user}
    BY <1>2, <1>3, <2>1 DEF CreatePin, DeletePin
  <2>3. \A s \in Requests \ {r} : pc'[s] = pc[s]
    BY <1>3 DEF CreatePin, DeletePin, Goto, TypeOK
  <2> QED
    BY <1>1, <2>1, <2>2, <2>3
<1>4. ASSUME NEW r \in Requests, ValidatePin(r)
      PROVE  LagInv'
  <2>1. pinned' = pinned \cup {NoUser} /\ UNCHANGED <<primary, replica, wal, req>>
    BY <1>2, <1>4 DEF ValidatePin
  <2>2. /\ pc'[r] = "validateTouch"
        /\ \A s \in Requests \ {r} : pc'[s] = pc[s]
    BY <1>4 DEF ValidatePin, Goto, TypeOK
  <2> QED
    BY <1>1, <2>1, <2>2
<1>5. ASSUME NEW r \in Requests, NEW at \in AccessTokens,
             NEW row \in Row \cup {NoRow}, Commit(at, row, req[r].user),
             pc[r] \in Writes, req[r].user \in Users,
             \/ primary[at] = NoRow /\ row # NoRow /\ row.owner = req[r].user
             \/ primary[at] # NoRow /\ primary[at].owner = req[r].user /\ row = NoRow,
             pc'[r] \notin Writes, \A s \in Requests \ {r} : pc'[s] = pc[s],
             UNCHANGED <<req, pinned>>
      PROVE  LagInv'
  <2>1. HasReplica => (OwnersPending => OwnersPending')
    BY <1>5, CommitPending
  <2>2. \A i \in DOMAIN wal' : wal'[i].by \in pinned
    <3>1. req[r].user \in pinned
      BY <1>5 DEF LagInv, WritersPinned
    <3> QED
      BY <1>5, <3>1, CommitRecords DEF LagInv, WritersPinned
  <2>3. WritersPinned'
    BY <1>5, <2>2 DEF LagInv, WritersPinned
  <2> QED
    BY <2>1, <2>3 DEF LagInv
<1>6. ASSUME NEW r \in Requests, CreateInsert(r)
      PROVE  LagInv'
  <2> DEFINE at == req[r].at
             row == [owner |-> req[r].user, id |-> req[r].id]
  <2>1. /\ pc[r] = "createInsert" /\ UNCHANGED req
        /\ at \in AccessTokens /\ req[r].user \in Users /\ req[r].id \in Ids
        /\ \A s \in Requests \ {r} : pc'[s] = pc[s]
        /\ pc'[r] \in {"createFailed", "createCache"}
    BY <1>6 DEF CreateInsert, InHand, CreatePC, Goto, TypeOK
  <2>2. CASE UNCHANGED repoVars
    BY <1>1, <2>1, <2>2
  <2>3. CASE ~Conflicts(at, req[r].user, req[r].id) /\ Commit(at, row, req[r].user)
              /\ UNCHANGED pinned
    <3>1. row \in Row /\ row # NoRow /\ row.owner = req[r].user /\ primary[at] = NoRow
      BY <2>1, <2>3 DEF Row, Conflicts
    <3> QED
      BY <1>5, <2>1, <2>3, <3>1
  <2> QED
    BY <1>6, <2>2, <2>3 DEF CreateInsert
<1>7. ASSUME NEW r \in Requests, DeleteRow(r)
      PROVE  LagInv'
  <2>1. /\ pc[r] = "deleteRow" /\ UNCHANGED req
        /\ req[r].user \in Users
        /\ \A s \in Requests \ {r} : pc'[s] = pc[s]
        /\ pc'[r] \in {"deleted", "deleteFailed"}
    BY <1>7 DEF DeleteRow, InHand, DeletePC, Goto, TypeOK
  <2>2. CASE UNCHANGED repoVars
    BY <1>1, <2>1, <2>2
  <2>3. ASSUME NEW at \in Named(primary, req[r].user, req[r].id),
               Commit(at, NoRow, req[r].user), UNCHANGED pinned
        PROVE  LagInv'
    BY <1>5, <2>1, <2>3 DEF Named
  <2> QED
    BY <1>7, <2>2, <2>3 DEF DeleteRow
<1>8. ASSUME NEW r \in Requests,
             CreateToken(r) \/ DeleteToken(r) \/ ValidateToken(r)
      PROVE  LagInv'
  <2>1. /\ UNCHANGED repoVars /\ pc'[r] \notin Writes
        /\ \A s \in Requests \ {r} : pc'[s] = pc[s] /\ req'[s] = req[s]
    BY <1>8 DEF CreateToken, DeleteToken, ValidateToken, Arrive, Goto, TypeOK
  <2> QED
    BY <1>1, <2>1
<1>9. ASSUME NEW r \in Requests,
             \/ CreateCache(r) \/ CreateReadBack(r) \/ DeleteCheck(r) \/ DeleteGet(r)
             \/ DeleteUncache(r) \/ Finish(r) \/ Abort(r)
      PROVE  LagInv'
  <2>1. /\ UNCHANGED repoVars /\ pc'[r] \notin Writes
        /\ \A s \in Requests \ {r} : pc'[s] = pc[s] /\ req'[s] = req[s]
    BY <1>9 DEF CreateCache, CreateReadBack, DeleteCheck, DeleteGet, DeleteUncache,
       Finish, Abort, Goto, TypeOK
  <2> QED
    BY <1>1, <2>1
<1>10. ASSUME NEW r \in Requests,
              \/ ValidateCache(r) \/ ValidateLookup(r) \/ ValidateFill(r)
              \/ ValidateTouch(r) \/ ValidateUser(r)
       PROVE  LagInv'
  <2>1. /\ UNCHANGED repoVars /\ pc'[r] \notin Writes
        /\ \A s \in Requests \ {r} : pc'[s] = pc[s] /\ req'[s] = req[s]
    BY <1>10 DEF ValidateCache, ValidateLookup, ValidateFill, ValidateTouch,
       ValidateUser, Goto, TypeOK
  <2> QED
    BY <1>1, <2>1
<1>11. ASSUME Replicate, UNCHANGED <<cache, reqVars, history>>
       PROVE  LagInv'
  <2>1. OwnersPending => OwnersPending'
    BY <1>11, ReplicatePending
  <2>2. \A i \in DOMAIN wal' : wal'[i].by \in pinned
    BY <1>11, ReplicateRecords DEF LagInv, WritersPinned
  <2>3. WritersPinned'
    BY <1>11, <2>2 DEF LagInv, WritersPinned, Replicate, reqVars
  <2> QED
    BY <2>1, <2>3 DEF LagInv
\* A mark expires when its user's writes have been made and applied.
<1>12. ASSUME NEW u \in Users \cup {NoUser}, PinExpire(u, Writing(u)),
              UNCHANGED <<cache, reqVars, history>>
       PROVE  LagInv'
  <2>1. /\ UNCHANGED <<primary, replica, wal, pc, req>> /\ pinned' = pinned \ {u}
        /\ ~Writing(u) /\ \A i \in DOMAIN wal : wal[i].by # u
    BY <1>12 DEF PinExpire, reqVars
  <2>2. WritersPinned'
    BY <2>1 DEF LagInv, WritersPinned, Writing
  <2>3. OwnersPending => OwnersPending'
    BY <2>1 DEF OwnersPending, Pending, Put, Lagging
  <2> QED
    BY <2>2, <2>3 DEF LagInv
<1>13. ASSUME NEW at \in AccessTokens, CacheExpire(at) \/ TokenExpire(at)
       PROVE  LagInv'
  BY <1>1, <1>13 DEF CacheExpire, TokenExpire, reqVars
<1>14. CASE UNCHANGED vars
  BY <1>1, <1>14 DEF vars, reqVars
<1> QED
  BY <1>3, <1>4, <1>6, <1>7, <1>8, <1>9, <1>10, <1>11, <1>12, <1>13, <1>14
     DEF Next, Proceed, Backend

\* What a request reads for its own user: the primary's rows, or rows of a
\* replica that differs for others only.
LEMMA OwnReads ==
  ASSUME TypeInv, LagInv, "redis" \notin Environment, NEW u \in Users, NEW id \in Ids,
         NEW t \in Snapshots(u)
  PROVE  Named(t, u, id) = Named(primary, u, id)
<1>1. CASE t = primary
  BY <1>1
<1>2. CASE HasReplica /\ u \notin pinned /\ t = replica
  <2>1. \A at \in AccessTokens : \A i : ~Pending(at, u, i)
    BY <1>2 DEF Pending, LagInv, WritersPinned
  <2>2. ASSUME NEW at \in Named(replica, u, id), replica[at] # primary[at]
        PROVE  FALSE
    BY <1>2, <2>1, <2>2 DEF LagInv, OwnersPending, Named
  <2>3. ASSUME NEW at \in Named(primary, u, id), replica[at] # primary[at]
        PROVE  FALSE
    <3>1. PICK i \in DOMAIN wal : Put(i, at)
      BY <1>2, <2>3 DEF LagInv, OwnersPending, Named
    <3> QED
      BY <1>2, <2>3, <3>1 DEF Put, Named, LagInv, WritersPinned
  <2> QED
    BY <1>2, <2>2, <2>3 DEF Named
<1> QED
  BY <1>1, <1>2 DEF Snapshots, RedisMayFail

LEMMA AnsweredByReadBack ==
  ASSUME TypeOK, Next, NEW r \in Requests,
         pc[r] = "createReadBack", pc'[r] \in {"created", "createFailed"}
  PROVE  CreateReadBack(r)
<1>1. PICK s \in Requests :
        CreateToken(s) \/ DeleteToken(s) \/ ValidateToken(s) \/ Proceed(s) \/ Abort(s)
  <2>1. ~Backend
    BY DEF Backend, CacheExpire, TokenExpire, reqVars
  <2> QED
    BY <2>1 DEF Next
<1>2. ~(CreateToken(s) \/ DeleteToken(s) \/ ValidateToken(s) \/ Abort(s))
  BY DEF CreateToken, DeleteToken, ValidateToken, Abort, Arrive, Goto, TypeOK
<1>3. CASE s = r
  BY <1>1, <1>2, <1>3
     DEF Proceed, CreatePin, CreateInsert, CreateCache, DeleteCheck, DeleteGet,
         DeleteUncache, DeletePin, DeleteRow, ValidateCache, ValidateLookup,
         ValidateFill, ValidatePin, ValidateTouch, ValidateUser, Finish, DonePC
<1>4. CASE s # r
  <2>1. ASSUME \/ CreatePin(s) \/ CreateInsert(s) \/ CreateCache(s) \/ CreateReadBack(s)
               \/ DeleteCheck(s) \/ DeleteGet(s) \/ DeleteUncache(s) \/ DeletePin(s)
               \/ DeleteRow(s)
        PROVE  pc'[r] = pc[r]
    BY <1>4, <2>1
       DEF CreatePin, CreateInsert, CreateCache, CreateReadBack, DeleteCheck, DeleteGet,
           DeleteUncache, DeletePin, DeleteRow, Goto, TypeOK
  <2>2. ASSUME \/ ValidateCache(s) \/ ValidateLookup(s) \/ ValidateFill(s)
               \/ ValidatePin(s) \/ ValidateTouch(s) \/ ValidateUser(s) \/ Finish(s)
        PROVE  pc'[r] = pc[r]
    BY <1>4, <2>2
       DEF ValidateCache, ValidateLookup, ValidateFill, ValidatePin, ValidateTouch,
           ValidateUser, Finish, Goto, TypeOK
  <2> QED
    BY <1>1, <1>2, <2>1, <2>2 DEF Proceed
<1> QED
  BY <1>3, <1>4

\* repository.go:102-104 and publichandler.go:323: what CreateToken answers is
\* true of the table at that moment, however many requests create and delete
\* tokens of the same name, and whichever of them die.
THEOREM ReadBack ==
  ASSUME TimelyReplication, "redis" \notin Environment
  PROVE  Spec => ReadBackIsCurrent
<1>1. TypeInv /\ LagInv /\ [Next]_vars =>
        [\A r \in Requests :
           /\ pc[r] = "createReadBack" /\ pc'[r] = "created"
                => req'[r].at \in Named(primary, req[r].user, req[r].id)
           /\ pc[r] = "createReadBack" /\ pc'[r] = "createFailed"
                => Named(primary, req[r].user, req[r].id) = {}]_vars
  <2> SUFFICES ASSUME TypeInv, LagInv, Next, NEW r \in Requests,
                      pc[r] = "createReadBack", pc'[r] \in {"created", "createFailed"}
               PROVE  /\ pc'[r] = "created"
                           => req'[r].at \in Named(primary, req[r].user, req[r].id)
                      /\ pc'[r] = "createFailed"
                           => Named(primary, req[r].user, req[r].id) = {}
    OBVIOUS
  <2>1. CreateReadBack(r)
    BY AnsweredByReadBack DEF TypeInv
  <2>2. req[r].user \in Users /\ req[r].id \in Ids
    BY DEF TypeInv, InHand, CreatePC
  <2> QED
    BY <2>1, <2>2, OwnReads DEF CreateReadBack, Goto, TypeInv, TypeOK, Req
<1>2. Spec => [](TypeInv /\ LagInv)
  <2>1. Init => TypeInv /\ LagInv
    BY InitTypeInv, InitLagInv
  <2>2. TypeInv /\ LagInv /\ [Next]_vars => (TypeInv /\ LagInv)'
    BY NextTypeInv, NextLagInv
  <2> QED
    BY <2>1, <2>2, PTL DEF Spec
<1> QED
  BY <1>1, <1>2, PTL DEF Spec, ReadBackIsCurrent
-----------------------------------------------------------------------------
\* What the cache entry of a new token is for.  A string is drawn once here, and
\* no request dies: a token that is inserted and not cached, or removed from
\* the cache and not deleted, is what a lagging replica cannot make up for.

\* As long as the primary has a row, every copy of it is that row.
OneRow ==
  /\ \A at \in AccessTokens :
       primary[at] # NoRow /\ replica[at] # NoRow => replica[at] = primary[at]
  /\ \A i \in DOMAIN wal :
       wal[i].row # NoRow /\ primary[wal[i].key] # NoRow
         => wal[i].row = primary[wal[i].key]

\* The unique index of migration 000002.
OneName ==
  \A a, b \in AccessTokens : primary[a] # NoRow /\ primary[a] = primary[b] => a = b

Deleting == {"deleteUncache", "deletePin", "deleteRow"}

\* The token DeleteToken takes out of the cache is the one it deletes, unless
\* that is gone.
DeletesWhatItRead ==
  \A r \in Requests :
    pc[r] \in Deleting =>
      /\ issued[req[r].at] # {}
      /\ primary[req[r].at] # NoRow =>
           req[r].at \in Named(primary, req[r].user, req[r].id)

RowsInv == OneRow /\ OneName /\ DeletesWhatItRead

LEMMA InitRowsInv == Init => RowsInv
  BY DEF Init, RepoInit, RowsInv, OneRow, OneName, DeletesWhatItRead, Deleting

\* The tables and the log after a write.
LEMMA CommitTables ==
  ASSUME TypeOK, NEW at \in AccessTokens, NEW row, NEW u, Commit(at, row, u)
  PROVE  /\ primary'[at] = row /\ replica' = replica
         /\ \A a \in AccessTokens \ {at} : primary'[a] = primary[a]
         /\ \A i \in DOMAIN wal' :
              \/ i \in DOMAIN wal /\ wal'[i] = wal[i]
              \/ wal'[i].key = at /\ wal'[i].row = row
<1>1. \A i \in DOMAIN wal' :
        \/ i \in DOMAIN wal /\ wal'[i] = wal[i]
        \/ wal'[i] = [key |-> at, row |-> row, by |-> u]
  BY CommitRecords
<1> QED
  BY <1>1 DEF Commit, TypeOK

\* The tables after the first write has been taken off the log.
LEMMA ReplicateTables ==
  ASSUME TypeOK, Replicate
  PROVE  /\ 1 \in DOMAIN wal /\ primary' = primary /\ wal[1].key \in AccessTokens
         /\ replica'[wal[1].key] = wal[1].row
         /\ \A a \in AccessTokens \ {wal[1].key} : replica'[a] = replica[a]
         /\ \A i \in DOMAIN wal' : i + 1 \in DOMAIN wal /\ wal'[i] = wal[i + 1]
<1>1. 1 \in DOMAIN wal /\ Head(wal) = wal[1]
  BY DEF Replicate, TypeOK
<1>2. wal[1].key \in AccessTokens
  BY <1>1, LogKeys
<1> QED
  BY <1>1, <1>2, ReplicateRecords DEF Replicate, TypeOK

LEMMA NextRowsInv ==
  TypeInv /\ IssueInv /\ SingleIssue /\ RowsInv /\ [Next]_vars => RowsInv'
<1> SUFFICES ASSUME TypeInv, IssueInv, SingleIssue, RowsInv, [Next]_vars PROVE RowsInv'
  OBVIOUS
<1>0. TypeOK /\ \A i \in DOMAIN wal : wal[i].key \in AccessTokens
  BY LogKeys DEF TypeInv
<1>1. ASSUME UNCHANGED <<primary, replica, wal, issued>>,
             \A s \in Requests :
               pc'[s] \in Deleting => pc[s] \in Deleting /\ req'[s] = req[s]
      PROVE  RowsInv'
  BY <1>1 DEF RowsInv, OneRow, OneName, DeletesWhatItRead, Named
<1>2. ASSUME NEW r \in Requests, CreateToken(r) \/ DeleteToken(r) \/ ValidateToken(r)
      PROVE  RowsInv'
  <2>1. /\ UNCHANGED <<primary, replica, wal, issued>> /\ pc'[r] \notin Deleting
        /\ \A s \in Requests \ {r} : pc'[s] = pc[s] /\ req'[s] = req[s]
    BY <1>0, <1>2 DEF CreateToken, DeleteToken, ValidateToken, Arrive, Goto, TypeOK,
       Deleting, repoVars, history
  <2> QED
    BY <1>1, <2>1
<1>3. ASSUME NEW r \in Requests,
             \/ CreatePin(r) \/ CreateCache(r) \/ CreateReadBack(r) \/ DeleteCheck(r)
             \/ ValidateCache(r) \/ ValidateLookup(r) \/ ValidateFill(r)
             \/ ValidatePin(r) \/ ValidateTouch(r) \/ ValidateUser(r)
             \/ Finish(r) \/ Abort(r)
      PROVE  RowsInv'
  <2>1. /\ UNCHANGED <<primary, replica, wal, issued>> /\ pc'[r] \notin Deleting
        /\ \A s \in Requests \ {r} : pc'[s] = pc[s] /\ req'[s] = req[s]
    BY <1>0, <1>3 DEF CreatePin, CreateCache, CreateReadBack, DeleteCheck, ValidateCache,
       ValidateLookup, ValidateFill, ValidatePin, ValidateTouch, ValidateUser,
       Finish, Abort, Goto, TypeOK, Deleting, repoVars, history
  <2> QED
    BY <1>1, <2>1
<1>4. ASSUME NEW r \in Requests, DeleteUncache(r) \/ DeletePin(r) PROVE RowsInv'
  <2>1. /\ UNCHANGED <<primary, replica, wal, issued, req>> /\ pc[r] \in Deleting
        /\ \A s \in Requests \ {r} : pc'[s] = pc[s]
    BY <1>0, <1>4 DEF DeleteUncache, DeletePin, Goto, TypeOK, Deleting, repoVars, history
  <2> QED
    BY <1>1, <2>1
<1>5. ASSUME NEW r \in Requests, DeleteGet(r) PROVE RowsInv'
  <2>1. /\ UNCHANGED <<primary, replica, wal, issued>>
        /\ \A s \in Requests \ {r} : pc'[s] = pc[s] /\ req'[s] = req[s]
    BY <1>0, <1>5 DEF DeleteGet, Goto, TypeOK, repoVars, history
  <2>2. CASE pc'[r] \notin Deleting
    BY <1>1, <2>1, <2>2
  <2>3. ASSUME NEW t \in Snapshots(req[r].user),
               NEW at \in Named(t, req[r].user, req[r].id),
               req' = [req EXCEPT ![r].at = at]
        PROVE  RowsInv'
    <3>1. req'[r].at = at /\ req'[r].user = req[r].user /\ req'[r].id = req[r].id
      BY <1>0, <2>3 DEF TypeOK, Req
    <3>2. at \in AccessTokens /\ (t = primary \/ t = replica)
      BY <2>3, SnapshotsAreTables DEF Named
    <3>3. issued[at] # {}
      BY <2>3, <3>2 DEF Named, IssueInv, RowsIssued
    <3>4. primary[at] # NoRow => at \in Named(primary, req[r].user, req[r].id)
      BY <2>3, <3>2 DEF Named, RowsInv, OneRow
    <3>5. DeletesWhatItRead'
      BY <2>1, <3>1, <3>3, <3>4 DEF RowsInv, DeletesWhatItRead, Named
    <3> QED
      BY <2>1, <3>5 DEF RowsInv, OneRow, OneName
  <2> QED
    BY <1>0, <1>5, <2>2, <2>3 DEF DeleteGet, Goto, TypeOK, Deleting
<1>6. ASSUME NEW r \in Requests, CreateInsert(r) PROVE RowsInv'
  <2>1. /\ req[r].at \in AccessTokens /\ issued[req[r].at] = {} /\ pc[r] = "createInsert"
        /\ UNCHANGED req /\ pc'[r] \notin Deleting
        /\ \A s \in Requests \ {r} : pc'[s] = pc[s]
    BY <1>0, <1>6 DEF CreateInsert, TypeInv, InHand, CreatePC, SingleIssue, Drawing,
       Goto, TypeOK, Deleting
  <2>2. CASE UNCHANGED <<repoVars, issued>>
    BY <1>1, <2>1, <2>2 DEF repoVars
  <2>3. ASSUME NEW at, at = req[r].at,
               NEW row, row = [owner |-> req[r].user, id |-> req[r].id],
               ~Conflicts(at, req[r].user, req[r].id), Commit(at, row, req[r].user),
               issued' = [issued EXCEPT ![at] = @ \cup {req[r].user}]
        PROVE  RowsInv'
    <3>1. /\ primary'[at] = row /\ replica' = replica
          /\ \A a \in AccessTokens \ {at} : primary'[a] = primary[a]
          /\ \A i \in DOMAIN wal' :
               \/ i \in DOMAIN wal /\ wal'[i] = wal[i]
               \/ wal'[i].key = at /\ wal'[i].row = row
      BY <1>0, <2>1, <2>3, CommitTables
    <3>2. /\ replica[at] = NoRow
          /\ \A i \in DOMAIN wal : wal[i].key = at => wal[i].row = NoRow
      BY <2>1, <2>3 DEF IssueInv, RowsIssued
    <3>3. OneRow'
      BY <1>0, <3>1, <3>2 DEF RowsInv, OneRow
    <3>4. \A a \in AccessTokens : primary[a] # row
      <4>1. row.owner = req[r].user /\ row.id = req[r].id
        BY <2>3
      <4>2. row # NoRow
        BY <1>0, <2>1, <2>3, ApiTokenAssumption DEF TypeInv, InHand, CreatePC
      <4> QED
        BY <2>3, <4>1, <4>2 DEF Conflicts, Named
    <3>5. OneName'
      BY <3>1, <3>4 DEF RowsInv, OneName
    <3>6. \A a : issued[a] # {} => a # at /\ (a \in AccessTokens => issued'[a] # {})
      BY <1>0, <2>1, <2>3 DEF TypeOK
    <3>7. \A s \in Requests : pc'[s] \in Deleting => req[s].at \in AccessTokens
      BY <2>1 DEF Deleting, TypeInv, InHand
    <3>8. DeletesWhatItRead'
      BY <2>1, <2>3, <3>1, <3>6, <3>7 DEF RowsInv, DeletesWhatItRead, Named
    <3> QED
      BY <3>3, <3>5, <3>8 DEF RowsInv
  <2> QED
    BY <1>6, <2>2, <2>3 DEF CreateInsert
<1>7. ASSUME NEW r \in Requests, DeleteRow(r) PROVE RowsInv'
  <2>1. /\ UNCHANGED <<req, issued>> /\ pc'[r] \notin Deleting
        /\ \A s \in Requests \ {r} : pc'[s] = pc[s]
    BY <1>0, <1>7 DEF DeleteRow, Goto, TypeOK, Deleting, history
  <2>2. CASE UNCHANGED repoVars
    BY <1>1, <2>1, <2>2 DEF repoVars
  <2>3. ASSUME NEW at \in AccessTokens, Commit(at, NoRow, req[r].user)
        PROVE  RowsInv'
    <3>1. /\ primary'[at] = NoRow /\ replica' = replica
          /\ \A a \in AccessTokens \ {at} : primary'[a] = primary[a]
          /\ \A i \in DOMAIN wal' :
               \/ i \in DOMAIN wal /\ wal'[i] = wal[i]
               \/ wal'[i].key = at /\ wal'[i].row = NoRow
      BY <1>0, <2>3, CommitTables
    <3>2. OneRow' /\ OneName'
      BY <1>0, <3>1 DEF RowsInv, OneRow, OneName
    <3>3. \A s \in Requests : pc'[s] \in Deleting => req[s].at \in AccessTokens
      BY <2>1 DEF Deleting, TypeInv, InHand
    <3>4. DeletesWhatItRead'
      BY <2>1, <3>1, <3>3 DEF RowsInv, DeletesWhatItRead, Named
    <3> QED
      BY <3>2, <3>4 DEF RowsInv
  <2> QED
    BY <1>7, <2>2, <2>3 DEF DeleteRow, Named
<1>8. ASSUME Replicate, UNCHANGED <<cache, reqVars, history>> PROVE RowsInv'
  <2>1. OneRow'
    BY <1>0, <1>8, ReplicateTables DEF RowsInv, OneRow
  <2>2. UNCHANGED <<primary, issued, pc, req>>
    BY <1>8 DEF Replicate, reqVars, history
  <2> QED
    BY <2>1, <2>2 DEF RowsInv, OneName, DeletesWhatItRead, Named
<1>9. ASSUME NEW u, PinExpire(u, Writing(u)), UNCHANGED <<cache, reqVars, history>>
      PROVE  RowsInv'
  BY <1>1, <1>9 DEF PinExpire, reqVars, history
<1>10. ASSUME NEW at \in AccessTokens, CacheExpire(at) \/ TokenExpire(at) PROVE RowsInv'
  BY <1>1, <1>10 DEF CacheExpire, TokenExpire, reqVars, history, repoVars
<1>11. CASE UNCHANGED vars
  BY <1>1, <1>11 DEF vars, reqVars, repoVars, history
<1> QED
  BY <1>2, <1>3, <1>4, <1>5, <1>6, <1>7, <1>8, <1>9, <1>10, <1>11
     DEF Next, Proceed, Backend
\* Wherever a read of at goes, it finds the row.
Seen(at) == HasReplica => replica[at] # NoRow /\ ~Lagging(at)

\* No look-up needs the cache: at is gone, is about to be, or is seen.
Safe(at) == primary[at] = NoRow \/ BeingDeleted(at) \/ Seen(at)

\* A CreateToken has inserted at and not cached it yet.
Uncached(at) == \E s \in Requests : pc[s] = "createCache" /\ req[s].at = at

Covered ==
  \A at \in AccessTokens : Uncached(at) \/ cache[at] # NoUser \/ Safe(at)

\* A validation that began when its token had been created, and that has found
\* no cache entry, may look anywhere.
LookUpAt(r) ==
  "created" \in req[r].facts /\ pc[r] \in {"validateCache", "validateLookup"} =>
    /\ issued[req[r].at] # {} /\ ~Uncached(req[r].at)
    /\ pc[r] = "validateLookup" => Safe(req[r].at)

CoverInv == Covered /\ \A r \in Requests : LookUpAt(r)

LEMMA InitCoverInv == Init => CoverInv
  BY DEF Init, RepoInit, CoverInv, Covered, Safe, LookUpAt

\* What a step may do: it makes a token unsafe, or uncached, only when it issues
\* it, and takes it out of the cache only when it is safe.
LEMMA CoverKept ==
  ASSUME TypeInv, CoverInv,
         \A a \in AccessTokens :
           /\ Safe(a) => Safe(a)' \/ (issued[a] = {} /\ Uncached(a)')
           /\ cache[a] # NoUser => cache'[a] # NoUser \/ Safe(a)'
           /\ Uncached(a) => Uncached(a)' \/ cache'[a] # NoUser
           /\ Uncached(a)' => Uncached(a) \/ issued[a] = {}
           /\ issued[a] # {} => issued'[a] # {},
         \A s \in Requests :
           \/ LookUpAt(s)'
           \/ pc'[s] = pc[s] /\ req'[s] = req[s]
           \/ pc'[s] \notin {"validateCache", "validateLookup"}
  PROVE  CoverInv'
<1>1. Covered'
  <2> SUFFICES ASSUME NEW a \in AccessTokens
               PROVE  Uncached(a)' \/ cache'[a] # NoUser \/ Safe(a)'
    BY DEF Covered
  <2> QED
    BY DEF CoverInv, Covered
<1>2. ASSUME NEW s \in Requests, pc'[s] = pc[s], req'[s] = req[s],
             "created" \in req[s].facts, pc[s] \in {"validateCache", "validateLookup"}
      PROVE  LookUpAt(s)'
  <2> DEFINE a == req[s].at
  <2>1. a \in AccessTokens
    BY <1>2 DEF TypeInv, InHand, ValidatePC
  <2>2. issued[a] # {} /\ ~Uncached(a) /\ (pc[s] = "validateLookup" => Safe(a))
    BY <1>2 DEF CoverInv, LookUpAt
  <2>3. \A b : b = a => issued'[b] # {} /\ ~Uncached(b)' /\ (pc[s] = "validateLookup" => Safe(b)')
    BY <2>1, <2>2
  <2>4. req'[s].at = a
    BY <1>2
  <2> QED
    BY <1>2, <2>3, <2>4 DEF LookUpAt
<1>3. \A s \in Requests : LookUpAt(s)'
  BY <1>2 DEF LookUpAt
<1> QED
  BY <1>1, <1>3 DEF CoverInv

\* A step that leaves the tables alone, and no token halfway, but perhaps caches
\* one, keeps it.
LEMMA CoverUntouched ==
  ASSUME TypeInv, CoverInv, UNCHANGED <<primary, replica, wal, issued>>,
         \A a \in AccessTokens : cache[a] # NoUser => cache'[a] # NoUser,
         \A s \in Requests :
           /\ pc'[s] = "createCache" <=> pc[s] = "createCache"
           /\ pc[s] \in {"deletePin", "deleteRow"} => pc'[s] \in {"deletePin", "deleteRow"}
           /\ pc[s] \in {"createCache", "deletePin", "deleteRow"} => req'[s].at = req[s].at
           /\ \/ LookUpAt(s)'
              \/ pc'[s] = pc[s] /\ req'[s] = req[s]
              \/ pc'[s] \notin {"validateCache", "validateLookup"}
  PROVE  CoverInv'
<1>1. \A a \in AccessTokens : Uncached(a)' <=> Uncached(a)
  BY DEF Uncached
<1>2. \A a \in AccessTokens : Safe(a) => Safe(a)'
  BY DEF Safe, Seen, Lagging, BeingDeleted
<1> QED
  BY <1>1, <1>2, CoverKept
LEMMA NextCoverInv ==
  ASSUME TimelyReplication, {"redis", "abort", "rng"} \cap Environment = {}
  PROVE  TypeInv /\ IssueInv /\ SingleIssue /\ LagInv /\ RowsInv /\ CoverInv /\ [Next]_vars
           => CoverInv'
<1> SUFFICES ASSUME TypeInv, IssueInv, SingleIssue, LagInv, RowsInv, CoverInv, [Next]_vars
             PROVE  CoverInv'
  OBVIOUS
<1> DEFINE Validating == {"validateCache", "validateLookup"}
<1>0. TypeOK /\ ~RedisMayFail
  BY DEF TypeInv, RedisMayFail
<1>1. ASSUME NEW r \in Requests, CreateToken(r) \/ DeleteToken(r) PROVE CoverInv'
  <2>1. /\ UNCHANGED <<primary, replica, wal, issued, cache>>
        /\ pc[r] = "idle" /\ pc'[r] \in {"createPin", "deleteCheck"}
        /\ \A s \in Requests \ {r} : pc'[s] = pc[s] /\ req'[s] = req[s]
    BY <1>0, <1>1 DEF CreateToken, DeleteToken, Arrive, Goto, TypeOK, repoVars, history
  <2> QED
    BY <2>1, CoverUntouched
<1>2. ASSUME NEW r \in Requests, ValidateToken(r) PROVE CoverInv'
  <2>1. PICK at \in AccessTokens :
          /\ issued[at] # {} /\ pc[r] = "idle" /\ pc' = [pc EXCEPT ![r] = "validateCache"]
          /\ req' = [req EXCEPT ![r] = [NoReq EXCEPT !.at = at, !.facts = FactsOf(at)]]
          /\ UNCHANGED <<repoVars, cache, history>>
    BY <1>2 DEF ValidateToken, Arrive, Goto
  <2>2. /\ req'[r].at = at /\ req'[r].facts = FactsOf(at) /\ pc'[r] = "validateCache"
        /\ \A s \in Requests \ {r} : pc'[s] = pc[s] /\ req'[s] = req[s]
    BY <1>0, <2>1 DEF NoReq, TypeOK
  <2>3. ASSUME "created" \in FactsOf(at), NEW s \in Requests, pc[s] = "createCache"
        PROVE  req[s].at # at
    BY <2>3 DEF FactsOf, BeingCreated, CreatePC
  <2>4. ASSUME "created" \in FactsOf(at) PROVE ~Uncached(at)'
    BY <2>1, <2>2, <2>3, <2>4 DEF Uncached
  <2>5. LookUpAt(r)'
    <3>1. \A a : a = at /\ "created" \in FactsOf(at) => issued'[a] # {} /\ ~Uncached(a)'
      BY <2>1, <2>4 DEF history
    <3> QED
      BY <2>2, <3>1 DEF LookUpAt
  <2> QED
    BY <2>1, <2>2, <2>5, CoverUntouched DEF repoVars, history
<1>3. ASSUME NEW r \in Requests,
             \/ CreatePin(r) \/ CreateReadBack(r) \/ DeleteCheck(r) \/ DeleteGet(r)
             \/ ValidateLookup(r) \/ ValidatePin(r) \/ ValidateTouch(r)
             \/ ValidateUser(r) \/ Finish(r)
      PROVE  CoverInv'
  <2>1. /\ UNCHANGED <<primary, replica, wal, issued, cache>>
        /\ pc'[r] \notin Validating \cup {"createCache"}
        /\ pc[r] \notin {"createCache", "deletePin", "deleteRow"}
        /\ \A s \in Requests \ {r} : pc'[s] = pc[s] /\ req'[s] = req[s]
    BY <1>0, <1>3 DEF CreatePin, CreateReadBack, DeleteCheck, DeleteGet, ValidateLookup,
       ValidatePin, ValidateTouch, ValidateUser, Finish, DonePC, Goto, TypeOK,
       repoVars, history
  <2> QED
    BY <2>1, CoverUntouched
<1>4. ASSUME NEW r \in Requests, DeletePin(r) PROVE CoverInv'
  <2>1. /\ UNCHANGED <<primary, replica, wal, issued, cache, req>>
        /\ pc[r] = "deletePin" /\ pc'[r] = "deleteRow"
        /\ \A s \in Requests \ {r} : pc'[s] = pc[s]
    BY <1>0, <1>4 DEF DeletePin, Goto, TypeOK, history
  <2> QED
    BY <2>1, CoverUntouched
<1>5. ASSUME NEW r \in Requests, ValidateFill(r) PROVE CoverInv'
  <2>1. /\ UNCHANGED <<primary, replica, wal, issued, req>>
        /\ pc[r] = "validateFill" /\ pc'[r] = "validatePin"
        /\ \A s \in Requests \ {r} : pc'[s] = pc[s]
    BY <1>0, <1>5 DEF ValidateFill, Goto, TypeOK, repoVars, history
  <2>2. \A a \in AccessTokens : cache[a] # NoUser => cache'[a] # NoUser
    <3>1. req[r].uid # NoUser
      BY <2>1, RepositoryAssumption DEF TypeInv, InHand
    <3> QED
      BY <1>0, <1>5, <3>1 DEF ValidateFill, SetCache, RedisFault, TypeOK
  <2> QED
    BY <2>1, <2>2, CoverUntouched
\* A miss: the token is not being cached, so that it is safe.
<1>6. ASSUME NEW r \in Requests, ValidateCache(r) PROVE CoverInv'
  <2>1. /\ UNCHANGED <<primary, replica, wal, issued, cache>>
        /\ pc[r] = "validateCache" /\ req[r].at \in AccessTokens
        /\ \A s \in Requests \ {r} : pc'[s] = pc[s] /\ req'[s] = req[s]
    BY <1>0, <1>6 DEF ValidateCache, Goto, TypeOK, TypeInv, InHand, ValidatePC,
       repoVars, history
  <2>2. CASE pc'[r] = "validatePin"
    BY <2>1, <2>2, CoverUntouched
  <2>3. CASE pc'[r] = "validateLookup" /\ cache[req[r].at] = NoUser /\ UNCHANGED req
    <3>1. ASSUME "created" \in req[r].facts
          PROVE  LookUpAt(r)'
      <4> DEFINE a == req[r].at
      <4>1. issued[a] # {} /\ ~Uncached(a) /\ Safe(a)
        BY <2>1, <2>3, <3>1 DEF CoverInv, LookUpAt, Covered
      <4>2. \A b \in AccessTokens : b = a => ~Uncached(b)' /\ Safe(b)'
        <5>1. \A b \in AccessTokens : Uncached(b)' => Uncached(b)
          BY <2>1, <2>3 DEF Uncached
        <5>2. \A b \in AccessTokens : Safe(b) => Safe(b)'
          BY <2>1, <2>3 DEF Safe, Seen, Lagging, BeingDeleted
        <5> QED
          BY <4>1, <5>1, <5>2
      <4> QED
        BY <2>1, <2>3, <4>1, <4>2 DEF LookUpAt
    <3>2. LookUpAt(r)'
      BY <2>3, <3>1 DEF LookUpAt
    <3> QED
      BY <2>1, <2>3, <3>2, CoverUntouched
  <2> QED
    BY <1>0, <1>6, <2>2, <2>3 DEF ValidateCache, Goto, TypeOK
<1>7. ASSUME NEW r \in Requests, CreateInsert(r) PROVE CoverInv'
  <2>1. /\ req[r].at \in AccessTokens /\ issued[req[r].at] = {} /\ pc[r] = "createInsert"
        /\ UNCHANGED <<req, cache>> /\ pc'[r] \in {"createFailed", "createCache"}
        /\ \A s \in Requests \ {r} : pc'[s] = pc[s]
    BY <1>0, <1>7 DEF CreateInsert, TypeInv, InHand, CreatePC, SingleIssue, Drawing,
       Goto, TypeOK
  <2>2. CASE pc'[r] = "createFailed"
    <3>1. UNCHANGED <<primary, replica, wal, issued>>
      BY <1>0, <1>7, <2>2 DEF CreateInsert, Goto, TypeOK, repoVars
    <3> QED
      BY <2>1, <2>2, <3>1, CoverUntouched
  <2>3. ASSUME NEW at, at = req[r].at, NEW row, Commit(at, row, req[r].user),
               issued' = [issued EXCEPT ![at] = @ \cup {req[r].user}],
               pc'[r] = "createCache"
        PROVE  CoverInv'
    <3>1. /\ replica' = replica
          /\ \A a \in AccessTokens \ {at} : primary'[a] = primary[a]
          /\ \A i \in DOMAIN wal' :
               \/ i \in DOMAIN wal /\ wal'[i] = wal[i]
               \/ wal'[i].key = at /\ wal'[i].row = row
      BY <1>0, <2>1, <2>3, CommitTables
    <3>2. Uncached(at)' /\ issued[at] = {}
      BY <2>1, <2>3 DEF Uncached
    <3>3. ASSUME NEW a \in AccessTokens, a # at, Safe(a) PROVE Safe(a)'
      <4>1. Lagging(a)' => Lagging(a)
        BY <3>1, <3>3 DEF Lagging
      <4>2. BeingDeleted(a) => BeingDeleted(a)'
        BY <2>1 DEF BeingDeleted
      <4> QED
        BY <3>1, <3>3, <4>1, <4>2 DEF Safe, Seen
    <3>4. \A a \in AccessTokens :
            /\ Uncached(a) => Uncached(a)'
            /\ Uncached(a)' => Uncached(a) \/ a = at
            /\ issued[a] # {} => issued'[a] # {}
      BY <1>0, <2>1, <2>3 DEF Uncached, TypeOK
    <3>5. \A s \in Requests :
            pc'[s] \in Validating => pc'[s] = pc[s] /\ req'[s] = req[s]
      BY <2>1, <2>3
    <3> QED
      BY <2>1, <3>2, <3>3, <3>4, <3>5, CoverKept
  <2> QED
    BY <1>7, <2>2, <2>3 DEF CreateInsert, Goto, TypeOK, TypeInv
<1>8. ASSUME NEW r \in Requests, CreateCache(r) PROVE CoverInv'
  <2>1. /\ UNCHANGED <<primary, replica, wal, issued, req>>
        /\ pc[r] = "createCache" /\ pc'[r] = "createReadBack"
        /\ req[r].at \in AccessTokens /\ req[r].user # NoUser
        /\ cache' = [cache EXCEPT ![req[r].at] = req[r].user]
        /\ \A s \in Requests \ {r} : pc'[s] = pc[s]
    BY <1>0, <1>8, RepositoryAssumption
       DEF CreateCache, SetCache, RedisFault, Goto, TypeOK, TypeInv, InHand, CreatePC,
           repoVars, history
  <2>2. \A a \in AccessTokens :
          /\ cache[a] # NoUser => cache'[a] # NoUser
          /\ Uncached(a) => Uncached(a)' \/ cache'[a] # NoUser
          /\ Uncached(a)' => Uncached(a)
    BY <1>0, <2>1 DEF Uncached, TypeOK
  <2>3. \A a \in AccessTokens : Safe(a) => Safe(a)'
    BY <2>1 DEF Safe, Seen, Lagging, BeingDeleted
  <2> QED
    BY <2>1, <2>2, <2>3, CoverKept
<1>9. ASSUME NEW r \in Requests, DeleteUncache(r) PROVE CoverInv'
  <2>1. /\ UNCHANGED <<primary, replica, wal, issued, req>>
        /\ pc[r] = "deleteUncache" /\ pc'[r] = "deletePin"
        /\ req[r].at \in AccessTokens
        /\ cache' = [cache EXCEPT ![req[r].at] = NoUser]
        /\ \A s \in Requests \ {r} : pc'[s] = pc[s]
    BY <1>0, <1>9
       DEF DeleteUncache, SetCache, RedisFault, Goto, TypeOK, TypeInv, InHand,
           repoVars, history
  <2>2. \A a \in AccessTokens : Safe(a) => Safe(a)'
    BY <2>1 DEF Safe, Seen, Lagging, BeingDeleted
  <2>3. \A a \in AccessTokens : a = req[r].at => Safe(a)'
    BY <2>1 DEF Safe, BeingDeleted
  <2>4. \A a \in AccessTokens :
          /\ cache[a] # NoUser => cache'[a] # NoUser \/ a = req[r].at
          /\ Uncached(a)' <=> Uncached(a)
    BY <1>0, <2>1 DEF Uncached, TypeOK
  <2> QED
    BY <2>1, <2>2, <2>3, <2>4, CoverKept
\* The row that goes is the one whose cache entry went, and no other is touched.
<1>10. ASSUME NEW r \in Requests, DeleteRow(r) PROVE CoverInv'
  <2> DEFINE at == req[r].at
  <2>1. /\ UNCHANGED <<req, issued, cache>> /\ pc[r] = "deleteRow"
        /\ pc'[r] \in {"deleted", "deleteFailed"} /\ at \in AccessTokens
        /\ \A s \in Requests \ {r} : pc'[s] = pc[s]
    BY <1>0, <1>10 DEF DeleteRow, Goto, TypeOK, TypeInv, InHand, history
  <2>2. primary[at] # NoRow => at \in Named(primary, req[r].user, req[r].id)
    BY <2>1 DEF RowsInv, DeletesWhatItRead, Deleting
  <2>3. \A a \in AccessTokens : Uncached(a)' <=> Uncached(a)
    BY <2>1 DEF Uncached
  <2>4. \A a \in AccessTokens : a # at /\ BeingDeleted(a) => BeingDeleted(a)'
    BY <2>1 DEF BeingDeleted
  <2>5. \A a \in AccessTokens : Safe(a) => Safe(a)'
    <3>1. CASE UNCHANGED repoVars /\ Named(primary, req[r].user, req[r].id) = {}
      BY <2>1, <2>2, <2>4, <3>1 DEF Safe, Seen, Lagging, repoVars
    <3>2. ASSUME NEW b \in Named(primary, req[r].user, req[r].id),
                 Commit(b, NoRow, req[r].user)
          PROVE  \A a \in AccessTokens : Safe(a) => Safe(a)'
      <4>1. b \in AccessTokens
        BY <3>2 DEF Named
      <4>2. /\ primary'[b] = NoRow /\ replica' = replica
            /\ \A a \in AccessTokens \ {b} : primary'[a] = primary[a]
            /\ \A i \in DOMAIN wal' :
                 \/ i \in DOMAIN wal /\ wal'[i] = wal[i]
                 \/ wal'[i].key = b /\ wal'[i].row = NoRow
        BY <1>0, <3>2, <4>1, CommitTables
      <4>3. primary[at] # NoRow => at = b
        <5> SUFFICES ASSUME primary[at] # NoRow PROVE at = b
          OBVIOUS
        <5>1. primary[at] \in Row /\ primary[b] \in Row
          BY <1>0, <2>1, <3>2, <4>1 DEF TypeOK, Named
        <5>2. primary[at] = primary[b]
          BY <2>2, <3>2, <5>1 DEF Named, Row
        <5> QED
          BY <2>1, <4>1, <5>2 DEF RowsInv, OneName
      <4>4. \A a \in AccessTokens : a # b /\ Lagging(a)' => Lagging(a)
        BY <4>2 DEF Lagging
      <4> QED
        BY <2>1, <2>4, <4>1, <4>2, <4>3, <4>4 DEF Safe, Seen
    <3> QED
      BY <1>10, <3>1, <3>2 DEF DeleteRow
  <2> QED
    BY <2>1, <2>3, <2>5, CoverKept
<1>11. ASSUME Replicate, UNCHANGED <<cache, reqVars, history>> PROVE CoverInv'
  <2>1. UNCHANGED <<cache, pc, req, issued, primary>>
    BY <1>11 DEF reqVars, history, Replicate
  <2>2. /\ 1 \in DOMAIN wal
        /\ \A a \in AccessTokens \ {wal[1].key} : replica'[a] = replica[a]
        /\ \A i \in DOMAIN wal' : i + 1 \in DOMAIN wal /\ wal'[i] = wal[i + 1]
    BY <1>0, <1>11, ReplicateTables
  <2>3. \A a \in AccessTokens : ~Lagging(a) => a # wal[1].key /\ ~Lagging(a)'
    BY <2>2 DEF Lagging
  <2>4. \A a \in AccessTokens : Safe(a) => Safe(a)'
    BY <2>1, <2>2, <2>3 DEF Safe, Seen, BeingDeleted
  <2>5. \A a \in AccessTokens : Uncached(a)' <=> Uncached(a)
    BY <2>1 DEF Uncached
  <2> QED
    BY <2>1, <2>4, <2>5, CoverKept
<1>12. ASSUME NEW u, PinExpire(u, Writing(u)), UNCHANGED <<cache, reqVars, history>>
       PROVE  CoverInv'
  BY <1>12, CoverUntouched DEF PinExpire, reqVars, history
\* An entry outlives the lag.
<1>13. ASSUME NEW at \in AccessTokens, CacheExpire(at) PROVE CoverInv'
  <2>1. /\ UNCHANGED <<primary, replica, wal, pc, req, issued>> /\ ~Lagging(at)
        /\ \A a \in AccessTokens \ {at} : cache'[a] = cache[a]
    BY <1>0, <1>13 DEF CacheExpire, SetCache, repoVars, reqVars, history, TypeOK
  <2>2. HasReplica /\ primary[at] # NoRow => replica[at] = primary[at]
    BY <2>1 DEF LagInv, OwnersPending, Put, Lagging
  <2>3. Safe(at)
    BY <2>1, <2>2 DEF Safe, Seen
  <2>4. \A a \in AccessTokens : (Safe(a) => Safe(a)') /\ (Uncached(a)' <=> Uncached(a))
    BY <2>1 DEF Safe, Seen, Lagging, BeingDeleted, Uncached
  <2> QED
    BY <2>1, <2>3, <2>4, CoverKept
<1>14. ASSUME NEW at \in AccessTokens, TokenExpire(at) PROVE CoverInv'
  BY <1>14, CoverUntouched DEF TokenExpire, reqVars, repoVars
<1>15. CASE UNCHANGED vars
  BY <1>15, CoverUntouched DEF vars, reqVars, repoVars, history
<1>16. ~\E r \in Requests : Abort(r)
  BY DEF Abort
<1> QED
  BY <1>1, <1>2, <1>3, <1>4, <1>5, <1>6, <1>7, <1>8, <1>9, <1>10, <1>11, <1>12, <1>13,
     <1>14, <1>15, <1>16 DEF Next, Proceed, Backend
LEMMA RejectedBy ==
  ASSUME TypeOK, Next, NEW r \in Requests, pc[r] # "rejected", pc'[r] = "rejected"
  PROVE  ValidateLookup(r) \/ ValidateTouch(r) \/ ValidateUser(r)
<1>1. PICK s \in Requests :
        CreateToken(s) \/ DeleteToken(s) \/ ValidateToken(s) \/ Proceed(s) \/ Abort(s)
  <2>1. ~Backend
    BY DEF Backend, CacheExpire, TokenExpire, reqVars
  <2> QED
    BY <2>1 DEF Next
<1>2. \A q \in Requests \ {s} : pc'[q] = pc[q]
  <2>1. CASE CreateToken(s) \/ DeleteToken(s) \/ ValidateToken(s) \/ Abort(s)
    BY <2>1 DEF CreateToken, DeleteToken, ValidateToken, Abort, Arrive, Goto, TypeOK
  <2>2. CASE \/ CreatePin(s) \/ CreateInsert(s) \/ CreateCache(s) \/ CreateReadBack(s)
             \/ DeleteCheck(s) \/ DeleteGet(s) \/ DeleteUncache(s) \/ DeletePin(s)
             \/ DeleteRow(s)
    BY <2>2
       DEF CreatePin, CreateInsert, CreateCache, CreateReadBack, DeleteCheck, DeleteGet,
           DeleteUncache, DeletePin, DeleteRow, Goto, TypeOK
  <2>3. CASE \/ ValidateCache(s) \/ ValidateLookup(s) \/ ValidateFill(s)
             \/ ValidatePin(s) \/ ValidateTouch(s) \/ ValidateUser(s) \/ Finish(s)
    BY <2>3
       DEF ValidateCache, ValidateLookup, ValidateFill, ValidatePin, ValidateTouch,
           ValidateUser, Finish, Goto, TypeOK
  <2> QED
    BY <1>1, <2>1, <2>2, <2>3 DEF Proceed
<1>3. s = r
  BY <1>2
<1>4. ~(CreateToken(r) \/ DeleteToken(r) \/ ValidateToken(r) \/ Abort(r))
  BY DEF CreateToken, DeleteToken, ValidateToken, Abort, Arrive, Goto, TypeOK
<1>5. ~(\/ CreatePin(r) \/ CreateInsert(r) \/ CreateCache(r) \/ CreateReadBack(r)
        \/ DeleteCheck(r) \/ DeleteGet(r) \/ DeleteUncache(r) \/ DeletePin(r)
        \/ DeleteRow(r) \/ ValidateCache(r) \/ ValidateFill(r) \/ ValidatePin(r)
        \/ Finish(r))
  BY DEF CreatePin, CreateInsert, CreateCache, CreateReadBack, DeleteCheck, DeleteGet,
         DeleteUncache, DeletePin, DeleteRow, ValidateCache, ValidateFill, ValidatePin,
         Finish, Goto, TypeOK
<1> QED
  BY <1>1, <1>3, <1>4, <1>5 DEF Proceed

\* service.go:429: a token whose CreateToken has answered is accepted
\* by every validation that starts later, until somebody deletes it.  Without a
\* mark of its own, ValidateToken may look on the replica, but only after the
\* entry CreateToken made has expired, or a deletion has removed it.  A request
\* that dies, or a string that is drawn twice, can leave a token without either.
THEOREM CreatedAccepted ==
  ASSUME TimelyReplication, {"redis", "abort", "rng"} \cap Environment = {}
  PROVE  Spec => CreatedTokenIsAccepted
<1> DEFINE Inv == TypeInv /\ IssueInv /\ SingleIssue /\ LagInv /\ RowsInv /\ CoverInv
<1>0. "redis" \notin Environment /\ "rng" \notin Environment
  OBVIOUS
<1>1. Init => Inv
  BY InitTypeInv, InitIssueInv, InitSingleIssue, InitLagInv, InitRowsInv, InitCoverInv
<1>2. Inv /\ [Next]_vars => Inv'
  BY <1>0, NextTypeInv, NextIssueInv, NextSingleIssue, NextLagInv, NextRowsInv, NextCoverInv
<1>3. Inv /\ [Next]_vars =>
        [\A r \in Requests :
           pc'[r] = "rejected" /\ pc[r] # "rejected" /\ "created" \in req[r].facts
             => primary[req[r].at] = NoRow \/ BeingDeleted(req[r].at)]_vars
  <2> SUFFICES ASSUME Inv, Next, NEW r \in Requests, pc'[r] = "rejected",
                      pc[r] # "rejected", "created" \in req[r].facts
               PROVE  primary[req[r].at] = NoRow \/ BeingDeleted(req[r].at)
    OBVIOUS
  <2>1. CASE ValidateLookup(r)
    <3>1. pc[r] = "validateLookup" /\ \E t \in Snapshots(NoUser) : t[req[r].at] = NoRow
      BY <2>1 DEF ValidateLookup, Goto, TypeInv, TypeOK
    <3>2. Safe(req[r].at)
      BY <3>1 DEF CoverInv, LookUpAt
    <3>3. CASE primary[req[r].at] = NoRow
      BY <3>3
    <3>4. CASE HasReplica /\ replica[req[r].at] = NoRow
      BY <3>2, <3>4 DEF Safe, Seen
    <3> QED
      BY <1>0, <3>1, <3>3, <3>4 DEF Snapshots, RedisMayFail
  <2>2. CASE ValidateTouch(r)
    BY <2>2 DEF ValidateTouch, RowsAffected, Goto, TypeInv, TypeOK
  <2>3. CASE ValidateUser(r)
    BY <1>0, <2>3 DEF ValidateUser, RedisMayFail, Goto, TypeInv, TypeOK
  <2> QED
    BY <2>1, <2>2, <2>3, RejectedBy DEF TypeInv
<1> HIDE DEF Inv
<1> QED
  BY <1>1, <1>2, <1>3, PTL DEF Spec, CreatedTokenIsAccepted
=============================================================================
