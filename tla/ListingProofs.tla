--------------------------- MODULE ListingProofs ---------------------------
(***************************************************************************)
(* Theorems about Listing: for any number of rows, create_times, page      *)
(* sizes and filters, with or without a replica, whatever the environment  *)
(* does.                                                                   *)
(***************************************************************************)
EXTENDS Listing, RepositoryProofs, FiniteSetTheorems, SequenceTheorems

-----------------------------------------------------------------------------
\* Type correctness

Params == [op : Endpoints \cup {"none"}, ctx : Users \cup {NoUser},
           pageSize : PageSizes \cup {0}, filter : Filters \cup {{}},
           token : PageToken \cup {NoPageToken},
           handle : {"primary", "replica"}, page : Seq(Uids)]

\* There is a page when its last row is asked about.
TypeInv == TypeOK /\ (pc = "oldest" => req.page # <<>>)

LEMMA LastRow ==
  ASSUME NEW S, NEW s \in Seq(S), s # <<>>
  PROVE  /\ Last(s) \in S /\ Last(s) = s[Len(s)]
         /\ Len(s) \in Nat /\ Len(s) \in DOMAIN s /\ DOMAIN s = 1..Len(s)
  BY DEF Last

LEMMA Joined ==
  ASSUME NEW S, NEW s \in Seq(S), NEW t \in Seq(S)
  PROVE  /\ s \o t \in Seq(S)
         /\ Len(s) \in Nat /\ Len(t) \in Nat
         /\ DOMAIN s = 1..Len(s) /\ DOMAIN t = 1..Len(t)
         /\ DOMAIN (s \o t) = 1..(Len(s) + Len(t))
         /\ \A i \in DOMAIN s : (s \o t)[i] = s[i]
         /\ \A i \in DOMAIN t : (s \o t)[Len(s) + i] = t[i]
  OBVIOUS

LEMMA Tables ==
  ASSUME TypeOK
  PROVE  WellFormed(Uids, Times \cup {NoRow}, Users)
  BY DEF TypeOK, WellFormed, Records

LEMMA Request ==
  ASSUME TypeOK
  PROVE  /\ req \in Params /\ req.page \in Seq(Uids) /\ req.op \in Endpoints \cup {"none"}
         /\ req.token \in PageToken \cup {NoPageToken}
<1>1. req \in Params
  BY DEF TypeOK, Params
<1> QED
  BY <1>1 DEF Params

\* What the query returns are rows of the table that come after the token.
LEMMA PageRows ==
  ASSUME NEW table, NEW page \in Pages(table)
  PROVE  /\ page \in Seq(Found(table)) /\ Found(table) \subseteq Uids
         /\ \A i, j \in DOMAIN page : i < j => Newer(req.op, page[i], page[j])
         /\ \A x \in Found(table) :
              x \in ToSet(page) \/ \A i \in DOMAIN page : Newer(req.op, page[i], x)
         /\ Len(page) < Limit(req.op, req.pageSize) => ToSet(page) = Found(table)
<1>1. page \in SeqOf(Found(table), Cardinality(Found(table)))
  BY DEF Pages
<1>2. PICK m \in 0..Cardinality(Found(table)) : page \in [1..m -> Found(table)]
  BY <1>1 DEF SeqOf
<1>3. m \in Nat
  BY <1>2
<1>4. page \in Seq(Found(table))
  BY <1>2, <1>3, SeqDef
<1> QED
  BY <1>4 DEF Pages, Found, Rows

LEMMA InitTypeInv == Init => TypeInv
<1> SUFFICES ASSUME Init PROVE TypeInv
  OBVIOUS
<1>1. primary \in [Uids -> Times \cup {NoRow}] /\ replica = primary /\ wal = <<>>
  BY DEF Init, RepoInit
<1>2. req \in Params
  BY DEF Init, NoReq, Params
<1> QED
  BY <1>1, <1>2, ListingAssumption DEF Init, RepoInit, TypeInv, TypeOK, Params
\* What a call's step does to its request, to which the tables are given.
LEMMA StartListMoves ==
  ASSUME TypeOK, StartList
  PROVE  /\ pc' = "count" /\ listed' = <<>>
         /\ steady' = {x \in Uids : primary[x] # NoRow /\ replica[x] # NoRow}
         /\ req' \in Params /\ req'.token = NoPageToken
         /\ UNCHANGED <<repoVars, created, fresh, changes>>
<1>1. PICK op \in Endpoints, u \in Users, size \in PageSizes, f \in Filters :
        req' = [NoReq EXCEPT !.op = op, !.pageSize = size, !.filter = f,
                             !.ctx = IF op = "ListUsersAdmin" THEN NoUser ELSE u]
  BY DEF StartList
<1>2. req' = [op |-> op, ctx |-> IF op = "ListUsersAdmin" THEN NoUser ELSE u,
              pageSize |-> size, filter |-> f, token |-> NoPageToken,
              handle |-> "primary", page |-> <<>>]
  BY <1>1 DEF NoReq
<1>3. req' \in Params /\ req'.token = NoPageToken
  BY <1>2 DEF Params
<1> QED
  BY <1>3 DEF StartList

\* A step of the call keeps what was asked for.
SameCall ==
  /\ req'.op = req.op /\ req'.filter = req.filter
  /\ UNCHANGED <<repoVars, created, fresh, steady, changes>>

LEMMA CountRowsMoves ==
  ASSUME TypeOK, CountRows
  PROVE  /\ pc = "count" /\ pc' = "page" /\ listed' = listed /\ SameCall
         /\ req' \in Params /\ req'.token = req.token
<1>1. req \in Params
  BY Request
<1>2. PICK h \in Handles(req.ctx) : req' = [req EXCEPT !.handle = h]
  BY DEF CountRows
<1>3. h \in {"primary", "replica"}
  BY DEF Handles
<1>4. req' \in Params /\ req'.token = req.token /\ req'.op = req.op /\ req'.filter = req.filter
  BY <1>1, <1>2, <1>3 DEF Params
<1> QED
  BY <1>4 DEF CountRows, SameCall

LEMMA QueryPageMoves ==
  ASSUME TypeOK, QueryPage
  PROVE  /\ pc = "page" /\ listed' = listed /\ SameCall /\ req' \in Params
         /\ \E page \in Pages(Handle) :
              \/ /\ page = <<>> /\ pc' = "done"
              \/ /\ page # <<>> /\ pc' = "oldest"
                 /\ req'.page = page /\ req'.token = req.token
<1>1. req \in Params
  BY Request
<1>2. PICK page \in Pages(Handle) :
        IF page = <<>>
        THEN pc' = "done" /\ req' = [req EXCEPT !.token = NoPageToken]
        ELSE pc' = "oldest" /\ req' = [req EXCEPT !.page = page]
  BY DEF QueryPage
<1>3. page \in Seq(Uids)
  BY PageRows
<1>4. CASE page = <<>>
  <2>1. req' \in Params /\ req'.op = req.op /\ req'.filter = req.filter
    BY <1>1, <1>2, <1>4 DEF Params
  <2> QED
    BY <1>2, <1>4, <2>1 DEF QueryPage, SameCall
<1>5. CASE page # <<>>
  <2>1. /\ req' \in Params /\ req'.op = req.op /\ req'.filter = req.filter
        /\ req'.page = page /\ req'.token = req.token
    BY <1>1, <1>2, <1>3, <1>5 DEF Params
  <2> QED
    BY <1>2, <1>5, <2>1 DEF QueryPage, SameCall
<1> QED
  BY <1>4, <1>5

LEMMA QueryOldestMoves ==
  ASSUME TypeInv, QueryOldest
  PROVE  /\ pc = "oldest" /\ listed' = listed \o req.page /\ SameCall /\ req' \in Params
         /\ LET last == Last(req.page)
            IN  \/ pc' = "done" /\ IsOldest(last, Handle)
                \/ /\ pc' = "count"
                   /\ req'.token = [time |-> created[last], uid |-> last]
<1> DEFINE last  == Last(req.page)
           token == [time |-> created[last], uid |-> last]
<1>1. req \in Params /\ req.page \in Seq(Uids) /\ req.page # <<>>
  BY Request DEF TypeInv, QueryOldest
<1>2. last \in Uids /\ created[last] \in Times
  BY <1>1, LastRow DEF TypeInv, TypeOK
<1>3. token \in PageToken
  BY <1>2 DEF PageToken
<1>4. \/ /\ pc' = "done" /\ IsOldest(last, Handle)
         /\ req' = [req EXCEPT !.token = NoPageToken, !.page = <<>>]
      \/ pc' = "count" /\ req' = [req EXCEPT !.token = token, !.page = <<>>]
  BY DEF QueryOldest
<1>5. pc = "oldest" /\ listed' = listed \o req.page
      /\ UNCHANGED <<repoVars, created, fresh, steady, changes>>
  BY DEF QueryOldest
<1> HIDE DEF last, token
<1>6. <<>> \in Seq(Uids)
  OBVIOUS
<1>7. CASE req' = [req EXCEPT !.token = NoPageToken, !.page = <<>>]
  <2>1. req' \in Params /\ req'.op = req.op /\ req'.filter = req.filter
        /\ req'.token = NoPageToken
    BY <1>1, <1>6, <1>7 DEF Params
  <2>2. NoPageToken # token
    BY <1>3, ListingAssumption DEF PageToken
  <2>3. pc' = "done" /\ IsOldest(last, Handle)
    <3>1. ASSUME req' = [req EXCEPT !.token = token, !.page = <<>>] PROVE FALSE
      <4>1. req'.token = token
        BY <1>1, <3>1 DEF Params
      <4> QED
        BY <2>1, <2>2, <4>1
    <3> QED
      BY <1>4, <3>1
  <2> QED
    BY <1>5, <2>1, <2>3 DEF SameCall, last
<1>8. CASE pc' = "count" /\ req' = [req EXCEPT !.token = token, !.page = <<>>]
  <2>1. req' \in Params /\ req'.op = req.op /\ req'.filter = req.filter
        /\ req'.token = token
    BY <1>1, <1>3, <1>6, <1>8 DEF Params
  <2> QED
    BY <1>5, <1>8, <2>1 DEF SameCall, last, token
<1> QED
  BY <1>4, <1>7, <1>8
\* What other requests, the replica and Redis do to a listing.
LEMMA EnvironsMove ==
  ASSUME TypeOK, Environs
  PROVE  /\ UNCHANGED <<created, pc, req, listed>>
         /\ WellFormed(Uids, Times \cup {NoRow}, Users)' /\ pinned' \subseteq Users
         /\ fresh' \subseteq fresh /\ steady' \subseteq steady
         /\ changes' \in 0..MaxChanges
<1>0. /\ WellFormed(Uids, Times \cup {NoRow}, Users) /\ pinned \subseteq Users
      /\ created \in [Uids -> Times] /\ fresh \subseteq Uids
      /\ changes \in 0..MaxChanges /\ MaxChanges \in Nat
  BY Tables, ListingAssumption DEF TypeOK
<1>1. ASSUME NEW u \in Users, Pin(u)
      PROVE  /\ UNCHANGED <<primary, replica, wal, created, fresh, listing, changes>>
             /\ pinned' \subseteq Users
  BY <1>0, <1>1 DEF Pin, PinUser
<1>2. ASSUME NEW x \in Uids, NEW row \in Times \cup {NoRow}, NEW u \in Users,
             Commit(x, row, u)
      PROVE  WellFormed(Uids, Times \cup {NoRow}, Users)'
  BY <1>0, <1>2, CommitWellFormed
<1>3. ASSUME NEW x \in Uids, NEW u \in Users, Insert(x, u)
      PROVE  /\ UNCHANGED <<pinned, created, listing>> /\ fresh' \subseteq fresh
             /\ changes' \in 0..MaxChanges
             /\ WellFormed(Uids, Times \cup {NoRow}, Users)'
  BY <1>0, <1>2, <1>3 DEF Insert
<1>4. ASSUME NEW x \in Uids, NEW u \in Users, Delete(x, u)
      PROVE  /\ UNCHANGED <<pinned, created, fresh, pc, req, listed>>
             /\ steady' \subseteq steady /\ changes' \in 0..MaxChanges
             /\ WellFormed(Uids, Times \cup {NoRow}, Users)'
  <2>1. NoRow \in Times \cup {NoRow} /\ Commit(x, NoRow, u)
    BY <1>4 DEF Delete
  <2>2. WellFormed(Uids, Times \cup {NoRow}, Users)'
    BY <1>2, <2>1
  <2> QED
    BY <1>0, <1>4, <2>2 DEF Delete
<1>5. ASSUME Replicate, UNCHANGED <<created, fresh, listing, changes>>
      PROVE  WellFormed(Uids, Times \cup {NoRow}, Users)' /\ UNCHANGED pinned
  BY <1>0, <1>5, ReplicateEffect
<1>6. ASSUME NEW u, PinExpire(u, FALSE)
      PROVE  UNCHANGED <<primary, replica, wal>> /\ pinned' \subseteq Users
  BY <1>0, <1>6 DEF PinExpire
<1>7. ASSUME UNCHANGED <<primary, replica, wal>>
      PROVE  WellFormed(Uids, Times \cup {NoRow}, Users)'
  BY <1>0, <1>7 DEF WellFormed
<1> QED
  BY <1>0, <1>1, <1>3, <1>4, <1>5, <1>6, <1>7 DEF Environs, listing

LEMMA TypeInvStep == TypeInv /\ [Next]_vars => TypeInv'
<1> SUFFICES ASSUME TypeInv, [Next]_vars PROVE TypeInv'
  OBVIOUS
<1>0. TypeOK /\ WellFormed(Uids, Times \cup {NoRow}, Users) /\ req \in Params
  BY Tables, Request DEF TypeInv
<1>1. ASSUME WellFormed(Uids, Times \cup {NoRow}, Users)', pinned' \subseteq Users,
             created' = created, fresh' \subseteq fresh,
             pc' \in {"idle", "count", "page", "oldest", "done"}, req' \in Params,
             listed' \in Seq(Uids), steady' \subseteq Uids, changes' \in 0..MaxChanges
      PROVE  TypeOK'
  <2>1. created' \in [Uids -> Times] /\ fresh' \subseteq Uids
    BY <1>0, <1>1 DEF TypeOK
  <2>2. /\ primary' \in [Uids -> Times \cup {NoRow}]
        /\ replica' \in [Uids -> Times \cup {NoRow}]
        /\ wal' \in Seq([key : Uids, row : Times \cup {NoRow}, by : Users])
    BY <1>1 DEF WellFormed, Records
  <2> QED
    BY <1>1, <2>1, <2>2 DEF TypeOK, Params
<1>2. ASSUME UNCHANGED <<repoVars, created, fresh, changes>>,
             pc' \in {"idle", "count", "page", "oldest", "done"}, req' \in Params,
             listed' \in Seq(Uids), steady' \subseteq Uids
      PROVE  TypeOK'
  <2>1. WellFormed(Uids, Times \cup {NoRow}, Users)' /\ pinned' \subseteq Users
    BY <1>0, <1>2 DEF repoVars, WellFormed, TypeOK
  <2>2. changes' \in 0..MaxChanges
    BY <1>0, <1>2 DEF TypeOK
  <2> QED
    BY <1>1, <1>2, <2>1, <2>2
<1>3. CASE StartList
  <2>1. <<>> \in Seq(Uids)
    OBVIOUS
  <2> QED
    BY <1>0, <1>2, <1>3, <2>1, StartListMoves DEF TypeInv
<1>4. CASE CountRows
  BY <1>0, <1>2, <1>4, CountRowsMoves DEF SameCall, TypeInv, TypeOK
<1>5. CASE QueryPage
  <2>1. /\ listed' = listed /\ SameCall /\ req' \in Params
        /\ \/ pc' = "done"
           \/ pc' = "oldest" /\ req'.page # <<>>
    BY <1>0, <1>5, QueryPageMoves
  <2> QED
    BY <1>0, <1>2, <2>1 DEF SameCall, TypeInv, TypeOK
<1>6. CASE QueryOldest
  <2>1. /\ listed' = listed \o req.page /\ SameCall /\ req' \in Params
        /\ pc' \in {"done", "count"}
    BY <1>6, QueryOldestMoves
  <2>2. listed' \in Seq(Uids)
    BY <1>0, <2>1, Request, Joined DEF TypeOK
  <2> QED
    BY <1>0, <1>2, <2>1, <2>2 DEF SameCall, TypeInv, TypeOK
<1>7. CASE FinishList
  <2>1. <<>> \in Seq(Uids) /\ NoReq \in Params
    BY DEF NoReq, Params
  <2> QED
    BY <1>2, <1>7, <2>1 DEF FinishList, TypeInv
<1>8. CASE Environs
  BY <1>0, <1>1, <1>8, EnvironsMove DEF TypeInv, TypeOK
<1>9. CASE UNCHANGED vars
  BY <1>0, <1>2, <1>9 DEF vars, listing, TypeInv, TypeOK
<1> QED
  BY <1>3, <1>4, <1>5, <1>6, <1>7, <1>8, <1>9 DEF Next, Call

\* TypeOK, of every variable of Listing.
THEOREM TypeCorrect == Spec => []TypeOK
<1>1. TypeInv => TypeOK
  BY DEF TypeInv
<1> QED
  BY <1>1, InitTypeInv, TypeInvStep, PTL DEF Spec
-----------------------------------------------------------------------------
\* The order of what is listed

\* Row y comes after row x where page tokens are compared.
After(x, y) == created[y] < created[x] \/ (created[y] = created[x] /\ y < x)

\* A part of a listing is in order: the newest rows first, and those that have
\* the create_time of another in the order of the tokens where the endpoint
\* sorts by it.
InOrder(s) ==
  \A i, j \in DOMAIN s : i < j =>
    /\ created[s[i]] >= created[s[j]]
    /\ req.op = "ListTokens" => After(s[i], s[j])
    /\ Ordered(s[i]) => s[i] # s[j]

\* The token of a call names the last row that is listed.
TokenAt(label) ==
  label \in {"count", "page", "oldest"} =>
    IF req.token = NoPageToken THEN listed = <<>>
    ELSE /\ listed # <<>>
         /\ req.token = [time |-> created[Last(listed)], uid |-> Last(listed)]

PageAt(label) ==
  label = "oldest" =>
    /\ InOrder(req.page)
    /\ \A i \in DOMAIN req.page : AfterToken(req.page[i], req.token)

OrderInv == InOrder(listed) /\ TokenAt(pc) /\ PageAt(pc)

LEMMA RowTypes ==
  ASSUME TypeOK, NEW x \in Uids
  PROVE  x \in Nat /\ created[x] \in Nat /\ IdRank[x] \in Nat
  BY ListingAssumption DEF TypeOK

\* The order of the rows is that of the tokens as far as Ordered goes.
LEMMA NewerAfter ==
  ASSUME TypeOK, NEW x \in Uids, NEW y \in Uids, Newer(req.op, x, y)
  PROVE  /\ created[x] >= created[y] /\ x # y
         /\ req.op = "ListTokens" => After(x, y)
         /\ Ordered(x) => After(x, y)
         /\ Ordered(y) => After(x, y)
<1>1. /\ x \in Nat /\ created[x] \in Nat /\ IdRank[x] \in Nat
      /\ y \in Nat /\ created[y] \in Nat /\ IdRank[y] \in Nat
  BY RowTypes
<1>2. created[x] >= created[y] /\ x # y
  BY <1>1 DEF Newer
<1>3. req.op = "ListTokens" => After(x, y)
  BY <1>1 DEF Newer, After
<1>4. req.op # "ListTokens" /\ (Ordered(x) \/ Ordered(y)) => created[x] # created[y]
  BY <1>2 DEF Ordered
<1> QED
  BY <1>1, <1>2, <1>3, <1>4 DEF After

LEMMA PageInOrder ==
  ASSUME TypeOK, NEW table, NEW page \in Pages(table)
  PROVE  /\ InOrder(page)
         /\ \A i \in DOMAIN page : AfterToken(page[i], req.token)
<1>1. page \in Seq(Found(table)) /\ Found(table) \subseteq Uids
  BY PageRows
<1>2. \A i \in DOMAIN page : page[i] \in Found(table) /\ page[i] \in Uids
  BY <1>1
<1>3. \A i, j \in DOMAIN page : i < j => Newer(req.op, page[i], page[j])
  BY PageRows
<1>4. InOrder(page)
  BY <1>2, <1>3, NewerAfter DEF InOrder
<1> QED
  BY <1>2, <1>4 DEF Found

\* A row after the token comes after every row that is listed.
LEMMA AfterListed ==
  ASSUME TypeInv, OrderInv, pc \in {"count", "page", "oldest"},
         NEW y \in Uids, AfterToken(y, req.token), NEW i \in DOMAIN listed
  PROVE  /\ created[listed[i]] >= created[y]
         /\ req.op = "ListTokens" => After(listed[i], y)
         /\ Ordered(listed[i]) => listed[i] # y
<1> DEFINE x == listed[i]
           l == Last(listed)
<1>1. TypeOK /\ listed \in Seq(Uids) /\ listed # <<>>
  BY DEF TypeInv, TypeOK
<1>2. /\ l \in Uids /\ l = listed[Len(listed)] /\ Len(listed) \in DOMAIN listed
      /\ DOMAIN listed = 1..Len(listed) /\ Len(listed) \in Nat
  BY <1>1, LastRow
<1>3. req.token # NoPageToken /\ req.token = [time |-> created[l], uid |-> l]
  BY <1>1 DEF OrderInv, TokenAt
<1>4. After(l, y)
  <2>1. req.token.time = created[l] /\ req.token.uid = l
    BY <1>3
  <2> QED
    BY <1>3, <2>1 DEF AfterToken, After
<1>5. x \in Uids
  BY <1>1
<1>6. i = Len(listed) \/ i < Len(listed)
  BY <1>2
<1>7. i < Len(listed) => /\ created[x] >= created[l]
                         /\ req.op = "ListTokens" => After(x, l)
                         /\ Ordered(x) => x # l
  BY <1>2 DEF OrderInv, InOrder
<1>8. /\ x \in Nat /\ created[x] \in Nat /\ y \in Nat /\ created[y] \in Nat
      /\ l \in Nat /\ created[l] \in Nat
  BY <1>1, <1>2, <1>5, RowTypes
<1>9. i = Len(listed) => x = l
  BY <1>2
<1> HIDE DEF x, l
<1>10. created[x] >= created[y] /\ (req.op = "ListTokens" => After(x, y))
  BY <1>4, <1>6, <1>7, <1>8, <1>9 DEF After
<1>11. ASSUME Ordered(x), x = y PROVE FALSE
  <2>1. created[x] = created[l] /\ x < l
    BY <1>4, <1>6, <1>7, <1>8, <1>9, <1>11 DEF After
  <2>2. req.op = "ListTokens"
    BY <1>2, <1>8, <1>11, <2>1 DEF Ordered
  <2>3. After(x, l)
    BY <1>6, <1>7, <1>8, <1>9, <2>1, <2>2
  <2> QED
    BY <1>8, <2>1, <2>3 DEF After
<1> QED
  BY <1>10, <1>11 DEF x
LEMMA JoinedInOrder ==
  ASSUME TypeInv, OrderInv, pc = "oldest" PROVE InOrder(listed \o req.page)
<1> DEFINE n == Len(listed)
           s == listed \o req.page
<1>1. TypeOK /\ listed \in Seq(Uids) /\ req.page \in Seq(Uids)
  BY Request DEF TypeInv, TypeOK
<1>2. /\ n \in Nat /\ DOMAIN listed = 1..n /\ DOMAIN req.page = 1..Len(req.page)
      /\ Len(req.page) \in Nat /\ DOMAIN s = 1..(n + Len(req.page))
      /\ \A i \in DOMAIN listed : s[i] = listed[i]
      /\ \A i \in DOMAIN req.page : s[n + i] = req.page[i]
  BY <1>1, Joined
<1>3. InOrder(listed) /\ InOrder(req.page)
      /\ \A i \in DOMAIN req.page : AfterToken(req.page[i], req.token)
  BY DEF OrderInv, PageAt
<1> HIDE DEF n, s
<1>4. ASSUME NEW i \in DOMAIN s
      PROVE  \/ i \in DOMAIN listed /\ s[i] = listed[i]
             \/ \E k \in DOMAIN req.page : i = n + k /\ s[i] = req.page[k]
  <2>1. CASE i <= n
    BY <1>2, <2>1
  <2>2. CASE i > n
    <3>1. i - n \in DOMAIN req.page /\ i = n + (i - n)
      BY <1>2, <2>2
    <3> QED
      BY <1>2, <3>1
  <2> QED
    BY <1>2, <2>1, <2>2
<1>5. ASSUME NEW i \in DOMAIN s, NEW j \in DOMAIN s, i < j
      PROVE  /\ created[s[i]] >= created[s[j]]
             /\ req.op = "ListTokens" => After(s[i], s[j])
             /\ Ordered(s[i]) => s[i] # s[j]
  <2>1. CASE i \in DOMAIN listed /\ j \in DOMAIN listed
    BY <1>2, <1>3, <1>5, <2>1 DEF InOrder
  <2>2. ASSUME i \in DOMAIN listed, NEW k \in DOMAIN req.page, s[j] = req.page[k]
        PROVE  /\ created[s[i]] >= created[s[j]]
               /\ req.op = "ListTokens" => After(s[i], s[j])
               /\ Ordered(s[i]) => s[i] # s[j]
    <3>1. s[i] = listed[i] /\ s[j] \in Uids /\ AfterToken(s[j], req.token)
      BY <1>1, <1>2, <1>3, <2>2
    <3> QED
      BY <2>2, <3>1, AfterListed
  <2>3. ASSUME NEW k \in DOMAIN req.page, i = n + k, j \in DOMAIN listed PROVE FALSE
    BY <1>2, <1>5, <2>3
  <2>4. ASSUME NEW k \in DOMAIN req.page, i = n + k, s[i] = req.page[k],
               NEW h \in DOMAIN req.page, j = n + h, s[j] = req.page[h]
        PROVE  /\ created[s[i]] >= created[s[j]]
               /\ req.op = "ListTokens" => After(s[i], s[j])
               /\ Ordered(s[i]) => s[i] # s[j]
    <3>1. k < h
      BY <1>2, <1>5, <2>4
    <3> QED
      BY <1>3, <2>4, <3>1 DEF InOrder
  <2> QED
    BY <1>4, <2>1, <2>2, <2>3, <2>4
<1> QED
  BY <1>5 DEF InOrder, s

LEMMA OrderStep == TypeInv /\ OrderInv /\ [Next]_vars => OrderInv'
<1> SUFFICES ASSUME TypeInv, OrderInv, [Next]_vars PROVE OrderInv'
  OBVIOUS
<1>0. TypeOK /\ InOrder(listed)
  BY DEF TypeInv, OrderInv
<1>1. ASSUME NEW s, InOrder(s), UNCHANGED created, req'.op = req.op PROVE InOrder(s)'
  BY <1>1 DEF InOrder, After, Ordered
<1>2. ASSUME UNCHANGED <<created, pc, req, listed>> PROVE OrderInv'
  BY <1>2 DEF OrderInv, InOrder, After, Ordered, TokenAt, PageAt, AfterToken
<1>3. ASSUME listed' = <<>>, pc' \in {"count", "idle"}, req'.token = NoPageToken
      PROVE  OrderInv'
  <2>1. DOMAIN listed' = {}
    BY <1>3
  <2> QED
    BY <1>3, <2>1 DEF OrderInv, InOrder, TokenAt, PageAt
<1>4. CASE StartList
  BY <1>0, <1>3, <1>4, StartListMoves
<1>5. ASSUME SameCall, listed' = listed PROVE InOrder(listed)'
  BY <1>0, <1>5 DEF SameCall, InOrder, After, Ordered
<1>6. CASE CountRows
  <2>1. /\ pc = "count" /\ pc' = "page" /\ listed' = listed /\ SameCall
        /\ req'.token = req.token
    BY <1>0, <1>6, CountRowsMoves
  <2>2. TokenAt(pc)' /\ PageAt(pc)'
    BY <2>1 DEF OrderInv, TokenAt, PageAt, SameCall
  <2> QED
    BY <1>5, <2>1, <2>2 DEF OrderInv
<1>7. CASE QueryPage
  <2>1. pc = "page" /\ listed' = listed /\ SameCall
    BY <1>0, <1>7, QueryPageMoves
  <2>2. PICK page \in Pages(Handle) :
          \/ pc' = "done"
          \/ pc' = "oldest" /\ req'.page = page /\ req'.token = req.token
    BY <1>0, <1>7, QueryPageMoves
  <2>3. InOrder(page) /\ \A i \in DOMAIN page : AfterToken(page[i], req.token)
    BY <1>0, PageInOrder
  <2>4. CASE pc' = "done"
    BY <1>5, <2>1, <2>4 DEF OrderInv, TokenAt, PageAt
  <2>5. CASE pc' = "oldest" /\ req'.page = page /\ req'.token = req.token
    <3>1. TokenAt(pc)'
      BY <2>1, <2>5 DEF OrderInv, TokenAt, SameCall
    <3>2. InOrder(page)'
      BY <1>1, <2>1, <2>3 DEF SameCall
    <3>3. InOrder(req.page)'
      BY <2>5, <3>2 DEF InOrder
    <3>4. PageAt(pc)'
      BY <2>1, <2>3, <2>5, <3>3 DEF PageAt, AfterToken, SameCall
    <3> QED
      BY <1>5, <2>1, <3>1, <3>4 DEF OrderInv
  <2> QED
    BY <2>2, <2>4, <2>5
<1>8. CASE QueryOldest
  <2>1. /\ pc = "oldest" /\ listed' = listed \o req.page /\ SameCall
        /\ \/ pc' = "done"
           \/ /\ pc' = "count"
              /\ req'.token = [time |-> created[Last(req.page)], uid |-> Last(req.page)]
    BY <1>8, QueryOldestMoves
  <2>2. InOrder(listed)'
    BY <2>1, JoinedInOrder DEF SameCall, InOrder, After, Ordered
  <2>3. listed' # <<>> /\ Last(listed') = Last(req.page)
    <3>1. listed \in Seq(Uids) /\ req.page \in Seq(Uids) /\ req.page # <<>>
      BY <1>0, <2>1, Request DEF TypeInv, TypeOK
    <3>2. Len(req.page) \in Nat \ {0} /\ Len(listed) \in Nat
      BY <3>1
    <3>3. /\ DOMAIN listed' = 1..(Len(listed) + Len(req.page)) /\ listed' \in Seq(Uids)
          /\ listed'[Len(listed) + Len(req.page)] = req.page[Len(req.page)]
      BY <2>1, <3>1, <3>2, Joined
    <3>4. Len(listed') = Len(listed) + Len(req.page)
      BY <2>1, <3>1
    <3>5. listed' # <<>>
      BY <3>2, <3>4
    <3> QED
      BY <3>3, <3>4, <3>5 DEF Last
  <2>4. TokenAt(pc)' /\ PageAt(pc)'
    <3>1. CASE pc' = "done"
      BY <3>1 DEF TokenAt, PageAt
    <3>2. CASE pc' = "count" /\ req'.token = [time |-> created[Last(req.page)],
                                              uid |-> Last(req.page)]
      <4>1. created'[Last(listed')] = created[Last(req.page)]
        BY <2>1, <2>3 DEF SameCall
      <4>2. req'.token = [time |-> created'[Last(listed')], uid |-> Last(listed')]
        BY <2>3, <3>2, <4>1
      <4>3. created'[Last(listed')] \in Times /\ Last(listed') \in Uids
        BY <1>0, <2>1, <2>3, <4>1, Request, LastRow DEF TypeInv, TypeOK
      <4>4. req'.token # NoPageToken
        BY <4>2, <4>3, ListingAssumption
      <4> QED
        BY <2>3, <3>2, <4>2, <4>4 DEF TokenAt, PageAt
    <3> QED
      BY <2>1, <3>1, <3>2
  <2> QED
    BY <2>2, <2>4 DEF OrderInv
<1>9. CASE FinishList
  BY <1>3, <1>9 DEF FinishList, NoReq
<1>10. CASE Environs
  BY <1>0, <1>2, <1>10, EnvironsMove
<1>11. CASE UNCHANGED vars
  BY <1>2, <1>11 DEF vars, listing
<1> QED
  BY <1>4, <1>6, <1>7, <1>8, <1>9, <1>10, <1>11 DEF Next, Call

LEMMA OrderAlways == Spec => [](TypeInv /\ OrderInv)
<1>1. Init => OrderInv
  BY DEF Init, OrderInv, InOrder, TokenAt, PageAt
<1>2. TypeInv /\ OrderInv /\ [Next]_vars => TypeInv' /\ OrderInv'
  BY TypeInvStep, OrderStep
<1> QED
  BY <1>1, <1>2, InitTypeInv, PTL DEF Spec

\* ListedOnce, of ListOwners and ListTokens: for any number of pages, whatever
\* is inserted and deleted between the queries, and from whichever database.
THEOREM Once == Spec => []ListedOnce
<1>1. TypeInv /\ OrderInv => ListedOnce
  <2> SUFFICES ASSUME TypeInv, OrderInv, NEW i \in DOMAIN listed, NEW j \in DOMAIN listed,
                      listed[i] = listed[j], Ordered(listed[i])
               PROVE  i = j
    BY DEF ListedOnce
  <2>1. i \in Nat /\ j \in Nat
    BY DEF TypeInv, TypeOK
  <2>2. ~(i < j) /\ ~(j < i)
    BY DEF OrderInv, InOrder
  <2> QED
    BY <2>1, <2>2
<1> QED
  BY <1>1, OrderAlways, PTL

\* NewestFirst, of ListOwners and ListTokens: the pages together are in the
\* order of the create_times.
THEOREM Newest == Spec => []NewestFirst
<1>1. OrderInv => NewestFirst
  BY DEF OrderInv, InOrder, NewestFirst
<1> QED
  BY <1>1, OrderAlways, PTL
-----------------------------------------------------------------------------
\* Every row is listed

\* A deletion the replica is still to apply is of a row that has none any more
\* and gets none again; no row is steady that one of the databases is without.
RowsInv ==
  /\ \A x \in fresh : primary[x] = NoRow
  /\ \A i \in DOMAIN wal : wal[i].row = NoRow =>
       primary[wal[i].key] = NoRow /\ wal[i].key \notin fresh
  /\ \A x \in steady : primary[x] # NoRow /\ replica[x] # NoRow

LEMMA RowsStep == TypeInv /\ RowsInv /\ [Next]_vars => RowsInv'
<1> SUFFICES ASSUME TypeInv, RowsInv, [Next]_vars PROVE RowsInv'
  OBVIOUS
<1>0. /\ TypeOK /\ WellFormed(Uids, Times \cup {NoRow}, Users)
      /\ created \in [Uids -> Times] /\ fresh \subseteq Uids /\ steady \subseteq Uids
      /\ \A i \in DOMAIN wal : wal[i].key \in Uids
  BY Tables, LogRecords DEF TypeInv, TypeOK
<1>1. ASSUME UNCHANGED <<repoVars, fresh>>, steady' \subseteq steady PROVE RowsInv'
  BY <1>1 DEF RowsInv, repoVars
<1>2. CASE StartList
  BY <1>0, <1>2, StartListMoves DEF RowsInv, repoVars
<1>3. CASE Call
  BY <1>0, <1>1, <1>3, CountRowsMoves, QueryPageMoves, QueryOldestMoves
     DEF Call, SameCall, TypeInv
<1>4. CASE FinishList
  BY <1>1, <1>4 DEF FinishList
<1>5. ASSUME NEW u \in Users, Pin(u) PROVE RowsInv'
  BY <1>5 DEF Pin, RowsInv, listing
<1>6. ASSUME NEW x \in Uids, NEW u \in Users, Insert(x, u) PROVE RowsInv'
  <2>1. x \in fresh /\ created[x] \in Times \cup {NoRow} /\ Commit(x, created[x], u)
        /\ fresh' = fresh \ {x} /\ steady' = steady
    BY <1>0, <1>6 DEF Insert, listing
  <2>2. /\ \A j \in Uids \ {x} : primary'[j] = primary[j]
        /\ primary'[x] = created[x] /\ replica' = replica
        /\ \A i \in DOMAIN wal' :
             \/ i \in DOMAIN wal /\ wal'[i] = wal[i]
             \/ wal'[i].key = x /\ wal'[i].row = created[x]
    <3>1. PICK row \in Times \cup {NoRow} : row = created[x]
      BY <2>1
    <3>2. Commit(x, row, u)
      BY <2>1, <3>1
    <3>3. /\ \A j \in Uids \ {x} : primary'[j] = primary[j]
          /\ primary'[x] = row /\ replica' = replica
          /\ \A i \in DOMAIN wal' :
               \/ i \in DOMAIN wal /\ wal'[i] = wal[i]
               \/ wal'[i].key = x /\ wal'[i].row = row
      BY <1>0, <3>2, CommitEffect
    <3> QED
      BY <3>1, <3>3
  <2>3. x \notin steady
    BY <2>1 DEF RowsInv
  <2>4. \A y \in steady' : primary'[y] # NoRow /\ replica'[y] # NoRow
    BY <1>0, <2>1, <2>2, <2>3 DEF RowsInv
  <2>5. \A y \in fresh' : primary'[y] = NoRow
    BY <1>0, <2>1, <2>2 DEF RowsInv
  <2>6. \A i \in DOMAIN wal' : wal'[i].row = NoRow =>
          primary'[wal'[i].key] = NoRow /\ wal'[i].key \notin fresh'
    BY <1>0, <2>1, <2>2 DEF RowsInv
  <2> QED
    BY <2>4, <2>5, <2>6 DEF RowsInv
<1>7. ASSUME NEW x \in Uids, NEW u \in Users, Delete(x, u) PROVE RowsInv'
  <2>1. /\ primary[x] # NoRow /\ NoRow \in Times \cup {NoRow} /\ Commit(x, NoRow, u)
        /\ fresh' = fresh /\ steady' = steady \ {x}
    BY <1>7 DEF Delete
  <2>2. /\ \A j \in Uids \ {x} : primary'[j] = primary[j]
        /\ primary'[x] = NoRow /\ replica' = replica
        /\ \A i \in DOMAIN wal' :
             \/ i \in DOMAIN wal /\ wal'[i] = wal[i]
             \/ wal'[i].key = x /\ wal'[i].row = NoRow
    BY <1>0, <2>1, CommitEffect
  <2>3. x \notin fresh
    BY <2>1 DEF RowsInv
  <2>4. \A y \in steady' : primary'[y] # NoRow /\ replica'[y] # NoRow
    BY <1>0, <2>1, <2>2 DEF RowsInv
  <2>5. \A y \in fresh' : primary'[y] = NoRow
    BY <1>0, <2>1, <2>2 DEF RowsInv
  <2>6. \A i \in DOMAIN wal' : wal'[i].row = NoRow =>
          primary'[wal'[i].key] = NoRow /\ wal'[i].key \notin fresh'
    BY <1>0, <2>1, <2>2, <2>3 DEF RowsInv
  <2> QED
    BY <2>4, <2>5, <2>6 DEF RowsInv
<1>8. ASSUME Replicate, UNCHANGED <<created, fresh, listing, changes>> PROVE RowsInv'
  <2>1. /\ primary' = primary /\ 1 \in DOMAIN wal
        /\ \A i \in DOMAIN wal' : i + 1 \in DOMAIN wal /\ wal'[i] = wal[i + 1]
        /\ replica'[wal[1].key] = wal[1].row
        /\ \A j \in Uids \ {wal[1].key} : replica'[j] = replica[j]
    BY <1>0, <1>8, ReplicateEffect
  <2>2. \A x \in steady : primary[x] # NoRow /\ replica'[x] # NoRow
    <3> TAKE x \in steady
    <3>1. CASE x = wal[1].key
      BY <2>1, <3>1 DEF RowsInv
    <3>2. CASE x # wal[1].key
      BY <1>0, <2>1, <3>2 DEF RowsInv
    <3> QED
      BY <3>1, <3>2
  <2> QED
    BY <1>8, <2>1, <2>2 DEF RowsInv, listing
<1>9. ASSUME NEW u, PinExpire(u, FALSE), UNCHANGED <<created, fresh, listing, changes>>
      PROVE  RowsInv'
  BY <1>9 DEF PinExpire, RowsInv, listing
<1>10. CASE UNCHANGED vars
  BY <1>1, <1>10 DEF vars, listing
<1> QED
  BY <1>2, <1>3, <1>4, <1>5, <1>6, <1>7, <1>8, <1>9, <1>10 DEF Next, Environs
\* A steady row that is not listed comes after the token, or is on its page.
Missing(x) ==
  x \in steady /\ x \in req.filter /\ Ordered(x) /\ x \notin ToSet(listed)

CompleteAt(label) ==
  /\ label \in {"count", "page"} =>
       \A x \in Uids : Missing(x) => AfterToken(x, req.token)
  /\ label = "oldest" =>
       \A x \in Uids : Missing(x) => x \in ToSet(req.page) \/ After(Last(req.page), x)
  /\ label = "done" => \A x \in Uids : ~Missing(x)

LEMMA LimitPositive ==
  ASSUME TypeOK, Uids # {} PROVE Limit(req.op, req.pageSize) > 0
<1>1. req.pageSize \in Nat
  <2>1. req.pageSize \in PageSizes \/ req.pageSize = 0
    BY DEF TypeOK
  <2>2. \A size \in PageSizes : size \in Nat
    BY ListingAssumption
  <2>3. CASE req.pageSize = 0
    BY <2>3
  <2>4. CASE req.pageSize \in PageSizes
    BY <2>2, <2>4
  <2> QED
    BY <2>1, <2>3, <2>4
<1>2. Cardinality(Uids) \in Nat /\ Cardinality(Uids) # 0
  BY FS_CardinalityType, FS_EmptySet, ListingAssumption
<1> QED
  BY <1>1, <1>2, ListingAssumption DEF Limit

LEMMA SteadyFound ==
  ASSUME TypeInv, RowsInv, NEW x \in Uids, x \in steady
  PROVE  x \in Rows(Handle)
<1>1. primary[x] # NoRow /\ replica[x] # NoRow
  BY DEF RowsInv
<1>2. CASE req.handle = "primary"
  BY <1>1, <1>2 DEF Rows, Handle
<1>3. CASE req.handle # "primary"
  BY <1>1, <1>3 DEF Rows, Handle
<1> QED
  BY <1>2, <1>3

\* The query misses no row: what is not on the page comes after it.
LEMMA PageComplete ==
  ASSUME TypeInv, RowsInv, CompleteAt("page"), NEW page \in Pages(Handle),
         NEW x \in Uids, Missing(x)
  PROVE  /\ page # <<>>
         /\ x \in ToSet(page) \/ After(Last(page), x)
<1>0. TypeOK
  BY DEF TypeInv
<1>1. x \in Found(Handle)
  BY SteadyFound DEF Missing, CompleteAt, Found
<1>2. page \in Seq(Found(Handle)) /\ Found(Handle) \subseteq Uids
  BY PageRows
<1>3. page # <<>>
  <2>1. ASSUME page = <<>> PROVE FALSE
    <3>1. Len(page) < Limit(req.op, req.pageSize)
      BY <1>0, <2>1, LimitPositive
    <3>2. ToSet(page) = {}
      BY <2>1 DEF ToSet
    <3> QED
      BY <1>1, <3>1, <3>2, PageRows
  <2> QED
    BY <2>1
<1>4. CASE x \notin ToSet(page)
  <2>1. Last(page) \in Uids /\ Last(page) = page[Len(page)] /\ Len(page) \in DOMAIN page
    BY <1>2, <1>3, LastRow
  <2>2. Newer(req.op, Last(page), x)
    BY <1>1, <1>4, <2>1, PageRows
  <2> QED
    BY <1>0, <1>3, <2>1, <2>2, NewerAfter DEF Missing
<1> QED
  BY <1>3, <1>4

LEMMA JoinedRows ==
  ASSUME NEW s \in Seq(Uids), NEW t \in Seq(Uids)
  PROVE  ToSet(s) \subseteq ToSet(s \o t) /\ ToSet(t) \subseteq ToSet(s \o t)
<1>1. /\ Len(s) \in Nat /\ Len(t) \in Nat
      /\ DOMAIN s = 1..Len(s) /\ DOMAIN t = 1..Len(t)
      /\ DOMAIN (s \o t) = 1..(Len(s) + Len(t))
      /\ \A i \in DOMAIN s : (s \o t)[i] = s[i]
      /\ \A i \in DOMAIN t : (s \o t)[Len(s) + i] = t[i]
  BY Joined
<1>2. \A i \in DOMAIN s : i \in DOMAIN (s \o t)
  BY <1>1
<1>3. \A i \in DOMAIN t : Len(s) + i \in DOMAIN (s \o t)
  BY <1>1
<1> QED
  BY <1>1, <1>2, <1>3 DEF ToSet

LEMMA CompleteStep ==
  TypeInv /\ OrderInv /\ RowsInv /\ CompleteAt(pc) /\ [Next]_vars => CompleteAt(pc)'
<1> SUFFICES ASSUME TypeInv, OrderInv, RowsInv, CompleteAt(pc), [Next]_vars
             PROVE  CompleteAt(pc)'
  OBVIOUS
<1>0. TypeOK
  BY DEF TypeInv
<1>1. ASSUME UNCHANGED <<created, pc, req, listed>>, steady' \subseteq steady
      PROVE  CompleteAt(pc)'
  BY <1>1 DEF CompleteAt, Missing, Ordered, AfterToken, After
<1>2. CASE StartList
  BY <1>0, <1>2, StartListMoves DEF CompleteAt, AfterToken
<1>3. ASSUME SameCall, NEW x, Missing(x)', ToSet(listed) \subseteq ToSet(listed')
      PROVE  Missing(x)
  BY <1>3 DEF SameCall, Missing, Ordered
<1>4. CASE CountRows
  <2>1. /\ pc = "count" /\ pc' = "page" /\ listed' = listed /\ SameCall
        /\ req'.token = req.token
    BY <1>0, <1>4, CountRowsMoves
  <2>2. \A x \in Uids : Missing(x)' => AfterToken(x, req.token)
    BY <1>3, <2>1 DEF CompleteAt
  <2> QED
    BY <2>1, <2>2 DEF CompleteAt, AfterToken, SameCall
<1>5. CASE QueryPage
  <2>1. pc = "page" /\ listed' = listed /\ SameCall
    BY <1>0, <1>5, QueryPageMoves
  <2>2. PICK page \in Pages(Handle) :
          \/ page = <<>> /\ pc' = "done"
          \/ page # <<>> /\ pc' = "oldest" /\ req'.page = page
    BY <1>0, <1>5, QueryPageMoves
  <2>3. \A x \in Uids : Missing(x)' =>
          page # <<>> /\ (x \in ToSet(page) \/ After(Last(page), x))
    BY <1>3, <2>1, PageComplete
  <2>4. CASE page = <<>> /\ pc' = "done"
    BY <2>3, <2>4 DEF CompleteAt
  <2>5. CASE page # <<>> /\ pc' = "oldest" /\ req'.page = page
    BY <2>1, <2>3, <2>5 DEF CompleteAt, After, SameCall
  <2> QED
    BY <2>2, <2>4, <2>5
<1>6. CASE QueryOldest
  <2> DEFINE last == Last(req.page)
  <2>1. /\ pc = "oldest" /\ listed' = listed \o req.page /\ SameCall
        /\ \/ pc' = "done" /\ IsOldest(last, Handle)
           \/ /\ pc' = "count"
              /\ req'.token = [time |-> created[last], uid |-> last]
    BY <1>6, QueryOldestMoves
  <2>2. listed \in Seq(Uids) /\ req.page \in Seq(Uids) /\ last \in Uids
    BY <1>0, <2>1, Request, LastRow DEF TypeInv, TypeOK
  <2>3. ToSet(listed) \subseteq ToSet(listed') /\ ToSet(req.page) \subseteq ToSet(listed')
    BY <2>1, <2>2, JoinedRows
  <2>4. ASSUME NEW x \in Uids, Missing(x)' PROVE Missing(x) /\ After(last, x)
    <3>1. Missing(x) /\ x \notin ToSet(listed')
      BY <1>3, <2>1, <2>3, <2>4 DEF Missing
    <3> QED
      BY <2>1, <2>3, <3>1 DEF CompleteAt
  <2>5. CASE pc' = "done" /\ IsOldest(last, Handle)
    <3>1. ASSUME NEW x \in Uids, Missing(x)' PROVE FALSE
      <4>1. After(last, x) /\ x \in Rows(Handle) /\ x \in req.filter
        BY <2>4, <3>1, SteadyFound DEF Missing
      <4>2. created[last] < created[x] \/ (created[last] = created[x] /\ last <= x)
        BY <2>5, <4>1 DEF IsOldest
      <4>3. /\ x \in Nat /\ created[x] \in Nat
            /\ last \in Nat /\ created[last] \in Nat
        BY <1>0, <2>2, RowTypes
      <4> HIDE DEF last
      <4> QED
        BY <4>1, <4>2, <4>3 DEF After
    <3> QED
      BY <2>5, <3>1 DEF CompleteAt
  <2>6. CASE pc' = "count" /\ req'.token = [time |-> created[last], uid |-> last]
    <3>1. req'.token.time = created[last] /\ req'.token.uid = last
      BY <2>6
    <3>2. \A x \in Uids : Missing(x)' => After(last, x)
      BY <2>4
    <3>3. \A x \in Uids : Missing(x)' => AfterToken(x, req.token)'
      BY <2>1, <3>1, <3>2 DEF AfterToken, After, SameCall
    <3> QED
      BY <2>6, <3>3 DEF CompleteAt
  <2> QED
    BY <2>1, <2>5, <2>6
<1>7. CASE FinishList
  BY <1>7 DEF FinishList, CompleteAt
<1>8. CASE Environs
  BY <1>0, <1>1, <1>8, EnvironsMove
<1>9. CASE UNCHANGED vars
  BY <1>1, <1>9 DEF vars, listing
<1> QED
  BY <1>2, <1>4, <1>5, <1>6, <1>7, <1>8, <1>9 DEF Next, Call

\* ListedCompletely, of ListOwners and ListTokens: for any number of rows and
\* pages, with any lag of the replica and any pin.
THEOREM Completely == Spec => []ListedCompletely
<1>1. Init => RowsInv /\ CompleteAt(pc)
  BY DEF Init, RepoInit, RowsInv, CompleteAt
<1>2. TypeInv /\ OrderInv /\ RowsInv /\ CompleteAt(pc) /\ [Next]_vars
        => RowsInv' /\ CompleteAt(pc)'
  BY RowsStep, CompleteStep
<1>3. TypeInv /\ CompleteAt(pc) => ListedCompletely
  <2>1. TypeInv => steady \subseteq Uids
    BY DEF TypeInv, TypeOK
  <2> QED
    BY <2>1 DEF CompleteAt, Missing, ListedCompletely
<1> QED
  BY <1>1, <1>2, <1>3, OrderAlways, PTL DEF Spec
=============================================================================
