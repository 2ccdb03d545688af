------------------------------ MODULE Listing ------------------------------
(***************************************************************************)
(* The paged listings: ListUsers, ListUsersAdmin (repository ListOwners)   *)
(* and ListTokens, called page after page by one client while rows are     *)
(* inserted and deleted, the replica lags and the pin of the caller comes  *)
(* and goes.                                                               *)
(*                                                                         *)
(* A call makes three queries, each on the database as it then is: the     *)
(* count, the page, and the oldest row, which tells whether there is a     *)
(* next page.  The keys of the tables are the UIDs; a row is its           *)
(* create_time.                                                            *)
(***************************************************************************)
EXTENDS Repository, SequencesExt

CONSTANTS
  Uids,             \* the UIDs rows may get, as numbers in the database's order
  IdRank,           \* the position of each row's id in the order of the ids
  Times,            \* create_times; those of two rows may be equal
  PageSizes,        \* the page sizes clients ask for; 0 is "not given"
  DefaultPageSize,  \* bound: stands for 10 (ListUsersAdmin), 100 (ListTokens)
  MaxPageSize,      \* bound: stands for 100 and 1000
  Filters,          \* the sets of rows a filter may select
  NoPageToken,      \* no page token
  MaxChanges        \* bound: how many rows are inserted or deleted

ASSUME ListingAssumption ==
  /\ Uids \subseteq Nat /\ IsFiniteSet(Uids)
  /\ Times \subseteq Nat
  /\ NoPageToken \notin [time : Times, uid : Uids]
  /\ IdRank \in [Uids -> Nat]
  /\ \A x, y \in Uids : IdRank[x] = IdRank[y] => x = y
  /\ PageSizes \subseteq Nat
  /\ DefaultPageSize \in Nat \ {0} /\ MaxPageSize \in Nat \ {0}
  /\ Filters \subseteq SUBSET Uids
  /\ MaxChanges \in Nat

VARIABLES
  created,  \* the create_time each UID's row has, once there is one
  fresh,    \* the UIDs no row has had
  pc,       \* what the client's call does next
  req,      \* the parameters and local variables of the call
  listed,   \* the rows the client has been given, page after page
  steady,   \* history: rows both databases have had since the listing began
  changes   \* how many rows have been inserted or deleted

listing == <<pc, req, listed, steady>>
vars == <<repoVars, created, fresh, listing, changes>>

Endpoints == {"ListUsers", "ListUsersAdmin", "ListTokens"}

\* A page token names the last row of its page by create_time and UID.
PageToken == [time : Times, uid : Uids]

NoReq == [op        |-> "none",
          ctx       |-> NoUser,       \* the user the context carries
          pageSize  |-> 0,
          filter    |-> {},           \* the rows the filter selects
          token     |-> NoPageToken,  \* page_token, then next_page_token
          handle    |-> "primary",    \* the database CheckPinnedUser chose
          page      |-> <<>>]         \* the UIDs of the page

Init ==
  /\ created \in [Uids -> Times]
  /\ fresh \in SUBSET Uids
  /\ RepoInit([x \in Uids |-> IF x \in fresh THEN NoRow ELSE created[x]])
  /\ pc = "idle"
  /\ req = NoReq
  /\ listed = <<>>
  /\ steady = {}
  /\ changes = 0

-----------------------------------------------------------------------------
\* The queries

Rows(table) == {x \in Uids : table[x] # NoRow}

\* The database behind the handle, as it is when the query runs.
Handle == IF req.handle = "primary" THEN primary ELSE replica

\* CheckPinnedUser returns a handle, and a call keeps the one it was given.
Handles(u) ==
  IF ~HasReplica \/ u \in pinned
  THEN {"primary"}
  ELSE {"replica"} \cup (IF RedisMayFail THEN {"primary"} ELSE {})

\* A mutant of Newer: the order is ascending.
OldestFirst(op, x, y) ==
  \/ created[x] < created[y]
  \/ created[x] = created[y] /\ x < y

\* ORDER BY create_time DESC, id DESC for owners, uid DESC for tokens
Newer(op, x, y) ==
  \/ created[x] > created[y]
  \/ /\ created[x] = created[y]
     /\ IF op = "ListTokens" THEN x > y ELSE IdRank[x] > IdRank[y]

\* Mutants of AfterToken: a row that has the create_time of the token is left
\* out, or the row of the token itself is not.
AfterTokenByTime(x, token) ==
  token # NoPageToken => created[x] < token.time

AfterTokenOrEqual(x, token) ==
  token # NoPageToken =>
    \/ created[x] < token.time
    \/ created[x] = token.time /\ x <= token.uid

\* WHERE (create_time, uid) < (token), for owners and tokens alike
AfterToken(x, token) ==
  token # NoPageToken =>
    \/ created[x] < token.time
    \/ created[x] = token.time /\ x < token.uid

\* ListUsers hands the page size on, and ListOwners takes 0 for "no limit".
Limit(op, size) ==
  IF size = 0
  THEN IF op = "ListUsers" THEN Cardinality(Uids) ELSE DefaultPageSize
  ELSE IF op # "ListUsers" /\ size > MaxPageSize THEN MaxPageSize ELSE size

Found(table) == {x \in Rows(table) \cap req.filter : AfterToken(x, req.token)}

\* What the query returns: the first rows, in their order, up to the limit.
Pages(table) ==
  LET limit == Limit(req.op, req.pageSize)
      found == Found(table)
  IN  {page \in SeqOf(found, Cardinality(found)) :
         /\ \A i, j \in DOMAIN page : i < j => Newer(req.op, page[i], page[j])
         /\ \A x \in found : \/ x \in ToSet(page)
                            \/ \A i \in DOMAIN page : Newer(req.op, page[i], x)
         /\ Len(page) <= limit
         /\ Len(page) < limit => ToSet(page) = found}

\* ORDER BY create_time ASC, uid ASC LIMIT 1: is x that row?  (If there is no
\* row any more, the answer is the zero UID, which no row has.)
IsOldest(x, table) ==
  /\ x \in Rows(table)
  /\ \A y \in Rows(table) \cap req.filter :
       \/ created[x] < created[y]
       \/ created[x] = created[y] /\ x <= y

-----------------------------------------------------------------------------
\* A listing: its first call and, as long as there is a page token, the next

StartList ==
  \E op \in Endpoints, u \in Users, size \in PageSizes, f \in Filters :
    /\ pc = "idle"
    /\ op # "ListUsers" => f = Uids
    /\ pc' = "count"
    /\ req' = [NoReq EXCEPT !.op = op, !.pageSize = size, !.filter = f,
                            !.ctx = IF op = "ListUsersAdmin" THEN NoUser ELSE u]
    /\ listed' = <<>>
    /\ steady' = {x \in Uids : primary[x] # NoRow /\ replica[x] # NoRow}
    /\ UNCHANGED <<repoVars, created, fresh, changes>>

\* SELECT count(*): its value goes into the answer and decides nothing.
CountRows ==
  /\ pc = "count"
  /\ \E h \in Handles(req.ctx) : req' = [req EXCEPT !.handle = h]
  /\ pc' = "page"
  /\ UNCHANGED <<repoVars, created, fresh, listed, steady, changes>>

\* Mutants of QueryPage: an empty page is answered with the token that was
\* given ...
QueryPageKeepsToken ==
  /\ pc = "page"
  /\ \E page \in Pages(Handle) :
         IF page = <<>>
         THEN /\ pc' = IF req.token = NoPageToken THEN "done" ELSE "count"
              /\ UNCHANGED req
         ELSE /\ pc' = "oldest"
              /\ req' = [req EXCEPT !.page = page]
  /\ UNCHANGED <<repoVars, created, fresh, listed, steady, changes>>

\* ... or with one of the zero values of create_time and UID.
QueryPageZeroToken ==
  /\ pc = "page"
  /\ \E page \in Pages(Handle) :
         IF page = <<>>
         THEN /\ pc' = "done"
              /\ req' = [req EXCEPT !.token = [time |-> 0, uid |-> 0]]
         ELSE /\ pc' = "oldest"
              /\ req' = [req EXCEPT !.page = page]
  /\ UNCHANGED <<repoVars, created, fresh, listed, steady, changes>>

\* An empty page has no next one.
QueryPage ==
  /\ pc = "page"
  /\ \E page \in Pages(Handle) :
         IF page = <<>>
         THEN /\ pc' = "done"
              /\ req' = [req EXCEPT !.token = NoPageToken]
         ELSE /\ pc' = "oldest"
              /\ req' = [req EXCEPT !.page = page]
  /\ UNCHANGED <<repoVars, created, fresh, listed, steady, changes>>

\* The client gets the page and, unless its last row is the oldest one, a page
\* token, with which it calls again.
QueryOldest ==
  /\ pc = "oldest"
  /\ LET last == Last(req.page)
     IN  IF IsOldest(last, Handle)
         THEN /\ pc' = "done"
              /\ req' = [req EXCEPT !.token = NoPageToken, !.page = <<>>]
         ELSE /\ pc' = "count"
              /\ req' = [req EXCEPT
                   !.token = [time |-> created[last], uid |-> last],
                   !.page = <<>>]
  /\ listed' = listed \o req.page
  /\ UNCHANGED <<repoVars, created, fresh, steady, changes>>

FinishList ==
  /\ pc = "done"
  /\ pc' = "idle"
  /\ req' = NoReq
  /\ listed' = <<>>
  /\ steady' = {}
  /\ UNCHANGED <<repoVars, created, fresh, changes>>

-----------------------------------------------------------------------------
\* Other requests, of which only the write is told apart from the pin.  The
\* create_time is set by the process that inserts, so that a row may become
\* visible after a newer one.

Pin(u) ==
  /\ u \notin pinned
  /\ changes < MaxChanges
  /\ PinUser(u)
  /\ UNCHANGED <<primary, replica, wal, created, fresh, listing, changes>>

Insert(x, u) ==
  /\ x \in fresh
  /\ changes < MaxChanges
  /\ Commit(x, created[x], u)
  /\ fresh' = fresh \ {x}
  /\ changes' = changes + 1
  /\ UNCHANGED <<pinned, created, listing>>

Delete(x, u) ==
  /\ primary[x] # NoRow
  /\ changes < MaxChanges
  /\ Commit(x, NoRow, u)
  /\ steady' = steady \ {x}
  /\ changes' = changes + 1
  /\ UNCHANGED <<pinned, created, fresh, pc, req, listed>>

Environs ==
  \/ \E u \in Users : Pin(u)
  \/ \E x \in Uids, u \in Users : Insert(x, u) \/ Delete(x, u)
  \/ Replicate /\ UNCHANGED <<created, fresh, listing, changes>>
  \/ \E u \in Users : PinExpire(u, FALSE)
                        /\ UNCHANGED <<created, fresh, listing, changes>>

Call == CountRows \/ QueryPage \/ QueryOldest

Next == StartList \/ Call \/ FinishList \/ Environs

Spec == Init /\ [][Next]_vars

\* The client goes on as long as it gets page tokens, the server answers.
FairSpec == Spec /\ WF_vars(Call)

-----------------------------------------------------------------------------
\* Properties

\* Every variable has its type.
TypeOK ==
  /\ primary \in [Uids -> Times \cup {NoRow}]
  /\ replica \in [Uids -> Times \cup {NoRow}]
  /\ wal \in Seq([key : Uids, row : Times \cup {NoRow}, by : Users])
  /\ pinned \subseteq Users
  /\ created \in [Uids -> Times]
  /\ fresh \subseteq Uids
  /\ pc \in {"idle", "count", "page", "oldest", "done"}
  /\ req \in [op : Endpoints \cup {"none"}, ctx : Users \cup {NoUser},
              pageSize : PageSizes \cup {0}, filter : Filters \cup {{}},
              token : PageToken \cup {NoPageToken},
              handle : {"primary", "replica"}, page : Seq(Uids)]
  /\ listed \in Seq(Uids)
  /\ steady \subseteq Uids
  /\ changes \in 0..MaxChanges

\* Owners are ordered by id where the token compares the UID: what follows is
\* promised of all tokens, and of the owners whose create_time no other has.
Ordered(x) ==
  \/ req.op = "ListTokens"
  \/ \A y \in Uids \ {x} : created[y] # created[x]

\* repository.go:204 and 438: whatever is inserted or deleted meanwhile, and
\* from whichever database each page comes, no row is given to the client
\* twice ...
ListedOnce ==
  \A i, j \in DOMAIN listed :
    listed[i] = listed[j] /\ Ordered(listed[i]) => i = j

\* ... and when there is no further page, the client has been given every row
\* its filter selects that was there from the first call to the last.
ListedCompletely ==
  pc = "done" =>
    \A x \in steady \cap req.filter : Ordered(x) => x \in ToSet(listed)

\* repository.go:213 and 446: page after page the rows are the newest first.
NewestFirst ==
  \A i, j \in DOMAIN listed : i < j => created[listed[i]] >= created[listed[j]]

\* However the tables change, a listing comes to a page without a token.
ListingEnds == (pc = "count") ~> (pc = "done")
=============================================================================
